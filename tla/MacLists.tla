------------------------------ MODULE MacLists ------------------------------
(***************************************************************************)
(* The linked lists of core/lib/list.c as the MAC layers use them: a list   *)
(* is the sequence of its elements from the head on, and NULL is None.       *)
(***************************************************************************)
EXTENDS Naturals, Sequences, SequencesExt

\* Where p first stands in s.
IndexOf(s, p) == CHOOSE i \in 1..Len(s) : s[i] = p

\* list_push: p becomes the head of s.
ListPush(s, p) == <<p>> \o s

\* list_remove: s without its element p; s itself when p is not in it.
ListRemove(s, p) ==
  IF \E i \in 1..Len(s) : s[i] = p THEN RemoveAt(s, IndexOf(s, p)) ELSE s

\* list_item_next: the element behind p in s, none behind the last one.
ItemNext(s, p, none) ==
  LET i == IndexOf(s, p) IN IF i < Len(s) THEN s[i + 1] ELSE none

\* The elements of s that are in S, in their order.
Only(s, S) ==
  LET f[i \in 0..Len(s)] ==
        IF i = 0 THEN <<>>
        ELSE IF s[i] \in S THEN Append(f[i - 1], s[i]) ELSE f[i - 1]
  IN f[Len(s)]

\* No element stands twice in s: an element has one next pointer.
Distinct(s) == \A i, j \in 1..Len(s) : s[i] = s[j] => i = j
=============================================================================

------------------------------- MODULE Lists -------------------------------
(***************************************************************************)
(* The kernel's singly linked lists of threads, as sequences.              *)
(***************************************************************************)
EXTENDS Naturals, Sequences

\* x is on the list.
On(list, x) == \E k \in 1..Len(list) : list[k] = x

\* No element is on the list twice.
Once(list) == \A i, j \in 1..Len(list) : list[i] = list[j] => i = j

\* The elements' keys never fall along the list.
SortedBy(list, key) == \A i, j \in 1..Len(list) : i < j => key[list[i]] <= key[list[j]]

\* x is linked in before the k-th element, or after the last.
LinkAt(list, k, x) == SubSeq(list, 1, k - 1) \o <<x>> \o SubSeq(list, k, Len(list))

\* The k-th element is unlinked.
UnlinkAt(list, k) == SubSeq(list, 1, k - 1) \o SubSeq(list, k + 1, Len(list))

\* The list with x taken off, if it was on it: sleep_remove and waitq_remove
\* search for x and unlink the first match.
Without(list, x) ==
    IF On(list, x)
    THEN UnlinkAt(list, CHOOSE k \in 1..Len(list) : list[k] = x)
    ELSE list
=============================================================================

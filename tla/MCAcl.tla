------------------------------- MODULE MCAcl -------------------------------
(* Instances of Acl, and through it of Heap, for TLC.                      *)
EXTENDS Acl

SmallSizes == {0, 1, 3, 5}

(* Root may read; user 1 in group 0 may read, or read and write; user 1 in *)
(* group 1 may write: e = user + 2 * group + 4 * permissions.              *)
SomeEntries == {4, 5, 13, 11}
=============================================================================

----------------------------- MODULE MCUserHandle -----------------------------
\* Files for TLC: whole ones, one that has only the host, one that is half good.
EXTENDS UserHandle

CONSTANTS v1, v2

File(host, bind, base) == [Host |-> host, BindDN |-> bind, BaseDN |-> base]

FewFiles == {File(v1, v1, v1), File(v2, Absent, v2), File(v1, Mistyped, v1), Garbled}
=============================================================================

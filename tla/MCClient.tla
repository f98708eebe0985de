------------------------------ MODULE MCClient ------------------------------
EXTENDS Client

CONSTANTS s1, s2, u1, u2, o1, o2, r1, r2, c1

TwoSubs == {s1, s2}
TwoFlushers == {u1, u2}
TwoOpens == {o1, o2}
TwoRestores == {r1, r2}
OneClose == {c1}

\* Windows of one minute and of two, at least three and two fixes of them.
FrontWindow == [interval |-> 1, span |-> 2, least |-> 3, most |-> 4]
BackWindow == [interval |-> 2, span |-> 4, least |-> 2, most |-> 3]

\* Surrogates, forms that are too long, and bytes that begin nothing.
BadBytes == {<<237, 160, 128>>, <<192, 128>>, <<224, 128, 128>>, <<244, 144, 128, 128>>, <<255>>}
=============================================================================

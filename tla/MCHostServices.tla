--------------------------- MODULE MCHostServices ---------------------------
EXTENDS HostServices

CONSTANTS p1, p2, p3

MCPathOrder == [p \in {p1, p2, p3} |-> IF p = p1 THEN 1 ELSE IF p = p2 THEN 2 ELSE 3]
MCBytes == [b \in Backups |-> IF b = 2 THEN 2 ELSE 1]
=============================================================================

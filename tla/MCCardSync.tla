----------------------------- MODULE MCCardSync -----------------------------
\* Instances of CardSync: one task writes every card, or each card its own.
EXTENDS CardSync

CONSTANTS t1, t2, server

Writes == [c \in Slots |-> IF c = 1 THEN 4 ELSE 1]
TaskPerCard == [c \in Slots |-> IF c = 1 THEN t1 ELSE t2]
=============================================================================

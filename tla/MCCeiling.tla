----------------------------- MODULE MCCeiling -----------------------------
EXTENDS Spells

CONSTANTS work, j1, j2

MCAccountOf == [j \in Job |-> work]
MCCeilings  == [a \in Account |-> [five |-> 2, weekly |-> 1]]
=============================================================================

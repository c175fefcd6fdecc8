------------------------- MODULE MCAgentLifecycle -------------------------
(* Offices for two waves: gongbu1 and xingbu of one wave are siblings, and a *)
(* writer of each wave wants the same path.                                  *)
EXTENDS AgentLifecycle

CONSTANTS gongbu1, gongbu2, xingbu, w1, w2, src, tests

MCWaveOf == [o \in Office |-> IF o = gongbu2 THEN w2 ELSE w1]
MCWriteSet == [o \in Office |-> IF o = xingbu THEN {tests} ELSE {src}]

\* Bound: gongbu1 meets one other office in a behaviour, his sibling or his
\* rival, never both (an admission is never taken back).
OneCompanion ==
    Cardinality(UNION {admission[w].offices : w \in Wave} \ {gongbu1}) <= 1
===========================================================================

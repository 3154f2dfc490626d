--------------------------- MODULE MCStackSwitch ---------------------------
EXTENDS StackSwitch

CONSTANTS oncpu, offcpu

MCOneFlame == {oncpu}
MCTwoFlames == {oncpu, offcpu}
====

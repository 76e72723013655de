---------------------------- MODULE MCAgentTurns ----------------------------
EXTENDS AgentTurns, TLC

CONSTANTS t1, t2, t3, main, quick, h1

\* One thread: turns from the main window and one from Quick Ask.
MCThreadOf == [t \in Turn |-> h1]
MCWindowOf == [t \in Turn |-> IF t = t2 THEN quick ELSE main]
=============================================================================

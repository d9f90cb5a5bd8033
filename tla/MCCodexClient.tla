----------------------------- MODULE MCCodexClient -----------------------------
(* Two prompts, one whose turn asks for an approval, and a thread for each *)
(* connection and page that may need a new one.                            *)
EXTENDS CodexClient

CONSTANTS p1, p2

MCPrompts == {p1, p2}
MCGuarded == {p1}
MCThreads == 1 .. (MaxDrops + MaxLoads + 2)
===============================================================================

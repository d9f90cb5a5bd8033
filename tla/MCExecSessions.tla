----------------------------- MODULE MCExecSessions -----------------------------
(* One terminal more than there may be sessions. *)
EXTENDS ExecSessions

CONSTANTS t1, t2, t3

MCTerminals == {t1, t2, t3}
===============================================================================

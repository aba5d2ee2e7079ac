----------------------------- MODULE MCSession -----------------------------
(* Instances of Session for TLC.                                           *)
EXTENDS Session, TLC

CONSTANTS r1, r2

CallerSymmetry == Permutations(Callers)

AnyOps == [r \in Callers |-> {"info", "wait", "kill", "send"}]
OnlyInfo == [r \in Callers |-> {"info"}]
OnlyWait == [r \in Callers |-> {"wait"}]

\* One caller sends and kills and may hang; the other asks and takes its answers.
MixedOps == [r \in Callers |->
    IF r = r1 THEN {"wait", "kill", "history"} ELSE {"kill", "send"}]
=============================================================================

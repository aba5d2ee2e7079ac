----------------------------- MODULE MCRegistry -----------------------------
(* Instances of Registry for TLC.                                          *)
EXTENDS Registry

CONSTANTS s1, s2, s3

Three == {s1, s2, s3}
Two == {s1, s2}

\* Every Start asks for an id of its own.
OwnIds == [s \in Sessions |-> CASE s = s1 -> 1 [] s = s2 -> 2 [] OTHER -> 3]

\* s1 and s2 ask for the same id.
SharedId == [s \in Sessions |-> IF s \in {s1, s2} THEN 1 ELSE 2]

\* s1 ran, ended and pruned before the two others are started.
OneEnded ==
    /\ lock = None
    /\ start = [s \in Sessions |-> IF s = s1 THEN "returned" ELSE "called"]
    /\ result = [s \in Sessions |-> IF s = s1 THEN s ELSE None]
    /\ daemon = [s \in Sessions |-> IF s = s1 THEN "exited" ELSE "none"]
    /\ sock = [i \in Ids |-> None]
    /\ record = [i \in Ids |-> IF i = IdOf[s1] THEN s1 ELSE None]
    /\ history = record
    /\ endedAt = [s \in Sessions |-> IF s = s1 THEN 2 ELSE 0]
    /\ openedAt = [s \in Sessions |-> IF s = s1 THEN 3 ELSE 0]
    /\ scan = [p \in Sessions \cup Listers |-> Idle]
    /\ prune = [s \in Sessions |-> IF s = s1 THEN [NotPruning EXCEPT !.keep = 1] ELSE NotPruning]

FilesSpec == OneEnded /\ [][Next]_vars
=============================================================================

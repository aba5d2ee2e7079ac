---------------------------- MODULE OutputStream ----------------------------
(***************************************************************************)
(* What the attach protocol promises its clients, with no queue, frame,     *)
(* snapshot or goroutine: one stream of output that grows until it is      *)
(* complete, and viewers who see ever later states of it and are told it   *)
(* ended only when they have seen all of it.  (The comments of             *)
(* daemon/attach.go and the attach section of intent/bgx.md.)              *)
(***************************************************************************)
EXTENDS Integers

CONSTANTS Clients, MaxOut

VARIABLES
    produced,   \* positions of the stream shown so far to anyone
    complete,   \* nothing will follow
    status,     \* of each client: away, watching, ended, gone
    view        \* the position each client sees

vars == <<produced, complete, status, view>>

Init ==
    /\ produced = 0 /\ complete = FALSE
    /\ status = [c \in Clients |-> "away"]
    /\ view = [c \in Clients |-> 0]

Produce ==
    /\ ~complete
    /\ produced' \in produced + 1 .. MaxOut
    /\ UNCHANGED <<complete, status, view>>

Complete ==
    /\ ~complete
    /\ complete' = TRUE
    /\ UNCHANGED <<produced, status, view>>

Watch(c) ==
    /\ status[c] = "away"
    /\ status' = [status EXCEPT ![c] = "watching"]
    /\ UNCHANGED <<produced, complete, view>>

Advance(c) ==
    /\ status[c] = "watching"
    /\ \E p \in view[c]..produced : view' = [view EXCEPT ![c] = p]
    /\ UNCHANGED <<produced, complete, status>>

\* The viewer has seen everything and is told so.
End(c) ==
    /\ status[c] = "watching" /\ complete /\ view[c] = produced
    /\ status' = [status EXCEPT ![c] = "ended"]
    /\ UNCHANGED <<produced, complete, view>>

\* The viewers in S lose the stream (they leave, or the daemon goes).
Lose(S) ==
    /\ \A c \in S : status[c] \in {"away", "watching"}
    /\ status' = [c \in Clients |-> IF c \in S THEN "gone" ELSE status[c]]
    /\ UNCHANGED <<produced, complete, view>>

Next ==
    \/ Produce
    \/ Complete
    \/ \E c \in Clients : Watch(c) \/ Advance(c) \/ End(c)
    \/ \E S \in SUBSET Clients : Lose(S)

Spec == Init /\ [][Next]_vars
=============================================================================

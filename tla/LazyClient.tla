---------------------------- MODULE LazyClient -----------------------------
(***************************************************************************)
(* What GetHostClient of pkg/host/client.go promises to its callers,       *)
(* without a word about locks, clusters and informers: there is a cell     *)
(* that is filled once and not changed while the process runs.  A caller   *)
(* is given what is in the cell, and is refused only while it is empty.    *)
(***************************************************************************)
EXTENDS Naturals

CONSTANT Callers

VARIABLES
    cell,        \* 0, or the client that every caller is given
    waiting,     \* callers that have asked and have no answer
    outcome,     \* how the last call of a caller ended: "none", "error", "client"
    given        \* the client it was given, 0 if none

vars == <<cell, waiting, outcome, given>>

Init ==
    /\ cell = 0
    /\ waiting = {}
    /\ outcome = [c \in Callers |-> "none"]
    /\ given = [c \in Callers |-> 0]

Ask(c) ==
    /\ c \notin waiting
    /\ waiting' = waiting \union {c}
    /\ outcome' = [outcome EXCEPT ![c] = "none"]
    /\ given' = [given EXCEPT ![c] = 0]
    /\ UNCHANGED cell

\* The first caller to get this far also fills the cell
Give(c) ==
    /\ c \in waiting
    /\ cell' \in Nat \ {0}
    /\ cell # 0 => cell' = cell
    /\ waiting' = waiting \ {c}
    /\ outcome' = [outcome EXCEPT ![c] = "client"]
    /\ given' = [given EXCEPT ![c] = cell']

Refuse(c) ==
    /\ c \in waiting
    /\ cell = 0
    /\ waiting' = waiting \ {c}
    /\ outcome' = [outcome EXCEPT ![c] = "error"]
    /\ UNCHANGED <<cell, given>>

\* The process stops and another one starts
Restart ==
    /\ cell' = 0
    /\ waiting' = {}
    /\ outcome' = [c \in Callers |-> "none"]
    /\ given' = [c \in Callers |-> 0]

Next ==
    \/ \E c \in Callers : Ask(c) \/ Give(c) \/ Refuse(c)
    \/ Restart

Spec == Init /\ [][Next]_vars
===========================================================================

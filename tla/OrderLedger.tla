------------------------------ MODULE OrderLedger ------------------------------
(***************************************************************************)
(* What the order tracker and its two cycles promise of the orders, with   *)
(* neither threads nor payloads: an id is drawn once; an order moves along *)
(* the table of legal transitions only; what is kept on disk of an order is*)
(* where it stands or an earlier place of its life, and a restart brings it*)
(* back to what was kept.  OrderHotPath implements it.                     *)
(***************************************************************************)
EXTENDS OrderStateMachine

CONSTANT Orders

VARIABLES
    status,   \* the state of each order in memory, NoState when it has none
    kept,     \* the state of each order a restart would find
    drawn,    \* the ids that have been given to an order
    running   \* the process is up

ledgerVars == <<status, kept, drawn, running>>

Nothing == [o \in Orders |-> NoState]

Init == status = Nothing /\ kept = Nothing /\ drawn = {} /\ running = TRUE

Draw(o) ==
    /\ running /\ o \notin drawn
    /\ drawn' = drawn \cup {o}
    /\ status' = [status EXCEPT ![o] = "DRAFT"]
    /\ UNCHANGED <<kept, running>>

Advance(o, s) ==
    /\ running
    /\ <<status[o], s>> \in LegalTransitions
    /\ status' = [status EXCEPT ![o] = s]
    /\ UNCHANGED <<kept, drawn, running>>

\* Whatever reaches the disk is no later than what is in memory.
Keep ==
    /\ running
    /\ kept' \in [Orders -> OrderStates \cup {NoState}]
    /\ \A o \in Orders : Precedes(kept'[o], status[o])
    /\ UNCHANGED <<status, drawn, running>>

Lose == kept' = Nothing /\ UNCHANGED <<status, drawn, running>>

Stop ==
    /\ running
    /\ running' = FALSE
    /\ status' = Nothing
    /\ UNCHANGED <<kept, drawn>>

Restart ==
    /\ ~running
    /\ running' = TRUE
    /\ status' = kept
    /\ UNCHANGED <<kept, drawn>>

Next ==
    \/ \E o \in Orders : Draw(o) \/ \E s \in OrderStates : Advance(o, s)
    \/ Keep \/ Lose \/ Stop \/ Restart

Spec == Init /\ [][Next]_ledgerVars
=============================================================================

----------------------------- MODULE SleevePromise -----------------------------
(***************************************************************************)
(* What the live micro sleeve promises of its money, with neither cycles   *)
(* nor files nor days: at most one coin, bought while none is on record and*)
(* no loss bars it; written down before anything else; sold only when it is*)
(* on record; struck off before the next one.  Nothing more is promised    *)
(* once an answer, a write, the process or the coin itself is lost.        *)
(* LiveMicro implements it.                                                *)
(***************************************************************************)

VARIABLES
    coin,        \* "none", "one", or "astray"
    recorded,    \* a position is on record
    barred       \* a sale at the loss limit has ended the sleeve

sleeveVars == <<coin, recorded, barred>>

Init == coin = "none" /\ recorded = FALSE /\ barred = FALSE

Buy ==
    /\ coin = "none" /\ ~recorded /\ ~barred
    /\ coin' = "one"
    /\ UNCHANGED <<recorded, barred>>

Note ==
    /\ coin = "one" /\ ~recorded
    /\ recorded' = TRUE
    /\ UNCHANGED <<coin, barred>>

Sell(loss) ==
    /\ coin = "one" /\ recorded
    /\ coin' = "none"
    /\ barred' = (barred \/ loss)
    /\ UNCHANGED recorded

StrikeOff ==
    /\ coin = "none" /\ recorded
    /\ recorded' = FALSE
    /\ UNCHANGED <<coin, barred>>

\* The operator lets it trade again.
Readmit ==
    /\ barred
    /\ barred' = FALSE
    /\ UNCHANGED <<coin, recorded>>

Stray == coin' = "astray" /\ recorded' \in BOOLEAN /\ barred' \in BOOLEAN

Next ==
    \/ Buy \/ Note \/ (\E loss \in BOOLEAN : Sell(loss)) \/ StrikeOff \/ Readmit
    \/ Stray

Spec == Init /\ [][Next]_sleeveVars

=============================================================================

----------------------------- MODULE MCWorkerLoop -----------------------------
(***************************************************************************)
(* Two cycles of Binance and two of IBKR, one of which runs on the main    *)
(* thread.  Of three threads, two may hang, each with a lock; the third    *)
(* finds it taken and ends.                                                *)
(***************************************************************************)
EXTENDS WorkerLoop

MCCycles == {"crypto", "crypto_watchdog", "fx_carry", "bracket_watchdog"}

MCThreaded == MCCycles \ {"bracket_watchdog"}

MCLockOf ==
    [c \in MCCycles |-> IF c \in {"crypto", "crypto_watchdog"}
                        THEN "crypto_lock" ELSE "ibkr_lock"]

=============================================================================

SPECIFICATION FairSpec
CONSTANTS
    Cycles <- MCCycles
    Threaded <- MCThreaded
    Trading = "crypto"
    Locks = {"crypto_lock", "ibkr_lock"}
    LockOf <- MCLockOf
    Threads = {t1, t2, t3}
    Main = Main
    Nobody = Nobody
    NoCycle = NoCycle
INVARIANTS
    TypeOK
    OneWorkerPerLock
    LocksComeBack
PROPERTY PassEnds

SPECIFICATION SyncSpec
CONSTANTS
    Threads = {t1, t2, t3}
    Readers = {r1, r2}
    Writers = {w1, w2}
    SpinLimit = 3
    MaxTickets = 5
    WriterFlag = 4
    MaxEpochs = 3
    Rounds = 3
INVARIANTS OneTime RoundByRound
PROPERTIES SpinImplementsMutex ImplementsMutex Fifo NeverWedged NoStarvation ImplementsRwLock WritersNotWedged
           WaitersReleased BarrierWaitsReturn
CHECK_DEADLOCK FALSE

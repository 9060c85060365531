\* Two write threads, I/O that never fails.
CONSTANTS
    w1 = w1
    w2 = w2
    Writers <- MCWriters
    NumMbufs = 4
    RingSize = 2
    Burst = 2
    FileLimit = 1
    MaxStarts = 2
    IoMayFail = FALSE
SPECIFICATION Spec
INVARIANT MbufConserved

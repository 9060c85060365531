\* Two write threads; fopen, fwrite and the LZ4F calls may fail, or succeed.
CONSTANTS
    w1 = w1
    w2 = w2
    Writers <- MCWriters
    NumMbufs = 4
    RingSize = 2
    Burst = 2
    FileLimit = 1
    MaxStarts = 2
    IoMayFail = TRUE
SPECIFICATION Spec
INVARIANTS TypeOK FileNamesUnique
PROPERTIES StopClosesFile StartOpensFile ExitStopsAllThreads

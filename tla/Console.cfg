\* The console alone: any lines, any interleaving of the thread and the tick.
SPECIFICATION ConsoleFairSpec
CONSTANTS
    Chars = {" ", "x"}
    Blank = " "
    Lines <- ShortLines
    LineMax = 3
    MaxEntered = 3
INVARIANTS QueueExclusive OncePerLine
PROPERTY EveryLineRuns

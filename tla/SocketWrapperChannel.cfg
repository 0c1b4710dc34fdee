SPECIFICATION FairSpec
CONSTANTS
    small = small
    large = large
    other = other
    Frames = {small, large, other}
    Size <- MCSize
    MaxReuseSize = 2
    NoFrame = NoFrame
    Garbage = Garbage
INVARIANT TypeOK
INVARIANT InvalidatedOnce
INVARIANT BufferFits
INVARIANT NoCallbackForgotten
PROPERTY RefinesChannel
PROPERTY CallbacksAreCalled
CHECK_DEADLOCK FALSE

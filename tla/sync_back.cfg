\* The event number after a pause that follows a wrap of the frame counter.
SPECIFICATION Spec
CONSTANTS
    Word = 4
    MaxFrames = 9
PROPERTY
    EvtNumNeverBack

\* Two class templates, one instantiated with a class of the source, and a
\* function template, in a batch of two.
CONSTANTS
    a = a
    b = b
    f = f
    Source = Source
    Nothing = Nothing
    Classes <- TwoClasses
    Functions <- OneFunction
    Argument <- BOfSource
    MaxFrames = 6
    MaxNames = 2
    MaxUnits = 2
SPECIFICATION Spec
INVARIANTS
    ImmediateContext
    CallerRestored
    DefinedOnce
\* The batch is over.
CHECK_DEADLOCK FALSE

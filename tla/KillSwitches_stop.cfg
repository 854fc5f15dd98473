SPECIFICATION Spec
CONSTANTS
    c1 = c1
    s1 = s1
    i1 = i1
    Loop = loop
    Commands <- MCCommands
    Strategies <- MCStrategies
    Instruments <- MCInstruments
    Usable <- MCUsable
INVARIANT StopIsNoticed

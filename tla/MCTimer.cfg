SPECIFICATION Spec
CONSTANTS
    Pin <- Pins
    Name <- Names
    Source <- SourceOf
    Sink <- SinkOf
    Files <- AllFiles
    Far = 1000
    Garbage = {3, 9}
    NoNode = NoNode
INVARIANTS
    TypeOK
    ArrivalsAreExtremes
    SlackIsWorst
PROPERTIES
    NeverRevised
    Ends

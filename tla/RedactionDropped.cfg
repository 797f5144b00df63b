SPECIFICATION Spec
CONSTANTS
    Names = {"EMAIL", "HOST", "PERSON"}
    Letters = {"ann", "Ann", "bob", "von"}
    Gaps = {" ", "newline"}
    Spaces = {" ", "newline"}
    Newline = "newline"
    Base = 2
    Width = 2
    Digit <- MCDigit
    Types = {"EMAIL", "HOST", "PERSON", "ann"}
    Persons = {"PERSON"}
    Particles <- MCParticles
    Spelling <- MCSpelling
    LeftOut <- MCLeftOut
    Earlier <- MCEarlier
    Asks <- MCAsks
    ReplySymbols = {"EMAIL", "_", "0", "1", "newline"}
    MaxReply = 5
    MaxChunk = 3
    MaxImages = 1
INVARIANT OccurrencesReplaced
CHECK_DEADLOCK FALSE

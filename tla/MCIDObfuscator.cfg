CONSTANTS
    ban = ban
    mute = mute
    other = other
    MaxLen = 4
    Types = {ban, mute}
    IdModulus = 5
    Base = 3
    None = None
    Half = 32
    Ids <- SomeIds
    MadeUp <- Some
SPECIFICATION Spec
INVARIANTS
    OnlyPossibleIds
    RoundTrip
    OneTokenPerRecord

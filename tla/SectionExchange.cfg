SPECIFICATION Exchange
CONSTANTS
    MaxWins = 15
    Base = 2
    Foreign <- MCForeign
INVARIANTS
    RoundTrip
    SectionIsCanonical

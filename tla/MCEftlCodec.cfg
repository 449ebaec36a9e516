SPECIFICATION Spec
CONSTANTS
    Exact = 2
    MaxInt64 = 15
    NanosPerMilli = 6
    Depth = 3
    Names <- MCNames
    Messages <- MCMessages
    Objects <- MCObjects
INVARIANTS
    RoundTrip
    SentOnIfPublished
PROPERTIES
    SecondTripExact
CHECK_DEADLOCK FALSE

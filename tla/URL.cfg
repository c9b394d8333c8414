\* Every text of a scheme and at most MaxRest characters is parsed, copied and
\* changed.  An object on which nothing more is done is no deadlock.
SPECIFICATION Spec
CONSTANTS
    MaxRest = 3
    Char <- Alphabet
    Inputs <- Spellings
    Names <- Parts
    Ports <- Numbers
    DefaultPort = 4
    MaxPort = 8
    MaxInt = 15
    MaxLong = 63
    MaxEdits = 2
CHECK_DEADLOCK FALSE
INVARIANT ValidMeansSound
INVARIANT RoundTrip
INVARIANT EqualMeansSame
INVARIANT ParseKeepsText

\* Two keys, two seeds, filters of one to three bytes, of which
\* deserialize() takes two; vectors cut anywhere.
SPECIFICATION Spec
CONSTANTS
    a = a
    b = b
    None = None
    Keys = {a, b}
    Sizes = {7, 12, 20}
    MaxSize = 16
    Seeds = {0, 2}
    Hash <- SomeHash
INVARIANT NoFalseNegatives
INVARIANT NoFalseNegativesInCopy

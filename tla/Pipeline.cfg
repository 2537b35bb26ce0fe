\* Two keys of each kind, blocks of two cells, bodies of up to five.
SPECIFICATION Spec
CONSTANTS
    none = none
    h1 = h1
    h2 = h2
    c1 = c1
    c2 = c2
    HashKeys = {h1, h2}
    CryptoKeys = {c1, c2}
    NoKey = none
    KeySize = 3
    Overhead = 1
    MaxLen = 3
INVARIANTS
    ExactOrRefused
    CompatibleIsServed
    AnswerIsIntact

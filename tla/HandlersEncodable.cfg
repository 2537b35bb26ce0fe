\* A gauge JSON cannot encode.
SPECIFICATION Spec
CONSTANTS
    q1 = q1
    q2 = q2
    q3 = q3
    n0 = n0
    n1 = n1
    n2 = n2
    v1 = v1
    v2 = v2
    Nil = Nil
    NaN = NaN
    Requests = {q1, q2, q3}
    Names = {n0, n1, n2}
    NoName = n0
    Inputs <- ClientInputs
    Values = {v1, v2, NaN}
    MaxCounter = 1
SYMMETRY RequestSymmetry
INVARIANTS
    SnapshotIsEncodable

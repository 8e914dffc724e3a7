CONSTANTS
    Node = {n1, n2, n3}
    Native = {p, q}
    AirMax = 2
SPECIFICATION MCSpec
SYMMETRY MCSymmetry
INVARIANTS
    KnowledgeTruthful
    FramesLegal
    FramesDecodable

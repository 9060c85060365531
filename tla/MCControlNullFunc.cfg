\* As MCControl.cfg: is a decoder always there for the tokens command_list admits?
CONSTANTS
    c1 = c1
    c2 = c2
    noname = noname
    p0 = p0
    p1 = p1
SPECIFICATION Spec
SYMMETRY MCSymmetry
INVARIANT DecoderDefined

\* Two workers, as the broker has whenever max_sessions is 2.
CONSTANTS
    p1 = p1
    c1 = c1
    c2 = c2
    a = a
    Producer = {p1}
    Consumer = {c1, c2}
    Elem = {a}
    NoElem = NoElem
    Capacity = 2
    SizeMod = 16
SPECIFICATION Spec
PROPERTY
    NothingTakenFromEmpty

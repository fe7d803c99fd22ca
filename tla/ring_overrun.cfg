SPECIFICATION Spec
CONSTANTS
    a = a  b = b  r1 = r1  w1 = w1  w2 = w2
    Updates = {a, b}
    DataLen <- MCDataLen
    Writers = {w1}
    Readers = {r1}
    Capacity = 6
    Header = 2
    MaxEpoch = 1
    Zero = Zero
    Torn = Torn
INVARIANT WritesStayInside

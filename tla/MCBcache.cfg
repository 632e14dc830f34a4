CONSTANTS
    BlockNum = {b1, b2, b3}
    Data = {"zeros", "x"}
    Zero = "zeros"
    count = 2
    MaxPinned = 1
    MaxRef = 2
    NULL = null
SPECIFICATION Spec
INVARIANTS
    PinnedStayPut
    OneCopyOneList

    
CHECK_DEADLOCK FALSE

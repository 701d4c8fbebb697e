SPECIFICATION Spec
CONSTANTS
    Names = {x, y}
    Literals = {one, nil}
    Immediate = {nil}
    Falsy = {nil}
    Sizes = {0, 4, 8}
    MaxReg = 5
    MaxArgs = 3
    MaxNodes = 4
    MaxNesting = 4
    Zero = Zero
    Reply = Reply
    Unset = Unset
    Orders = {"low first"}
INVARIANTS JumpsInside
SYMMETRY Renamings
\* Programs end, and the bounds end their writing.
CHECK_DEADLOCK FALSE

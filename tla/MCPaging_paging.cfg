SPECIFICATION Spec
CONSTANTS
    sh = sh  p1 = p1  p2 = p2  th = th
    a = a  b = b  c = c  d = d  e = e
    Proc = {sh, p1, p2}
    Thread = {th}
    Shell = sh
    Page = {a, b, c, d, e}
    Image = Image
    None = None
    Touches <- Own
    Data = {"x"}
    MaxFrame = 13
    MaxSwap = 2
SYMMETRY Alike
INVARIANT ReadsLastWrite
INVARIANT KernelIntact
INVARIANT OneOwner
INVARIANT FewFaults
INVARIANT PnumCounts

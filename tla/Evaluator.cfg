CONSTANTS
    None = None  NoDin = NoDin  Absent = Absent
    turnover = turnover  before = before  tp = tp  category = category
    private = private  public = public  x1 = x1
    Attrs = {turnover, before, tp, category}
    Names = {private, public}
    Preds <- MCPreds
    Nesting = 2
    Codes = {"A", "B", "C", "D", "E", "F", "G"}
    Datasets <- MCDatasets
    Extensions <- MCExtensions
    Fy = 2026
    ValuesOf <- MCValues
    AgmDates <- MCAgms
    Directors = {x1}
    Allocations <- MCAllocations
SPECIFICATION Spec
INVARIANTS TypeOK SupersessionAsDeclared
PROPERTIES NothingLost SettledStays

CONSTANTS
    None = None
    s1 = s1  s2 = s2  r1 = r1  r2 = r2  e1 = e1  e2 = e2  e3 = e3
    exec = exec  manager = manager  srn1 = srn1  note1 = note1
    Rules = {r1, r2}
    Slots = {s1}
    RuleOf <- OneRule
    DirectorSlots = {}
    Payloads = {1, 2}
    Facts = {0, 10}
    Dates = {11, 12, 13}
    Evaluate <- MCEvaluate
    Supersede <- MCSupersede
    Extensions = {e1, e2, e3}
    ExtRule <- TwoRulesExt
    ExtRef <- SharedRef
    ExtApplies <- MCApplies
    Executives = {exec}
    Managers = {manager}
    Srns = {srn1}
    Notes = {note1}
    Patches <- CalendarPatches
    MaxVersions = 2
SPECIFICATION Spec
INVARIANTS TypeOK DateTraces StaleRowFlagged FiledHasEvidence CircularOfRule
PROPERTY NeverSilent

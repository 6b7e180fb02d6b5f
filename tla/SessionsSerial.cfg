CONSTANTS
    None = None
    s1 = s1  s2 = s2  r1 = r1  r2 = r2  e1 = e1  e2 = e2  e3 = e3
    exec = exec  manager = manager  srn1 = srn1  note1 = note1
    q1 = q1  q2 = q2
    Rules = {r1}
    Slots = {s1}
    RuleOf <- OneRule
    DirectorSlots = {s1}
    Payloads = {1, 2}
    Facts = {0, 10}
    Dates = {11, 12, 13}
    Evaluate <- MCEvaluate
    Supersede <- MCSupersede
    Extensions = {e1}
    ExtRule <- OwnRuleOne
    ExtRef <- OwnRefOne
    ExtApplies <- MCApplies
    Executives = {}
    Managers = {manager}
    Srns = {srn1}
    Notes = {note1}
    Patches <- RacePatches
    MaxVersions = 2
    Requests = {q1, q2}
    Overlap = FALSE
SPECIFICATION Spec
INVARIANT OneRowPerSlot
PROPERTY Serial

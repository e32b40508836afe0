SPECIFICATION Spec
CONSTANTS
    s1 = s1
    v1 = v1
    v2 = v2
    NoOne = NoOne
    Sessions = {s1}
    Providers = {"openai"}
    Versions = {v1, v2}
    MaxRescores = 1
    MaxFaults = 0
INVARIANTS
    TextDescribesRow

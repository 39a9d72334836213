CONSTANTS
    k1 = k1
    t1 = t1
    t2 = t2
    r1 = r1
    r2 = r2
    i1 = i1
    None = None
    Keys = {k1}
    Tags = {t1, t2}
    TagsOf <- AllTags
    Requests = {r1, r2}
    Critical = {r1}
    Invalidators = {i1}
    MaxVersion = 2
    MaxInvalidations = 1
    Capacity = 1
SPECIFICATION CSpec
INVARIANTS EntriesFenced
PROPERTIES FreshReads

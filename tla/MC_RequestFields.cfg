CONSTANTS
    v1 = v1
    v2 = v2
    Values = {v1, v2}
    NoValue = NoValue
    NoQuery = NoQuery

SPECIFICATION Spec

INVARIANT TypeOK
INVARIANT FieldsFromBodyThenQuery

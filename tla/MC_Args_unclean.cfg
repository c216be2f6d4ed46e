CONSTANTS
    MaxParams = 2
    ParamTypes = {"STRING", "INT", "POINTER"}
    Descs <- MCDescs
    NULL = NULL
    NullText <- MCNullText

SPECIFICATION Spec

INVARIANT ReturnsClean

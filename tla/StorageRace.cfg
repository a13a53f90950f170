SPECIFICATION Spec
CONSTANTS
    Requests <- FourRequests
    ValueOf <- FourValues
    Modulus = 8
    Workers = 3
    NoStruct = NoStruct
INVARIANTS TypeOK StructOfRequests

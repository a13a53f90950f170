SPECIFICATION Spec
CONSTANTS
    Requests <- FourRequests
    ValueOf <- FourValues
    Modulus = 64
    Workers = 1
    NoStruct = NoStruct
INVARIANT CountsEveryRequest

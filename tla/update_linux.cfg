SPECIFICATION Spec
CONSTANTS
    Requests = {1}
    InodePath = TRUE
    MaxRelease = 2
    MaxFaults = 0
PROPERTY RestartsIntoNew

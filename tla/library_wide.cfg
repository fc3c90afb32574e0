SPECIFICATION Spec
CONSTANTS
    Tasks = {t1}
    Requests <- WideRequests
    Like = {}
    Wide <- WideName
    MaxRows = 3
    MaxLinks = 1
    MaxRequests = 4
    MaxNumber = 2
    MaxHangs = 0
PROPERTIES
    MovedWhole

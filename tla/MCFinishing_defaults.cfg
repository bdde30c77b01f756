CONSTANTS
    c1 = c1
    c2 = c2
    Clients <- MCClients
    MaxValues = 3
SPECIFICATION Spec
SYMMETRY ClientSymmetry
INVARIANTS
    AcceptedPrintsAsAsked
    DefaultsAgree
PROPERTIES
    RestartKeepsDefault

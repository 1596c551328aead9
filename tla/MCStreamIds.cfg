CONSTANTS
    FirstSid = 4
    MaxSid = 7
SPECIFICATION Spec
INVARIANT IdsInv
PROPERTY FreshIsQuiet

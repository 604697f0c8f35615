SPECIFICATION NegotiationFairSpec
CONSTANTS
    PhoneFormats = {{0}, {8}, {9}, {0, 8}, {8, 9}, {0, 8, 9}}
    PhonePT = 97
    MaxStrays = 3
CHECK_DEADLOCK FALSE
INVARIANT SameFormat
PROPERTY AudioSettles

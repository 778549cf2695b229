\* The game server's console: three commands in any order.
SPECIFICATION EngineSpec
CONSTANTS
    Chars <- AllChars
    Blank = " "
    Lines <- CommandLines
    LineMax = 3
    MaxEntered = 3
    Numbers <- TheNumbers
INVARIANTS EngineTypeOK StackLedger CallsCheck

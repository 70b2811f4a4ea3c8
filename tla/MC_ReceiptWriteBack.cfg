SPECIFICATION ReceiptSpec
CONSTANTS
    Command = {c1, c2}
PROPERTIES
    ReceiptOnlyStrengthens
CHECK_DEADLOCK FALSE

CONSTANTS
    Price <- MCZeroPrice
    MaxItems = 2
    Value <- MCValue
    MaxDiscount <- MCMaxDiscount
SPECIFICATION Spec
INVARIANT PlacedTotalPositive
CHECK_DEADLOCK FALSE

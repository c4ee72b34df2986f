CONSTANTS
    Price <- MCPrice
    MaxItems = 2
    Value <- MCValue
    MaxDiscount <- MCMaxDiscount
SPECIFICATION Spec
INVARIANTS TypeOK SumsTheCart DiscountIsReference RowsBalance ChargeNearPayment
           FreeOnlyByResidue
CHECK_DEADLOCK FALSE

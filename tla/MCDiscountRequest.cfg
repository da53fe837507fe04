SPECIFICATION Spec
CONSTANTS
    roomy = roomy
    tight = tight
    Products = {roomy, tight}
    Sell <- SellPrices
    Cost <- CostPrices
    Stock <- StockNumbers
    Quantities <- SomeQuantities
    Percents <- SomePercents
    Offers <- SomeOffers
    NoProduct = NoProduct
    Nothing = Nothing
    MaxCalls = 2
    MaxAttempts = 2
CHECK_DEADLOCK FALSE
INVARIANTS
    TypeOK
    PromptHoldsNoInternals
    UnflaggedOfferIsCovered

SPECIFICATION Spec
CONSTANTS
    Users = {"ann", "bob"}
    Types = {"silver", "copper"}
    Kinds <- CoinKinds
    Value <- CoinValue
    Goods = {"torch"}
    Price <- GoodPrice
    MaxCapacity = 2
    Start <- OneSilver
    MaxWorth = 3
    MaxMoved = 2
 
PROPERTY NoMoneyMade

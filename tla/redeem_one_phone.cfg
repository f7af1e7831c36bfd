SPECIFICATION FairSpec
CONSTANTS
    Devices = {d1}
    Users = {u1}
    Coupons = {"lunch"}
    Keys = {"key1"}
    NoKey = "noKey"
    NoCoupon = "noCoupon"
    NoUser = NoUser
    KeyOf <- MCKeyOf
    Refused <- MCRefused
    MaxQueue = 1
    MaxServed = 0
PROPERTIES
    RedeemedStatusAppears
    RedemptionIsDelivered
    ValidationIsAnswered

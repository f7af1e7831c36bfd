SPECIFICATION Spec
CONSTANTS
    Devices = {d1}
    Users = {u1}
    Coupons = {"lunch"}
    Keys = {"key1"}
    NoKey = "noKey"
    NoCoupon = "noCoupon"
    NoUser = NoUser
    KeyOf <- MCKeyOf
    Refused = {}
    MaxQueue = 2
    MaxServed = 2
INVARIANTS
    OneCouponPerMeal

SPECIFICATION OrderlySpec
CONSTANTS
    d1 = d1
    d2 = d2
    u1 = u1
    u2 = u2
    Devices = {d1}
    Users = {u1}
    Coupons = {"lunch"}
    Keys = {"key1"}
    NoKey = "noKey"
    NoCoupon = "noCoupon"
    NoUser = NoUser
    KeyOf <- MCKeyOf
    Owner <- MCOwner
    Refused = {}
    MaxQueue = 3
    MaxServed = 2
INVARIANTS
    OneCouponPerMeal
    AnnouncedIsKept
    AnnouncedIsSeen

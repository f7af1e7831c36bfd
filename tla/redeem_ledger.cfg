SPECIFICATION Spec
CONSTANTS
    Devices = {d1}
    Users = {u1}
    Coupons = {"lunch", "dinner"}
    Keys = {"key1"}
    NoKey = "noKey"
    NoCoupon = "noCoupon"
    NoUser = NoUser
    KeyOf <- MCKeyOf
    Refused <- MCRefused
    MaxQueue = 1
    MaxServed = 0
INVARIANTS
    TypeOK
    DeskInv
    NoRecordWithoutKey
    RedeemedStatusIsOwn
PROPERTIES
    RefinesLedger

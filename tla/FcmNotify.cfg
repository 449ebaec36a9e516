SPECIFICATION Spec
CONSTANTS
    Users = {u1, u2}
    Browsers = {b1}
    Google = {g1}
    Lambda = {l1}
    Nobody = Nobody
INVARIANTS
    TypeInv
    NotifiesFollowers
    OnlyFollowers
    ContainerReusable
CHECK_DEADLOCK FALSE

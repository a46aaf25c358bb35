\* Two managers in two tabs, two companies, one product, two calls of setCompany at once.
SPECIFICATION Spec
CONSTANTS
    Users = {u1, u2}
    Admin = admin
    Companies = {c1, c2}
    Products = {p1}
    Tabs = {t1, t2}
    None = None
    MaxCalls = 2
INVARIANTS
    ProductsKept
    OwnersWanted
    TabsCallAsShown
SYMMETRY Symmetry
CHECK_DEADLOCK FALSE

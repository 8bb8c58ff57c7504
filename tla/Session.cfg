SPECIFICATION Spec
CONSTANTS
    admin = admin
    desk = desk
    Users = {admin, new1, new2}
    Clients = {desk, mobile}
    Requests = {r1, r2}
    Phones = {"n1", "n2"}
    Passwords = {"p0", "p1"}
    Roles = {"staff"}
    Staff = {"staff"}
    Forms <- Edits
    Rows <- OneUser
    Jars <- OneSignedIn
    AccessTTL = 1
    RefreshTTL = 2
    MaxTime = 2
    None = None
    Absent = Absent
INVARIANTS TypeOK SamePhoneOnlyUnseen OnlyOverlapsUndo AccessEndsAfterSignOut
PROPERTIES KeepsSession
SYMMETRY Symmetric
CHECK_DEADLOCK FALSE

SPECIFICATION MCSpec
CONSTANTS
    Users = {u1}  Families = {f1}  Tokens = {t1, t2, t3, t4}  Requests = {q1, q2}
    Nobody = Nobody  NoToken = NoToken
    MaxIdent = 2  Invitations = {i1, i2}  SetupTokens = {t1, t2, t3, t4}  Writers = {q1, q2}
    None = None
SYMMETRY Interchangeable
INVARIANTS RevocationIsTotal OneAdministrator TokenWasDelivered LoginNamesDistinct NoCircularWait
PROPERTY FamiliesKept
CHECK_DEADLOCK FALSE

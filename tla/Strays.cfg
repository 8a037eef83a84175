SPECIFICATION Spec
CONSTANTS
    r1 = r1  r2 = r2  r3 = r3  r4 = r4  u1 = u1  u2 = u2  u3 = u3  f1 = f1
    Request = {r1, r4}
    UrlOf <- Urlof
    KindOf <- Kinds
    Url = {u1, u2, u3}
    Local = {u3}
    File = {f1}
    NameOf <- Names
    Size = 3
    Arriving = {0, 3}
    BufSize = 2
    MaxSimCon = 1
    Absent = Absent
    Garbled = Garbled
    MaxKills = 0
INVARIANT FileSaved
CHECK_DEADLOCK FALSE

SPECIFICATION Spec
CONSTANTS
    path = path
    other = other
    host = host
    odd = odd
    cut = cut
    token = token
    user1 = user1
    user2 = user2
    Text <- MCText
    Plain <- MCPlain
    UserName <- MCUserName
    CommandLines <- MCCommandLines
    HandWritten <- MCHandWritten
    MaxTokens = 3
    Mangled = cut
    AnyHost = host
    Info = 2
    kB = 10
    MB = 100
    GB = 1000
    TB = 10000
    Word = 65536
    Absent = Absent
    NotANumber = NotANumber
    Unreadable = Unreadable
INVARIANTS GeneratedReloads OneSource

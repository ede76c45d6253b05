----------------------------- MODULE MCSettings -----------------------------
(* Small instances of Settings for TLC: sizes in units of 10, 100, ...     *)
EXTENDS Settings

CONSTANTS path, other, host, odd, cut, token, user1, user2

MCText == {path, other, host, odd, cut, token, user1, user2}
MCPlain == MCText \ {odd, cut}
MCUserName == [n \in 1..3 |-> IF n = 1 THEN user1 ELSE user2]

(* --auth token odd token *)
MCNoTokens == [t \in MCText |-> 0]
MCTokens == [MCNoTokens EXCEPT ![token] = 3, ![odd] = 2]

MCCommandLines ==
    {[NoArgs EXCEPT !.cacheDir = d, !.dbFile = d, !.auth = a, !.cert = c[1], !.key = c[2],
                    !.port = p, !.logFile = l, !.config = f] :
        d \in {Absent, path}, a \in {MCNoTokens, MCTokens},
        c \in {<<Absent, Absent>>, <<path, path>>, <<Absent, path>>},
        p \in {Absent, 8080}, l \in {Absent, odd}, f \in BOOLEAN}

Sized(text) == [Silent EXCEPT !.size["total"] = text, !.dbFile = path]

(* 7TB wraps around; 123MB is written again as 123MB, not as 12GB.         *)
MCHandWritten ==
    {Silent,
     Sized([count |-> 7, unit |-> "TB"]), Sized([count |-> 123, unit |-> "MB"]),
     Sized([count |-> 0, unit |-> "kB"]), Sized(NotANumber),
     [Silent EXCEPT !.certAndKey = [cert |-> other, key |-> Absent]],
     [Silent EXCEPT !.certAndKey = [cert |-> other, key |-> other], !.host = host,
                    !.cacheDir = other, !.auth = {<<token, other>>, <<other, user1>>}],
     [Silent EXCEPT !.time["age"] = [y |-> 1, d |-> 400, h |-> 0, m |-> 61, s |-> 5],
                    !.dryrun = TRUE, !.logLevel = 0, !.pool["base"] = 4],
     [Silent EXCEPT !.time["unused"] = NotANumber],
     [Silent EXCEPT !.time["unused"] = [y |-> 0, d |-> 0, h |-> 0, m |-> 0, s |-> 86399],
                    !.port = 90]}

=============================================================================

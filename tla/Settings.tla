------------------------------ MODULE Settings ------------------------------
(***************************************************************************)
(* How the server comes by its settings (settings.cpp, the YAML converters *)
(* of functional.hpp): defaults, overridden by a config file, overridden   *)
(* by the command line. The file may have been written by an earlier run   *)
(* with --generate_config, which prints the settings it would have used.   *)
(***************************************************************************)
EXTENDS Integers, Sequences

CONSTANTS
    Text,       \* paths, hosts, tokens and user names
    Plain,      \* those that YAML reads back as themselves, unquoted
    Mangled,    \* what it may make of another text
    AnyHost,    \* the default host, 0.0.0.0
    MaxTokens,  \* bound: tokens on a command line
    UserName,   \* [1..MaxTokens -> Text]: "User 1", "User 2", ...
    Info,       \* the default level of the log
    kB, MB, GB, TB, Word,  \* factors of the suffixes, values of size_t
    Absent,     \* a value that was not given
    NotANumber, \* a size or duration that its converter rejects
    Unreadable, \* a config file that is missing or is no YAML
    CommandLines, \* bound: the command lines to start with
    HandWritten   \* bound: the config files that somebody writes

----------------------------------------------------------------------------
(* Sizes: formatByteSizeForYaml and convert<ByteSize>::decode.             *)

Factor == [TB |-> TB, GB |-> GB, MB |-> MB, kB |-> kB, B |-> 1]

WholeUnit(bytes, factor) == bytes % factor = 0 /\ bytes >= factor

In(bytes, unit) == [count |-> bytes \div Factor[unit], unit |-> unit]

(* mutant: the largest unit that fits *)
SizeTextRounded(bytes) ==
    CASE bytes >= TB -> In(bytes, "TB")
      [] bytes >= GB -> In(bytes, "GB")
      [] bytes >= MB -> In(bytes, "MB")
      [] bytes >= kB -> In(bytes, "kB")
      [] OTHER -> In(bytes, "B")

SizeText(bytes) ==
    IF WholeUnit(bytes, TB) THEN In(bytes, "TB")
    ELSE IF WholeUnit(bytes, GB) THEN In(bytes, "GB")
    ELSE IF WholeUnit(bytes, MB) THEN In(bytes, "MB")
    ELSE IF WholeUnit(bytes, kB) THEN In(bytes, "kB")
    ELSE In(bytes, "B")

(* size_t{size * factor}: a product beyond size_t wraps around.            *)
SizeOf(text) == (text.count * Factor[text.unit]) % Word

----------------------------------------------------------------------------
(* Durations, in seconds: formatDurationForYaml and convert<duration>.     *)

Year == 31556952
Day == 86400
Hour == 3600
Minute == 60

DurationText(d) ==
    LET days == d % Year
        hours == days % Day
        minutes == hours % Hour
    IN  [y |-> d \div Year, d |-> days \div Day, h |-> hours \div Hour,
         m |-> minutes \div Minute, s |-> minutes % Minute]

DurationOf(text) ==
    text.y * Year + text.d * Day + text.h * Hour + text.m * Minute + text.s

----------------------------------------------------------------------------
(* Settings, and what a config file says.                                  *)

Limit == {"total", "package"}
Timeout == {"age", "unused"}
Pool == {"base", "max", "queued"}

Defaults ==
    [cacheDir |-> Absent, dbFile |-> Absent, logLevel |-> Info,
     auth |-> [t \in Text |-> Absent], certAndKey |-> Absent, port |-> Absent,
     host |-> AnyHost, logFile |-> Absent, dryrun |-> FALSE,
     size |-> [l \in Limit |-> Absent], time |-> [l \in Timeout |-> Absent],
     pool |-> [p \in Pool |-> Absent]]

(* A document has the same fields, Absent where it is silent, its sizes    *)
(* and durations as texts and its auth as pairs of a token and a user.     *)
Silent ==
    [cacheDir |-> Absent, dbFile |-> Absent, logLevel |-> Absent, auth |-> {},
     certAndKey |-> Absent, port |-> Absent, host |-> Absent, logFile |-> Absent,
     dryrun |-> Absent, size |-> [l \in Limit |-> Absent],
     time |-> [l \in Timeout |-> Absent], pool |-> [p \in Pool |-> Absent]]

SizeTexts == [count : Nat, unit : {"TB", "GB", "MB", "kB", "B"}]
DurationTexts == [y : Nat, d : Nat, h : Nat, m : Nat, s : Nat]

Opt(S) == S \cup {Absent}

Documents ==
    [cacheDir : Opt(Text), dbFile : Opt(Text), logLevel : Opt(Nat),
     auth : SUBSET (Text \X Text),
     certAndKey : Opt([cert : Opt(Text), key : Opt(Text)]),
     port : Opt(Nat), host : Opt(Text), logFile : Opt(Text), dryrun : Opt(BOOLEAN),
     size : [Limit -> SizeTexts \cup {Absent, NotANumber}],
     time : [Timeout -> DurationTexts \cup {Absent, NotANumber}],
     pool : [Pool -> Opt(Nat)]]

(* A command line; auth is the last place of each token in the list that   *)
(* --auth takes, 0 for none: that place numbers its user.                  *)
Lines ==
    [cacheDir : Opt(Text), dbFile : Opt(Text), logLevel : Opt(Nat),
     auth : [Text -> 0..MaxTokens],
     cert : Opt(Text), key : Opt(Text), port : Opt(Nat), host : Opt(Text),
     logFile : Opt(Text), config : BOOLEAN]

ASSUME SettingsConstants ==
    /\ Plain \subseteq Text
    /\ Mangled \in Text
    /\ AnyHost \in Plain
    /\ MaxTokens \in Nat
    /\ UserName \in [1..MaxTokens -> Text]
    /\ Info \in Nat
    /\ {kB, MB, GB, TB, Word} \subseteq Nat \ {0}
    /\ Absent \notin Text \cup Nat \cup BOOLEAN \cup SizeTexts \cup DurationTexts
    /\ Absent \notin [cert : Opt(Text), key : Opt(Text)]
    /\ NotANumber \notin Opt(SizeTexts \cup DurationTexts)
    /\ Unreadable \notin Documents
    /\ CommandLines \subseteq Lines
    /\ HandWritten \subseteq Documents

Or(given, otherwise) == IF given = Absent THEN otherwise ELSE given

----------------------------------------------------------------------------
(* generateConfigYaml: every value is written without quotes.              *)

Unquoted(t) == IF t \in Plain \cup {Absent} THEN t ELSE Mangled

Document(s) ==
    [cacheDir |-> Unquoted(s.cacheDir), dbFile |-> Unquoted(s.dbFile),
     logLevel |-> s.logLevel,
     auth |-> {<<Unquoted(t), Unquoted(s.auth[t])>> : t \in {u \in Text : s.auth[u] # Absent}},
     certAndKey |-> IF s.certAndKey = Absent THEN Absent
                    ELSE [cert |-> Unquoted(s.certAndKey.cert),
                          key |-> Unquoted(s.certAndKey.key)],
     port |-> s.port, host |-> Unquoted(s.host), logFile |-> Unquoted(s.logFile),
     dryrun |-> s.dryrun,
     size |-> [l \in Limit |-> IF s.size[l] = Absent THEN Absent ELSE SizeText(s.size[l])],
     time |-> [l \in Timeout |-> IF s.time[l] = Absent THEN Absent ELSE DurationText(s.time[l])],
     pool |-> s.pool]

PlainSettings(s) ==
    /\ {s.cacheDir, s.dbFile, s.host, s.logFile} \subseteq Plain \cup {Absent}
    /\ \A t \in Text : s.auth[t] # Absent => {t, s.auth[t]} \subseteq Plain
    /\ s.certAndKey # Absent => {s.certAndKey.cert, s.certAndKey.key} \subseteq Plain

----------------------------------------------------------------------------
(* parseConfig.                                                            *)

Accepted(doc) ==
    /\ doc # Unreadable
    /\ doc.certAndKey # Absent => Absent \notin {doc.certAndKey.cert, doc.certAndKey.key}
    /\ \A l \in Limit : doc.size[l] # NotANumber
    /\ \A l \in Timeout : doc.time[l] # NotANumber

UsersIn(pairs, t) == {u \in Text : <<t, u>> \in pairs}

Load(doc, s) ==
    [cacheDir |-> Or(doc.cacheDir, s.cacheDir), dbFile |-> Or(doc.dbFile, s.dbFile),
     logLevel |-> Or(doc.logLevel, s.logLevel),
     auth |-> [t \in Text |-> IF UsersIn(doc.auth, t) = {} THEN s.auth[t]
                              ELSE CHOOSE u \in Text : u \in UsersIn(doc.auth, t)],
     certAndKey |-> Or(doc.certAndKey, s.certAndKey),
     port |-> Or(doc.port, s.port), host |-> Or(doc.host, s.host),
     logFile |-> Or(doc.logFile, s.logFile), dryrun |-> Or(doc.dryrun, s.dryrun),
     size |-> [l \in Limit |-> IF doc.size[l] = Absent THEN s.size[l] ELSE SizeOf(doc.size[l])],
     time |-> [l \in Timeout |-> IF doc.time[l] = Absent THEN s.time[l] ELSE DurationOf(doc.time[l])],
     pool |-> [p \in Pool |-> Or(doc.pool[p], s.pool[p])]]

----------------------------------------------------------------------------
(* parseArgs.                                                              *)

NoArgs ==
    [cacheDir |-> Absent, dbFile |-> Absent, logLevel |-> Absent,
     auth |-> [t \in Text |-> 0],
     cert |-> Absent, key |-> Absent, port |-> Absent, host |-> Absent,
     logFile |-> Absent, config |-> FALSE]

HalfPair(args) == (args.cert = Absent) # (args.key = Absent)

PairOf(args) ==
    IF args.cert = Absent THEN Absent ELSE [cert |-> args.cert, key |-> args.key]

Override(args, s) ==
    [s EXCEPT
        !.cacheDir = Or(args.cacheDir, @), !.dbFile = Or(args.dbFile, @),
        !.logLevel = Or(args.logLevel, @),
        !.auth = [t \in Text |-> IF args.auth[t] = 0 THEN @[t] ELSE UserName[args.auth[t]]],
        !.certAndKey = Or(PairOf(args), @), !.port = Or(args.port, @),
        !.host = Or(args.host, @), !.logFile = Or(args.logFile, @)]

WithPort(s) ==
    [s EXCEPT !.port = Or(@, IF s.certAndKey = Absent THEN 80 ELSE 443)]

(* mutant: the file is read after the arguments *)
ParsedFileLast(args, doc) ==
    WithPort(IF args.config THEN Load(doc, Override(args, Defaults))
             ELSE Override(args, Defaults))

Parsed(args, doc) ==
    WithPort(Override(args, IF args.config THEN Load(doc, Defaults) ELSE Defaults))

Exits(args, doc) == HalfPair(args) \/ (args.config /\ ~Accepted(doc))

Startable(args, doc) ==
    /\ ~Exits(args, doc)
    /\ Absent \notin {Parsed(args, doc).cacheDir, Parsed(args, doc).dbFile}

----------------------------------------------------------------------------
VARIABLES
    file,     \* the config file
    made,     \* the settings that generated it, Absent if it was not generated
    line,     \* the command line of the server that runs
    running,  \* its settings, Absent if none runs
    code      \* the exit code of the last process, Absent before it ended

settingsVars == <<file, made, line, running, code>>

Init ==
    /\ file \in HandWritten \cup {Unreadable}
    /\ made = Absent
    /\ line = NoArgs
    /\ running = Absent
    /\ code = Absent

(* The server reads the file once, when it starts: to change it meanwhile  *)
(* is to change it before the next start.                                  *)
Write(doc) ==
    /\ running = Absent
    /\ file' = doc
    /\ made' = Absent
    /\ UNCHANGED <<line, running, code>>

(* --generate_config, its output put in the place of the file. A text that *)
(* is not plain may break the whole of it.                                 *)
Generate(args) ==
    /\ running = Absent
    /\ ~Exits(args, file)
    /\ made' = Parsed(args, file)
    /\ file' \in {Document(made')} \cup (IF PlainSettings(made') THEN {} ELSE {Unreadable})
    /\ code' = 0
    /\ UNCHANGED <<line, running>>

(* The error and the usage go to the standard output too.                  *)
GenerateFails(args) ==
    /\ running = Absent
    /\ Exits(args, file)
    /\ file' \in {Unreadable, Silent}
    /\ made' = Absent
    /\ code' = 1
    /\ UNCHANGED <<line, running>>

Start(args) ==
    /\ running = Absent
    /\ Startable(args, file)
    /\ line' = args
    /\ running' = Parsed(args, file)
    /\ code' = Absent
    /\ UNCHANGED <<file, made>>

StartFails(args) ==
    /\ running = Absent
    /\ ~Startable(args, file)
    /\ code' = 1
    /\ UNCHANGED <<file, made, line, running>>

Stop ==
    /\ running # Absent
    /\ line' = NoArgs
    /\ running' = Absent
    /\ code' = 0
    /\ UNCHANGED <<file, made>>

Next ==
    \/ \E doc \in HandWritten : Write(doc)
    \/ \E args \in CommandLines :
          Generate(args) \/ GenerateFails(args) \/ Start(args) \/ StartFails(args)
    \/ Stop

Spec == Init /\ [][Next]_settingsVars

----------------------------------------------------------------------------
(* Safety.                                                                 *)

(* A generated config file, given to a server as all it is told, yields    *)
(* the settings it was generated from: no field of them is forgotten or    *)
(* rounded on the way through the text, if no text needs quotes.           *)
FromFile == [NoArgs EXCEPT !.config = TRUE]

GeneratedReloads ==
    made # Absent /\ PlainSettings(made) =>
        ~Exits(FromFile, file) /\ Parsed(FromFile, file) = made

(* Each setting of a running server has one source: what the command line  *)
(* names it names alone, whatever the file says, and the rest is as if the *)
(* file had been all there was. The certificate is never of one and the    *)
(* key of the other; a port that nobody names follows that choice.         *)
Named(args) ==
    {f \in {"cacheDir", "dbFile", "logLevel", "port", "host", "logFile"} : args[f] # Absent}
        \cup (IF args.cert = Absent THEN {} ELSE {"certAndKey"})

LineAlone == Parsed([line EXCEPT !.config = FALSE], file)
FileAlone == Parsed([NoArgs EXCEPT !.config = line.config], file)

PortNamed == line.port # Absent \/ (line.config /\ file.port # Absent)

OneSource ==
    running # Absent =>
        /\ \A f \in DOMAIN Defaults \ {"auth", "port"} :
               running[f] = IF f \in Named(line) THEN LineAlone[f] ELSE FileAlone[f]
        /\ \A t \in Text :
               running.auth[t] = Or(LineAlone.auth[t], FileAlone.auth[t])
        /\ running.port =
               IF ~PortNamed THEN (IF running.certAndKey = Absent THEN 80 ELSE 443)
               ELSE IF line.port # Absent THEN line.port
               ELSE file.port

=============================================================================

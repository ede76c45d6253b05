--------------------------- MODULE SettingsProofs ---------------------------
(***************************************************************************)
(* What a generated config file says is what it was generated from, for    *)
(* all sizes, durations and texts, and each setting of a running server    *)
(* has one source, for all command lines and config files.                 *)
(***************************************************************************)
EXTENDS Settings, TLAPS

(* A number divided by a factor that divides it comes back by multiplying. *)
LEMMA WholeDivision ==
    ASSUME NEW n \in Nat, NEW f \in Nat \ {0}, n % f = 0
    PROVE  n \div f \in Nat /\ (n \div f) * f = n
  OBVIOUS

(* The number of whole units, read with the suffix of that unit, is the    *)
(* number of bytes: no product wraps that was a size_t before.             *)
LEMMA UnitRoundTrip ==
    ASSUME NEW b \in Nat, b < Word, NEW unit \in {"TB", "GB", "MB", "kB", "B"},
           Factor[unit] \in Nat \ {0}, b % Factor[unit] = 0
    PROVE  In(b, unit) \in SizeTexts /\ SizeOf(In(b, unit)) = b
<1>1. b \div Factor[unit] \in Nat /\ (b \div Factor[unit]) * Factor[unit] = b
  BY WholeDivision
<1>2. SizeOf(In(b, unit)) = b % Word
  BY <1>1 DEF SizeOf, In
<1>3. b % Word = b
  BY SettingsConstants
<1>4. In(b, unit) \in SizeTexts
  BY <1>1 DEF In, SizeTexts
<1>. QED
  BY <1>2, <1>3, <1>4

(* The text of a size in the largest unit that divides it is read back as  *)
(* that size, whatever the factors of the units are.                       *)
THEOREM SizeRoundTrip ==
    ASSUME NEW b \in Nat, b < Word
    PROVE  SizeText(b) \in SizeTexts /\ SizeOf(SizeText(b)) = b
<1>1. /\ Factor["TB"] = TB /\ Factor["GB"] = GB /\ Factor["MB"] = MB
      /\ Factor["kB"] = kB /\ Factor["B"] = 1
  BY DEF Factor
<1>2. {TB, GB, MB, kB, 1} \subseteq Nat \ {0}
  BY SettingsConstants
<1>3. CASE WholeUnit(b, TB)
  BY <1>1, <1>2, <1>3, UnitRoundTrip DEF SizeText, WholeUnit
<1>4. CASE ~WholeUnit(b, TB) /\ WholeUnit(b, GB)
  BY <1>1, <1>2, <1>4, UnitRoundTrip DEF SizeText, WholeUnit
<1>5. CASE ~WholeUnit(b, TB) /\ ~WholeUnit(b, GB) /\ WholeUnit(b, MB)
  BY <1>1, <1>2, <1>5, UnitRoundTrip DEF SizeText, WholeUnit
<1>6. CASE ~WholeUnit(b, TB) /\ ~WholeUnit(b, GB) /\ ~WholeUnit(b, MB) /\ WholeUnit(b, kB)
  BY <1>1, <1>2, <1>6, UnitRoundTrip DEF SizeText, WholeUnit
<1>7. CASE ~WholeUnit(b, TB) /\ ~WholeUnit(b, GB) /\ ~WholeUnit(b, MB) /\ ~WholeUnit(b, kB)
  <2>1. b % 1 = 0
    OBVIOUS
  <2>2. SizeText(b) = In(b, "B")
    BY <1>7 DEF SizeText
  <2>. QED
    BY <1>1, <1>2, <2>1, <2>2, UnitRoundTrip
<1>. QED
  BY <1>3, <1>4, <1>5, <1>6, <1>7

(* The parts of a duration in seconds add up to it, though a year is no    *)
(* whole number of days.                                                   *)
THEOREM DurationRoundTrip ==
    ASSUME NEW d \in Nat
    PROVE  DurationText(d) \in DurationTexts /\ DurationOf(DurationText(d)) = d
  BY DEF DurationText, DurationOf, DurationTexts, Year, Day, Hour, Minute


----------------------------------------------------------------------------
(* Types.                                                                  *)

SettingsType ==
    [cacheDir : Opt(Text), dbFile : Opt(Text), logLevel : Nat,
     auth : [Text -> Opt(Text)], certAndKey : Opt([cert : Text, key : Text]),
     port : Opt(Nat), host : Text, logFile : Opt(Text), dryrun : BOOLEAN,
     size : [Limit -> Opt(0..(Word - 1))], time : [Timeout -> Opt(Nat)],
     pool : [Pool -> Opt(Nat)]]

LEMMA DefaultsType == Defaults \in SettingsType
  BY SettingsConstants DEF Defaults, SettingsType, Opt

(* What an accepted document says of a size is a number of bytes, and what *)
(* it says of a duration is a number of seconds.                           *)
LEMMA SizeOfType ==
    ASSUME NEW x \in SizeTexts
    PROVE  SizeOf(x) \in 0..(Word - 1)
<1>1. Factor[x.unit] \in Nat /\ x.count \in Nat
  BY SettingsConstants DEF SizeTexts, Factor
<1>2. x.count * Factor[x.unit] \in Nat
  BY <1>1
<1>. QED
  BY <1>2, SettingsConstants DEF SizeOf

LEMMA DurationOfType ==
    ASSUME NEW x \in DurationTexts
    PROVE  DurationOf(x) \in Nat
  BY DEF DurationOf, DurationTexts, Year, Day, Hour, Minute

LEMMA LoadType ==
    ASSUME NEW doc \in Documents, NEW s \in SettingsType, Accepted(doc)
    PROVE  Load(doc, s) \in SettingsType
<1>1. Or(doc.certAndKey, s.certAndKey) \in Opt([cert : Text, key : Text])
  BY DEF Documents, SettingsType, Accepted, Or, Opt
<1>2. [t \in Text |-> IF UsersIn(doc.auth, t) = {} THEN s.auth[t]
                      ELSE CHOOSE u \in Text : u \in UsersIn(doc.auth, t)]
        \in [Text -> Opt(Text)]
  BY DEF SettingsType, UsersIn, Opt
<1>3. [l \in Limit |-> IF doc.size[l] = Absent THEN s.size[l] ELSE SizeOf(doc.size[l])]
        \in [Limit -> Opt(0..(Word - 1))]
  BY SizeOfType DEF Documents, SettingsType, Accepted, Opt
<1>4. [l \in Timeout |-> IF doc.time[l] = Absent THEN s.time[l] ELSE DurationOf(doc.time[l])]
        \in [Timeout -> Opt(Nat)]
  BY DurationOfType DEF Documents, SettingsType, Accepted, Opt
<1>5. [p \in Pool |-> Or(doc.pool[p], s.pool[p])] \in [Pool -> Opt(Nat)]
  BY DEF Documents, SettingsType, Or, Opt
<1>6. /\ Or(doc.cacheDir, s.cacheDir) \in Opt(Text)
      /\ Or(doc.dbFile, s.dbFile) \in Opt(Text)
      /\ Or(doc.logFile, s.logFile) \in Opt(Text)
      /\ Or(doc.host, s.host) \in Text
      /\ Or(doc.logLevel, s.logLevel) \in Nat
      /\ Or(doc.port, s.port) \in Opt(Nat)
  BY DEF Documents, SettingsType, Or, Opt
<1>7. Or(doc.dryrun, s.dryrun) \in BOOLEAN
  BY DEF Documents, SettingsType, Or, Opt
<1>. QED
  BY <1>1, <1>2, <1>3, <1>4, <1>5, <1>6, <1>7 DEF Load, SettingsType

LEMMA OverrideType ==
    ASSUME NEW args \in Lines, NEW s \in SettingsType, ~HalfPair(args)
    PROVE  Override(args, s) \in SettingsType
<1>1. Or(PairOf(args), s.certAndKey) \in Opt([cert : Text, key : Text])
  BY DEF Lines, SettingsType, HalfPair, PairOf, Or, Opt
<1>2. [t \in Text |-> IF args.auth[t] = 0 THEN s.auth[t] ELSE UserName[args.auth[t]]]
        \in [Text -> Opt(Text)]
  BY SettingsConstants DEF Lines, SettingsType, Opt
<1>3. /\ Or(args.cacheDir, s.cacheDir) \in Opt(Text)
      /\ Or(args.dbFile, s.dbFile) \in Opt(Text)
      /\ Or(args.logFile, s.logFile) \in Opt(Text)
      /\ Or(args.host, s.host) \in Text
      /\ Or(args.logLevel, s.logLevel) \in Nat
      /\ Or(args.port, s.port) \in Opt(Nat)
  BY DEF Lines, SettingsType, Or, Opt
<1>. QED
  BY <1>1, <1>2, <1>3 DEF Override, SettingsType

LEMMA WithPortType ==
    ASSUME NEW s \in SettingsType
    PROVE  WithPort(s) \in SettingsType /\ WithPort(s).port \in Nat
  BY SettingsConstants DEF WithPort, SettingsType, Or, Opt

(* What parseArgs hands on are complete settings with a port.              *)
LEMMA ParsedType ==
    ASSUME NEW args \in Lines, NEW doc \in Documents \cup {Unreadable},
           ~Exits(args, doc)
    PROVE  Parsed(args, doc) \in SettingsType /\ Parsed(args, doc).port \in Nat
<1>1. (IF args.config THEN Load(doc, Defaults) ELSE Defaults) \in SettingsType
  BY DefaultsType, LoadType DEF Exits, Accepted
<1>2. ~HalfPair(args)
  BY DEF Exits
<1>. QED
  BY <1>1, <1>2, OverrideType, WithPortType DEF Parsed

LEMMA DocumentType ==
    ASSUME NEW s \in SettingsType
    PROVE  Document(s) \in Documents
<1>1. \A t \in Opt(Text) : Unquoted(t) \in Opt(Text)
  BY SettingsConstants DEF Unquoted, Opt
<1>2. \A t \in Text : Unquoted(t) \in Text
  BY SettingsConstants DEF Unquoted, Opt
<1>3. {<<Unquoted(t), Unquoted(s.auth[t])>> : t \in {u \in Text : s.auth[u] # Absent}}
        \in SUBSET (Text \X Text)
  BY <1>2 DEF SettingsType, Opt
<1>4. (IF s.certAndKey = Absent THEN Absent
       ELSE [cert |-> Unquoted(s.certAndKey.cert), key |-> Unquoted(s.certAndKey.key)])
        \in Opt([cert : Opt(Text), key : Opt(Text)])
  BY <1>2 DEF SettingsType, Opt
<1>5. [l \in Limit |-> IF s.size[l] = Absent THEN Absent ELSE SizeText(s.size[l])]
        \in [Limit -> SizeTexts \cup {Absent, NotANumber}]
  <2>1. ASSUME NEW l \in Limit, s.size[l] # Absent
        PROVE  SizeText(s.size[l]) \in SizeTexts
    <3>1. s.size[l] \in Nat /\ s.size[l] < Word
      BY <2>1, SettingsConstants DEF SettingsType, Opt
    <3>. QED
      BY <3>1, SizeRoundTrip
  <2>. QED
    BY <2>1
<1>6. [l \in Timeout |-> IF s.time[l] = Absent THEN Absent ELSE DurationText(s.time[l])]
        \in [Timeout -> DurationTexts \cup {Absent, NotANumber}]
  BY DurationRoundTrip DEF SettingsType, Opt
<1>7. s.dryrun \in Opt(BOOLEAN)
  BY DEF SettingsType, Opt
<1>8. /\ s.logLevel \in Opt(Nat) /\ s.port \in Opt(Nat) /\ s.pool \in [Pool -> Opt(Nat)]
      /\ Unquoted(s.cacheDir) \in Opt(Text) /\ Unquoted(s.dbFile) \in Opt(Text)
      /\ Unquoted(s.host) \in Opt(Text) /\ Unquoted(s.logFile) \in Opt(Text)
  BY <1>1 DEF SettingsType, Opt
<1>. QED
  BY <1>3, <1>4, <1>5, <1>6, <1>7, <1>8 DEF Document, Documents

----------------------------------------------------------------------------
(* A generated file, read by a server that is told nothing else, field by  *)
(* field.                                                                  *)

LEMMA DocumentAccepted ==
    ASSUME NEW s \in SettingsType, PlainSettings(s)
    PROVE  ~Exits(FromFile, Document(s))
<1>1. Document(s) # Unreadable
  BY DocumentType, SettingsConstants
<1>2. ASSUME NEW l \in Limit
      PROVE  Document(s).size[l] # NotANumber
  <2>1. CASE s.size[l] = Absent
    BY <2>1, SettingsConstants DEF Document, Opt
  <2>2. CASE s.size[l] # Absent
    <3>1. s.size[l] \in Nat /\ s.size[l] < Word
      BY <2>2, SettingsConstants DEF SettingsType, Opt
    <3>2. Document(s).size[l] \in SizeTexts
      BY <2>2, <3>1, SizeRoundTrip DEF Document
    <3>. QED
      BY <3>2, SettingsConstants DEF Opt
  <2>. QED
    BY <2>1, <2>2
<1>3. ASSUME NEW l \in Timeout
      PROVE  Document(s).time[l] # NotANumber
  <2>1. CASE s.time[l] = Absent
    BY <2>1, SettingsConstants DEF Document, Opt
  <2>2. CASE s.time[l] # Absent
    <3>1. Document(s).time[l] \in DurationTexts
      BY <2>2, DurationRoundTrip DEF Document, SettingsType, Opt
    <3>. QED
      BY <3>1, SettingsConstants DEF Opt
  <2>. QED
    BY <2>1, <2>2
<1>4. ASSUME Document(s).certAndKey # Absent
      PROVE  Absent \notin {Document(s).certAndKey.cert, Document(s).certAndKey.key}
  BY <1>4, SettingsConstants DEF Document, PlainSettings, Unquoted
<1>5. Accepted(Document(s))
  BY <1>1, <1>2, <1>3, <1>4 DEF Accepted
<1>6. ~HalfPair(FromFile)
  BY DEF HalfPair, FromFile, NoArgs
<1>. QED
  BY <1>5, <1>6 DEF Exits

LEMMA LoadsItself ==
    ASSUME NEW s \in SettingsType, PlainSettings(s)
    PROVE  Load(Document(s), Defaults) = s
<1> DEFINE d == Document(s)
<1>1. /\ Or(d.cacheDir, Defaults.cacheDir) = s.cacheDir
      /\ Or(d.dbFile, Defaults.dbFile) = s.dbFile
      /\ Or(d.host, Defaults.host) = s.host
      /\ Or(d.logFile, Defaults.logFile) = s.logFile
  BY SettingsConstants DEF Document, PlainSettings, Unquoted, Or, Defaults, SettingsType
<1>2. /\ Or(d.logLevel, Defaults.logLevel) = s.logLevel
      /\ Or(d.port, Defaults.port) = s.port
  BY SettingsConstants DEF Document, Or, Defaults, SettingsType
<1>3. Or(d.dryrun, Defaults.dryrun) = s.dryrun
  BY SettingsConstants DEF Document, Or, Defaults, SettingsType
<1>4. Or(d.certAndKey, Defaults.certAndKey) = s.certAndKey
  BY SettingsConstants DEF Document, PlainSettings, Unquoted, Or, Defaults, SettingsType, Opt
<1>5. [p \in Pool |-> Or(d.pool[p], Defaults.pool[p])] = s.pool
  BY DEF Document, Or, Defaults, SettingsType, Opt
<1>6. [l \in Limit |-> IF d.size[l] = Absent THEN Defaults.size[l] ELSE SizeOf(d.size[l])]
        = s.size
  <2>1. ASSUME NEW l \in Limit
        PROVE  (IF d.size[l] = Absent THEN Defaults.size[l] ELSE SizeOf(d.size[l]))
                  = s.size[l]
    <3>1. CASE s.size[l] = Absent
      BY <3>1 DEF Document, Defaults
    <3>2. CASE s.size[l] # Absent
      <4>1. s.size[l] \in Nat /\ s.size[l] < Word
        BY <3>2, SettingsConstants DEF SettingsType, Opt
      <4>2. d.size[l] = SizeText(s.size[l])
        BY <3>2 DEF Document
      <4>. QED
        BY <4>1, <4>2, SizeRoundTrip, SettingsConstants
    <3>. QED
      BY <3>1, <3>2
  <2>. QED
    BY <2>1 DEF SettingsType
<1>7. [l \in Timeout |-> IF d.time[l] = Absent THEN Defaults.time[l] ELSE DurationOf(d.time[l])]
        = s.time
  <2>1. ASSUME NEW l \in Timeout
        PROVE  (IF d.time[l] = Absent THEN Defaults.time[l] ELSE DurationOf(d.time[l]))
                  = s.time[l]
    <3>1. CASE s.time[l] = Absent
      BY <3>1 DEF Document, Defaults
    <3>2. CASE s.time[l] # Absent
      <4>1. s.time[l] \in Nat
        BY <3>2 DEF SettingsType, Opt
      <4>2. d.time[l] = DurationText(s.time[l])
        BY <3>2 DEF Document
      <4>. QED
        BY <4>1, <4>2, DurationRoundTrip, SettingsConstants
    <3>. QED
      BY <3>1, <3>2
  <2>. QED
    BY <2>1 DEF SettingsType
<1>8. [t \in Text |-> IF UsersIn(d.auth, t) = {} THEN Defaults.auth[t]
                      ELSE CHOOSE u \in Text : u \in UsersIn(d.auth, t)] = s.auth
  <2>1. ASSUME NEW t \in Text
        PROVE  (IF UsersIn(d.auth, t) = {} THEN Defaults.auth[t]
                ELSE CHOOSE u \in Text : u \in UsersIn(d.auth, t)) = s.auth[t]
    <3>1. d.auth = {<<u, s.auth[u]>> : u \in {v \in Text : s.auth[v] # Absent}}
      BY DEF Document, PlainSettings, Unquoted
    <3>2. CASE s.auth[t] = Absent
      <4>1. UsersIn(d.auth, t) = {}
        BY <3>1, <3>2 DEF UsersIn
      <4>. QED
        BY <4>1, <3>2 DEF Defaults
    <3>3. CASE s.auth[t] # Absent
      <4>1. s.auth[t] \in Text
        BY <3>3 DEF SettingsType, Opt
      <4>2. UsersIn(d.auth, t) = {s.auth[t]}
        BY <3>1, <3>3, <4>1 DEF UsersIn
      <4>. QED
        BY <4>1, <4>2
    <3>. QED
      BY <3>2, <3>3
  <2>. QED
    BY <2>1 DEF SettingsType
<1> HIDE DEF d
<1>. QED
  BY <1>1, <1>2, <1>3, <1>4, <1>5, <1>6, <1>7, <1>8 DEF Load, SettingsType, d

LEMMA Reload ==
    ASSUME NEW s \in SettingsType, PlainSettings(s), s.port \in Nat
    PROVE  Parsed(FromFile, Document(s)) = s
<1>1. Parsed(FromFile, Document(s)) = WithPort(Override(FromFile, s))
  BY LoadsItself DEF Parsed, FromFile, NoArgs
<1>2. Override(FromFile, s) = s
  BY DEF Override, FromFile, NoArgs, PairOf, Or, SettingsType
<1>3. WithPort(s) = s
  BY SettingsConstants DEF WithPort, Or, SettingsType
<1>. QED
  BY <1>1, <1>2, <1>3

----------------------------------------------------------------------------
(* The invariant: what was generated are complete settings, the file says  *)
(* so, and a running server has the settings of its line and its file.     *)

FileTyped == file \in Documents \cup {Unreadable}

MadeInFile ==
    made # Absent =>
        /\ made \in SettingsType /\ made.port \in Nat
        /\ PlainSettings(made) => file = Document(made)

RunsAsTold ==
    running # Absent =>
        line \in Lines /\ Startable(line, file) /\ running = Parsed(line, file)

SettingsInv == FileTyped /\ MadeInFile /\ RunsAsTold

LEMMA InitInv == Init => SettingsInv
  BY SettingsConstants DEF Init, SettingsInv, FileTyped, MadeInFile, RunsAsTold

LEMMA SilentType == Silent \in Documents
<1>1. Absent \in Opt(Text) /\ Absent \in Opt(Nat) /\ Absent \in Opt(BOOLEAN)
      /\ Absent \in Opt([cert : Opt(Text), key : Opt(Text)])
  BY DEF Opt
<1>2. {} \in SUBSET (Text \X Text)
  OBVIOUS
<1>3. /\ [l \in Limit |-> Absent] \in [Limit -> SizeTexts \cup {Absent, NotANumber}]
      /\ [l \in Timeout |-> Absent] \in [Timeout -> DurationTexts \cup {Absent, NotANumber}]
      /\ [p \in Pool |-> Absent] \in [Pool -> Opt(Nat)]
  BY DEF Opt
<1>. QED
  BY <1>1, <1>2, <1>3 DEF Silent, Documents

LEMMA NextInv == SettingsInv /\ [Next]_settingsVars => SettingsInv'
<1> SUFFICES ASSUME SettingsInv, [Next]_settingsVars
             PROVE  SettingsInv'
  OBVIOUS
<1>1. CASE UNCHANGED settingsVars
  BY <1>1 DEF SettingsInv, FileTyped, MadeInFile, RunsAsTold, settingsVars
<1>2. ASSUME NEW doc \in HandWritten, Write(doc)
      PROVE  SettingsInv'
  BY <1>2, SettingsConstants DEF SettingsInv, FileTyped, MadeInFile, RunsAsTold, Write
<1>3. ASSUME NEW args \in CommandLines, Generate(args)
      PROVE  SettingsInv'
  <2>1. made' \in SettingsType /\ made'.port \in Nat
    BY <1>3, ParsedType, SettingsConstants DEF Generate, SettingsInv, FileTyped
  <2>2. FileTyped'
    BY <1>3, <2>1, DocumentType DEF Generate, FileTyped
  <2>3. PlainSettings(made') => file' = Document(made')
    BY <1>3 DEF Generate
  <2>. QED
    BY <1>3, <2>1, <2>2, <2>3 DEF SettingsInv, MadeInFile, RunsAsTold, Generate
<1>4. ASSUME NEW args \in CommandLines, GenerateFails(args)
      PROVE  SettingsInv'
  BY <1>4, SilentType DEF SettingsInv, FileTyped, MadeInFile, RunsAsTold, GenerateFails
<1>5. ASSUME NEW args \in CommandLines, Start(args)
      PROVE  SettingsInv'
  BY <1>5, SettingsConstants DEF SettingsInv, FileTyped, MadeInFile, RunsAsTold, Start
<1>6. ASSUME NEW args \in CommandLines, StartFails(args)
      PROVE  SettingsInv'
  BY <1>6 DEF SettingsInv, FileTyped, MadeInFile, RunsAsTold, StartFails
<1>7. CASE Stop
  BY <1>7 DEF SettingsInv, FileTyped, MadeInFile, RunsAsTold, Stop
<1>. QED
  BY <1>1, <1>2, <1>3, <1>4, <1>5, <1>6, <1>7 DEF Next

THEOREM SettingsInvariant == Spec => []SettingsInv
  BY InitInv, NextInv, PTL DEF Spec

(* A config file made by --generate_config reloads to the settings it was  *)
(* made from, for every command line and every file before it.             *)
THEOREM GeneratedConfigReloads == Spec => []GeneratedReloads
<1>1. SettingsInv => GeneratedReloads
  BY DocumentAccepted, Reload DEF SettingsInv, MadeInFile, GeneratedReloads
<1>. QED
  BY <1>1, SettingsInvariant, PTL

----------------------------------------------------------------------------
(* Where each setting comes from.                                          *)

Base(args, doc) == IF args.config THEN Load(doc, Defaults) ELSE Defaults

(* The fields of what parseArgs hands on, in terms of the file's.          *)
LEMMA ParsedFields ==
    ASSUME NEW args \in Lines, NEW doc, Base(args, doc) \in SettingsType
    PROVE  /\ \A f \in {"cacheDir", "dbFile", "logLevel", "host", "logFile"} :
                  Parsed(args, doc)[f] = Or(args[f], Base(args, doc)[f])
           /\ \A f \in {"dryrun", "size", "time", "pool"} :
                  Parsed(args, doc)[f] = Base(args, doc)[f]
           /\ Parsed(args, doc).certAndKey = Or(PairOf(args), Base(args, doc).certAndKey)
           /\ \A t \in Text : Parsed(args, doc).auth[t] =
                  IF args.auth[t] = 0 THEN Base(args, doc).auth[t]
                  ELSE UserName[args.auth[t]]
           /\ Parsed(args, doc).port =
                  Or(Or(args.port, Base(args, doc).port),
                     IF Parsed(args, doc).certAndKey = Absent THEN 80 ELSE 443)
<1>1. Override(args, Base(args, doc)) =
        [Base(args, doc) EXCEPT
            !.cacheDir = Or(args.cacheDir, @), !.dbFile = Or(args.dbFile, @),
            !.logLevel = Or(args.logLevel, @),
            !.auth = [t \in Text |-> IF args.auth[t] = 0 THEN @[t]
                                     ELSE UserName[args.auth[t]]],
            !.certAndKey = Or(PairOf(args), @), !.port = Or(args.port, @),
            !.host = Or(args.host, @), !.logFile = Or(args.logFile, @)]
  BY DEF Override
<1>2. Parsed(args, doc) = WithPort(Override(args, Base(args, doc)))
  BY DEF Parsed, Base
<1>. QED
  BY <1>1, <1>2 DEF WithPort, SettingsType

(* The command line without its config file, and the config file without   *)
(* the rest of the command line.                                           *)
LineOnly(args) == [args EXCEPT !.config = FALSE]
FileOnly(args) == [NoArgs EXCEPT !.config = args.config]

LEMMA OnlyTypes ==
    ASSUME NEW args \in Lines
    PROVE  LineOnly(args) \in Lines /\ FileOnly(args) \in Lines
<1>1. LineOnly(args) \in Lines
  BY DEF LineOnly, Lines
<1>2. [t \in Text |-> 0] \in [Text -> 0..MaxTokens]
  BY SettingsConstants
<1>3. FileOnly(args) =
        [cacheDir |-> Absent, dbFile |-> Absent, logLevel |-> Absent,
         auth |-> [t \in Text |-> 0], cert |-> Absent, key |-> Absent,
         port |-> Absent, host |-> Absent, logFile |-> Absent,
         config |-> args.config]
  BY DEF FileOnly, NoArgs
<1>4. args.config \in BOOLEAN
  BY DEF Lines
<1>5. Absent \in Opt(Text) /\ Absent \in Opt(Nat)
  BY DEF Opt
<1>. QED
  BY <1>1, <1>2, <1>3, <1>4, <1>5 DEF Lines

LEMMA BaseType ==
    ASSUME NEW args \in Lines, NEW doc \in Documents \cup {Unreadable}, ~Exits(args, doc)
    PROVE  Base(args, doc) \in SettingsType
  BY LoadType, DefaultsType DEF Base, Exits, Accepted

(* Each setting of a server that starts is the command line's or the       *)
(* file's, as OneSource says, whichever line and file they are.            *)
LEMMA OneSourceEach ==
    ASSUME NEW args \in Lines, NEW doc \in Documents \cup {Unreadable}, ~Exits(args, doc)
    PROVE  /\ \A f \in DOMAIN Defaults \ {"auth", "port"} :
                  Parsed(args, doc)[f] = IF f \in Named(args)
                                         THEN Parsed(LineOnly(args), doc)[f]
                                         ELSE Parsed(FileOnly(args), doc)[f]
           /\ \A t \in Text :
                  Parsed(args, doc).auth[t] =
                      Or(Parsed(LineOnly(args), doc).auth[t],
                         Parsed(FileOnly(args), doc).auth[t])
           /\ Parsed(args, doc).port =
                  IF ~(args.port # Absent \/ (args.config /\ doc.port # Absent))
                  THEN (IF Parsed(args, doc).certAndKey = Absent THEN 80 ELSE 443)
                  ELSE IF args.port # Absent THEN args.port
                  ELSE doc.port
<1> DEFINE R == Parsed(args, doc)
           L == Parsed(LineOnly(args), doc)
           F == Parsed(FileOnly(args), doc)
           B == Base(args, doc)
           Plainly == {"cacheDir", "dbFile", "logLevel", "host", "logFile"}
           Only == {"dryrun", "size", "time", "pool"}
<1>1. B \in SettingsType
  BY BaseType
<1>2. LineOnly(args) \in Lines /\ FileOnly(args) \in Lines
  BY OnlyTypes
<1>3. LineOnly(args).config = FALSE /\ FileOnly(args).config = args.config
  BY DEF LineOnly, FileOnly, Lines, NoArgs
<1>4. Base(LineOnly(args), doc) = Defaults /\ Base(FileOnly(args), doc) = B
  BY <1>3 DEF Base
<1>5. /\ \A f \in Plainly : LineOnly(args)[f] = args[f] /\ FileOnly(args)[f] = Absent
      /\ PairOf(LineOnly(args)) = PairOf(args) /\ PairOf(FileOnly(args)) = Absent
      /\ \A t \in Text : LineOnly(args).auth[t] = args.auth[t] /\ FileOnly(args).auth[t] = 0
  BY DEF LineOnly, FileOnly, Lines, NoArgs, PairOf
<1>6. ASSUME NEW f \in Plainly
      PROVE  R[f] = IF f \in Named(args) THEN L[f] ELSE F[f]
  <2>1. R[f] = Or(args[f], B[f])
    BY <1>1, <1>6, ParsedFields
  <2>2. L[f] = Or(args[f], Defaults[f])
    BY <1>2, <1>4, <1>5, <1>6, ParsedFields, DefaultsType
  <2>3. F[f] = B[f]
    <3>1. F[f] = Or(FileOnly(args)[f], B[f])
      BY <1>1, <1>2, <1>4, <1>6, ParsedFields
    <3>. QED
      BY <3>1, <1>5, <1>6 DEF Or
  <2>4. f \in Named(args) <=> args[f] # Absent
    BY <1>6 DEF Named
  <2> HIDE DEF R, L, F, B
  <2>. QED
    BY <2>1, <2>2, <2>3, <2>4 DEF Or
<1>7. ASSUME NEW f \in Only
      PROVE  R[f] = IF f \in Named(args) THEN L[f] ELSE F[f]
  <2>1. R[f] = B[f] /\ F[f] = B[f]
    BY <1>1, <1>2, <1>4, <1>7, ParsedFields
  <2>2. f \notin Named(args)
    BY <1>7 DEF Named
  <2>. QED
    BY <2>1, <2>2
<1>8. R["certAndKey"] = IF "certAndKey" \in Named(args) THEN L["certAndKey"] ELSE F["certAndKey"]
  <2>1. R.certAndKey = Or(PairOf(args), B.certAndKey)
    BY <1>1, ParsedFields
  <2>2. L.certAndKey = Or(PairOf(args), Defaults.certAndKey)
    BY <1>2, <1>4, <1>5, ParsedFields, DefaultsType
  <2>3. F.certAndKey = B.certAndKey
    <3>1. F.certAndKey = Or(PairOf(FileOnly(args)), B.certAndKey)
      BY <1>1, <1>2, <1>4, ParsedFields
    <3>. QED
      BY <3>1, <1>5 DEF Or
  <2>4. "certAndKey" \in Named(args) <=> args.cert # Absent
    BY DEF Named
  <2>5. args.cert # Absent => PairOf(args) # Absent
    BY SettingsConstants DEF PairOf, Lines
  <2>6. args.cert = Absent => PairOf(args) = Absent
    BY DEF PairOf
  <2> HIDE DEF R, L, F, B
  <2>. QED
    BY <2>1, <2>2, <2>3, <2>4, <2>5, <2>6 DEF Or
<1>9. ASSUME NEW t \in Text
      PROVE  R.auth[t] = Or(L.auth[t], F.auth[t])
  <2>1. R.auth[t] = IF args.auth[t] = 0 THEN B.auth[t] ELSE UserName[args.auth[t]]
    BY <1>1, ParsedFields
  <2>2. L.auth[t] = IF args.auth[t] = 0 THEN Absent ELSE UserName[args.auth[t]]
    <3>1. L.auth[t] = IF LineOnly(args).auth[t] = 0 THEN Defaults.auth[t]
                      ELSE UserName[LineOnly(args).auth[t]]
      BY <1>2, <1>4, ParsedFields, DefaultsType
    <3>2. Defaults.auth[t] = Absent
      BY DEF Defaults
    <3>. QED
      BY <3>1, <3>2, <1>5
  <2>3. F.auth[t] = B.auth[t]
    <3>1. F.auth[t] = IF FileOnly(args).auth[t] = 0 THEN B.auth[t]
                      ELSE UserName[FileOnly(args).auth[t]]
      BY <1>1, <1>2, <1>4, ParsedFields
    <3>. QED
      BY <3>1, <1>5
  <2>4. args.auth[t] # 0 => UserName[args.auth[t]] # Absent
    BY SettingsConstants DEF Lines
  <2> HIDE DEF R, L, F, B
  <2>. QED
    BY <2>1, <2>2, <2>3, <2>4 DEF Or
<1>10. R.port = IF ~(args.port # Absent \/ (args.config /\ doc.port # Absent))
                THEN (IF R.certAndKey = Absent THEN 80 ELSE 443)
                ELSE IF args.port # Absent THEN args.port
                ELSE doc.port
  <2>1. R.port = Or(Or(args.port, B.port), IF R.certAndKey = Absent THEN 80 ELSE 443)
    BY <1>1, ParsedFields
  <2>2. B.port = IF args.config THEN doc.port ELSE Absent
    BY DEF Base, Load, Or, Defaults
  <2> HIDE DEF R, B
  <2>. QED
    BY <2>1, <2>2 DEF Or, Lines
<1>11. DOMAIN Defaults \ {"auth", "port"} = Plainly \cup Only \cup {"certAndKey"}
  BY DEF Defaults
<1> HIDE DEF R, L, F, B
<1>. QED
  BY <1>6, <1>7, <1>8, <1>9, <1>10, <1>11 DEF R, L, F

(* A running server's settings have one source each, whatever it was told. *)
THEOREM OneSourceAlways == Spec => []OneSource
<1>1. SettingsInv => OneSource
  <2> SUFFICES ASSUME SettingsInv, running # Absent
               PROVE  OneSource
    BY DEF OneSource
  <2>1. /\ line \in Lines /\ file \in Documents \cup {Unreadable}
        /\ ~Exits(line, file) /\ running = Parsed(line, file)
    BY DEF SettingsInv, FileTyped, RunsAsTold, Startable
  <2>2. LineAlone = Parsed(LineOnly(line), file) /\ FileAlone = Parsed(FileOnly(line), file)
    BY DEF LineAlone, FileAlone, LineOnly, FileOnly
  <2>. QED
    BY <2>1, <2>2, OneSourceEach DEF OneSource, PortNamed
<1>. QED
  BY <1>1, SettingsInvariant, PTL

=============================================================================

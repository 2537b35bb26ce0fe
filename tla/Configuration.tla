--------------------------- MODULE Configuration ---------------------------
(***************************************************************************)
(* How the server and the agent put their configuration together           *)
(* (internal/config): defaults, then the configuration file, then the      *)
(* flags, then the environment, each with its own rules for what counts as *)
(* given and what is refused.                                              *)
(*                                                                         *)
(* Data abstraction.  An option that a source may leave out is <<>> or     *)
(* <<value>>; an empty environment variable is one that is left out.  The  *)
(* options that are plain texts (addresses, DSN, keys, audit) follow the   *)
(* same code and are one, key; the two intervals of the agent are one.  A  *)
(* duration is an integer whose greatest value is MaxDuration.  A text     *)
(* that does not parse as a number and a number out of range lead to the   *)
(* same refusal and are both a number out of range.                        *)
(***************************************************************************)
EXTENDS Integers, Sequences, FiniteSetsExt

CONSTANTS
    Texts,            \* of addresses, paths, keys and file names
    Inputs,           \* what the sources may give: records, one per start
    Second,           \* time.Second
    MaxDuration,      \* math.MaxInt64
    DefaultInterval,
    DefaultPath,
    DefaultRate

Option(S) == {o \in Seq(S) : Len(o) <= 1}
Given(o) == o # <<>>
Or(o, default) == IF Given(o) THEN o[1] ELSE default

\* A boolean as a text.
Truth == {"true", "false", "invalid"}

\* A configuration file (its interval is a duration) or the flags (seconds).
Source == [key : Option(Texts), interval : Option(Int), path : Option(Texts),
           restore : Option(Truth), rate : Option(Int)]

\* The environment variables that are not empty.
Text == Texts \ {""}
Environment == [key : Option(Text), interval : Option(Int), STORE_FILE : Option(Text),
                FILE_STORAGE_PATH : Option(Text), restore : Option(Truth), rate : Option(Int)]

\* The server knows no rate, the agent neither path nor restore.  A file that
\* cannot be read or decoded has no place in files.
ASSUME ConfigurationAssumption ==
    /\ Second \in Nat \ {0} /\ MaxDuration \in Nat
    /\ DefaultInterval \in 1..MaxDuration
    /\ "" \in Texts /\ DefaultPath \in Text /\ DefaultRate \in Nat \ {0}
    /\ \A in \in Inputs :
          /\ in.program \in {"server", "agent"}
          /\ in.named \in Seq(Texts) /\ in.CONFIG \in Option(Text)
          /\ in.flags \in Source /\ in.env \in Environment
          /\ \A f \in DOMAIN in.files :
                /\ f \in Text /\ in.files[f] \in Source
                /\ Or(in.files[f].interval, 0) \in (-(MaxDuration + 1))..MaxDuration
          /\ \A s \in {in.flags, in.env} \cup {in.files[f] : f \in DOMAIN in.files} :
                (IF in.program = "server" THEN s.rate ELSE s.restore) = <<>>
          /\ in.program = "agent" =>
                /\ in.flags.path = <<>> /\ in.env.STORE_FILE = <<>>
                /\ in.env.FILE_STORAGE_PATH = <<>>
                /\ \A f \in DOMAIN in.files : in.files[f].path = <<>>

VARIABLES
    program,  \* server or agent
    named,    \* the values of -c and -config, in their order
    CONFIG,   \* the environment variable of that name
    files,    \* the configuration files that can be read, by name
    flags,    \* the other flags
    env,      \* the other environment variables
    cfg,      \* the configuration so far
    stage     \* the next section of parseServerConfig or parseAgentConfig

sources == <<program, named, CONFIG, files, flags, env>>
vars == <<sources, cfg, stage>>

\* The smallest interval each program takes: 0 saves on every update.
MinInterval == IF program = "server" THEN 0 ELSE 1

\* time.Duration: int64 arithmetic wraps around.
Duration(n) == ((n + MaxDuration + 1) % (2 * (MaxDuration + 1))) - (MaxDuration + 1)
Seconds(n) == Duration(n * Second)

NoFile == [key |-> <<>>, interval |-> <<>>, path |-> <<>>, restore |-> <<>>, rate |-> <<>>]

Defaults == [key |-> "", interval |-> DefaultInterval, path |-> DefaultPath,
             fileStorage |-> FALSE, restore |-> TRUE, rate |-> DefaultRate]

Init ==
    /\ \E in \in Inputs :
          /\ program = in.program /\ named = in.named /\ CONFIG = in.CONFIG
          /\ files = in.files /\ flags = in.flags /\ env = in.env
    /\ cfg = Defaults
    /\ stage = "file"

----------------------------------------------------------------------------
(* parseServerConfig and parseAgentConfig.                                 *)

Refuse ==
    /\ stage' = "refused"
    /\ UNCHANGED <<sources, cfg>>

\* findConfigPath: the last one named, unless CONFIG is set.
FindConfigPath ==
    Or(CONFIG, IF named = <<>> THEN "" ELSE named[Len(named)])

\* The settings of a configuration file in force, none if there is no such file.
FileOf(path) == IF path \in DOMAIN files THEN files[path] ELSE NoFile

FileRefused(path) ==
    LET file == FileOf(path) IN
    \/ path # "" /\ path \notin DOMAIN files
    \/ Given(file.interval) /\ file.interval[1] < MinInterval
    \/ file.restore = <<"invalid">>
    \/ Given(file.rate) /\ file.rate[1] <= 0

\* loadServerFileConfig, loadAgentFileConfig.
LoadFile ==
    /\ stage = "file"
    /\ LET file == FileOf(FindConfigPath) IN
       \/ FileRefused(FindConfigPath) /\ Refuse
       \/ /\ ~FileRefused(FindConfigPath)
          /\ cfg' = [key |-> Or(file.key, cfg.key),
                     interval |-> Or(file.interval, cfg.interval),
                     path |-> Or(file.path, cfg.path),
                     fileStorage |-> Or(file.path, "") # "",
                     restore |-> Or(file.restore, "true") = "true",
                     rate |-> Or(file.rate, cfg.rate)]
          /\ stage' = "flags"
          /\ UNCHANGED sources

\* Faulty variants of the definitions below end in _...: each is a slip the
\* property must detect.  Here: the interval is always taken from the variable
\* of its flag, which counts whole seconds.
FlagInterval_Always ==
    LET inSeconds == cfg.interval \div Second IN Seconds(Or(flags.interval, inSeconds))

\* The interval changes only if its flag was visited.
FlagInterval ==
    IF Given(flags.interval) THEN Seconds(flags.interval[1]) ELSE cfg.interval

FlagsRefused ==
    \/ Given(flags.interval) /\ flags.interval[1] < MinInterval
    \/ flags.restore = <<"invalid">>
    \/ Or(flags.rate, cfg.rate) <= 0

\* fs.Parse writes texts, Restore and RateLimit in place; then fs.Visit.
ParseFlags ==
    /\ stage = "flags"
    /\ \/ FlagsRefused /\ Refuse
       \/ /\ ~FlagsRefused
          /\ cfg' = [key |-> Or(flags.key, cfg.key),
                     interval |-> FlagInterval,
                     path |-> Or(flags.path, cfg.path),
                     fileStorage |-> IF Given(flags.path) THEN flags.path[1] # ""
                                     ELSE cfg.fileStorage,
                     restore |-> IF Given(flags.restore) THEN flags.restore[1] = "true"
                                 ELSE cfg.restore,
                     rate |-> Or(flags.rate, cfg.rate)]
          /\ stage' = "env"
          /\ UNCHANGED sources

EnvRefused ==
    \/ Given(env.interval) /\ env.interval[1] < MinInterval
    \/ env.restore = <<"invalid">>
    \/ Given(env.rate) /\ env.rate[1] <= 0

\* The lookups; FILE_STORAGE_PATH comes after STORE_FILE.
ApplyEnv ==
    /\ stage = "env"
    /\ \/ EnvRefused /\ Refuse
       \/ /\ ~EnvRefused
          /\ cfg' = [key |-> Or(env.key, cfg.key),
                     interval |-> IF Given(env.interval) THEN Seconds(env.interval[1])
                                  ELSE cfg.interval,
                     path |-> Or(env.FILE_STORAGE_PATH, Or(env.STORE_FILE, cfg.path)),
                     fileStorage |-> \/ cfg.fileStorage
                                     \/ Given(env.STORE_FILE)
                                     \/ Given(env.FILE_STORAGE_PATH),
                     restore |-> IF Given(env.restore) THEN env.restore[1] = "true"
                                 ELSE cfg.restore,
                     rate |-> Or(env.rate, cfg.rate)]
          /\ stage' = "done"
          /\ UNCHANGED sources

Parsed == stage \in {"done", "refused"} /\ UNCHANGED vars

Next == LoadFile \/ ParseFlags \/ ApplyEnv \/ Parsed

Spec == Init /\ [][Next]_vars

----------------------------------------------------------------------------
(* Property.                                                               *)

\* The first option of a list that is given, strongest source first.
Strongest(options) == options[Min({i \in DOMAIN options : Given(options[i])})][1]

\* The configuration file that is named: CONFIG, or else the last one; "" is none.
Named == LET all == <<"">> \o named \o CONFIG IN all[Len(all)]
File == FileOf(Named)

InSeconds(option) == [i \in DOMAIN option |-> option[i] * Second]
Intervals ==
    <<InSeconds(env.interval), InSeconds(flags.interval), File.interval, <<DefaultInterval>>>>

Paths == <<env.FILE_STORAGE_PATH, env.STORE_FILE, flags.path, File.path>>

Reference ==
    [key |-> Strongest(<<env.key, flags.key, File.key, <<"">>>>),
     interval |-> Duration(Strongest(Intervals)),
     path |-> Strongest(Append(Paths, <<DefaultPath>>)),
     fileStorage |-> Strongest(Append(Paths, <<"">>)) # "",
     restore |-> Strongest(<<env.restore, flags.restore, File.restore, <<"true">>>>) = "true",
     rate |-> Strongest(<<env.rate, flags.rate, File.rate, <<DefaultRate>>>>)]

Invalid(option, least) == Given(option) /\ option[1] < least

AnyInvalid ==
    \/ Named # "" /\ Named \notin DOMAIN files
    \/ \E s \in {File, flags, env} :
          \/ Invalid(s.interval, MinInterval) \/ Invalid(s.rate, 1)
          \/ s.restore = <<"invalid">>

\* Every option has the value of the strongest source that gives it:
\* environment, flags, file, default (config.go:61-153 and 160-258).  A flag
\* that is given wins even with an empty or a default value, an interval of the
\* file keeps its fractions unless something overrides it, and the server uses
\* a file only if the source that decides the path names one.  A value that is
\* out of range is refused wherever it is given, even where a stronger source
\* would override it, and so is a file that cannot be read.
FollowsPrecedence ==
    /\ stage = "done" => ~AnyInvalid /\ cfg = Reference
    /\ stage = "refused" => AnyInvalid

\* The interval a program starts with is one it accepts (config.go:104, 202:
\* "must be non-negative", "must be positive"), provided that the one in force
\* fits a duration: seconds are multiplied after their sign was checked.
IntervalInRange ==
    stage = "done" /\ Strongest(Intervals) <= MaxDuration => cfg.interval >= MinInterval

============================================================================

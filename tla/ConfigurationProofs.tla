------------------------ MODULE ConfigurationProofs ------------------------
(***************************************************************************)
(* Theorems about Configuration, for any files, flags and variables: what  *)
(* the configuration is after each of the three sections, and that this is *)
(* what the order of the sources asks for.                                 *)
(***************************************************************************)
EXTENDS Configuration, SequenceTheorems, TLAPS

----------------------------------------------------------------------------
(* Durations.                                                              *)

LEMMA ConstantTypes ==
    /\ Second \in Nat \ {0} /\ MaxDuration \in Nat
    /\ DefaultInterval \in 1..MaxDuration /\ DefaultRate \in Nat \ {0}
  BY ConfigurationAssumption, Zenon

\* A duration that fits is not changed.
LEMMA DurationFits ==
    ASSUME NEW d \in (-(MaxDuration + 1))..MaxDuration
    PROVE  Duration(d) = d
  <1>1. MaxDuration \in Nat
    BY ConstantTypes
  <1>2. ASSUME NEW w \in Nat \ {0}, NEW x \in 0..(w - 1) PROVE x % w = x
    BY <1>2
  <1>3. (d + MaxDuration + 1) % (2 * (MaxDuration + 1)) = d + MaxDuration + 1
    <2>1. 2 * (MaxDuration + 1) \in Nat \ {0}
      BY <1>1
    <2>2. d + MaxDuration + 1 \in 0..(2 * (MaxDuration + 1) - 1)
      BY <1>1
    <2>3. QED
      BY <1>2, <2>1, <2>2, Zenon
  <1>4. QED
    BY <1>1, <1>3 DEF Duration

----------------------------------------------------------------------------
(* The strongest source.                                                   *)

LEMMA FirstGiven ==
    ASSUME NEW options, NEW n \in Nat, DOMAIN options = 1..n, NEW k \in 1..n,
           Given(options[k]), \A i \in 1..(k - 1) : ~Given(options[i])
    PROVE  Strongest(options) = options[k][1]
  <1> DEFINE All == {i \in DOMAIN options : Given(options[i])}
  <1>1. k \in All /\ \A i \in All : k <= i
    OBVIOUS
  <1>2. \A m : m \in All /\ (\A i \in All : m <= i) => m = k
    BY <1>1
  <1>3. Min(All) = k
    BY <1>1, <1>2 DEF Min
  <1>4. QED
    BY <1>3, Zenon DEF Strongest

\* Three options and a default, as the code asks for them one inside the other.
LEMMA StrongestOfThree ==
    ASSUME NEW a, NEW b, NEW c, NEW d
    PROVE  Strongest(<<a, b, c, <<d>>>>) = Or(a, Or(b, Or(c, d)))
  <1>1. PICK options : options = <<a, b, c, <<d>>>>
    OBVIOUS
  <1>2. /\ DOMAIN options = 1..4 /\ Given(options[4]) /\ options[4][1] = d
        /\ options[1] = a /\ options[2] = b /\ options[3] = c
    BY <1>1 DEF Given
  <1>3. ASSUME NEW k \in 1..4, Given(options[k]), \A i \in 1..(k - 1) : ~Given(options[i])
        PROVE  Strongest(options) = options[k][1]
    BY <1>2, <1>3, FirstGiven
  <1>4. CASE Given(a)
    <2>1. Strongest(options) = options[1][1]
      BY <1>2, <1>3, <1>4
    <2>2. QED
      BY <1>1, <1>2, <1>4, <2>1 DEF Or
  <1>5. CASE ~Given(a) /\ Given(b)
    <2>1. Strongest(options) = options[2][1]
      BY <1>2, <1>3, <1>5
    <2>2. QED
      BY <1>1, <1>2, <1>5, <2>1 DEF Or
  <1>6. CASE ~Given(a) /\ ~Given(b) /\ Given(c)
    <2>1. Strongest(options) = options[3][1]
      BY <1>2, <1>3, <1>6
    <2>2. QED
      BY <1>1, <1>2, <1>6, <2>1 DEF Or
  <1>7. CASE ~Given(a) /\ ~Given(b) /\ ~Given(c)
    <2>1. Strongest(options) = options[4][1]
      BY <1>2, <1>3, <1>7
    <2>2. QED
      BY <1>1, <1>2, <1>7, <2>1 DEF Or
  <1>8. QED
    BY <1>4, <1>5, <1>6, <1>7

\* The same with four options.
LEMMA StrongestOfFour ==
    ASSUME NEW a, NEW b, NEW c, NEW d, NEW e
    PROVE  Strongest(Append(<<a, b, c, d>>, <<e>>)) = Or(a, Or(b, Or(c, Or(d, e))))
  <1>1. PICK options : options = Append(<<a, b, c, d>>, <<e>>)
    OBVIOUS
  <1>2. /\ DOMAIN options = 1..5 /\ Given(options[5]) /\ options[5][1] = e
        /\ options[1] = a /\ options[2] = b /\ options[3] = c /\ options[4] = d
    BY <1>1 DEF Given
  <1>3. ASSUME NEW k \in 1..5, Given(options[k]), \A i \in 1..(k - 1) : ~Given(options[i])
        PROVE  Strongest(options) = options[k][1]
    BY <1>2, <1>3, FirstGiven
  <1>4. CASE Given(a)
    <2>1. Strongest(options) = options[1][1]
      BY <1>2, <1>3, <1>4
    <2>2. QED
      BY <1>1, <1>2, <1>4, <2>1 DEF Or
  <1>5. CASE ~Given(a) /\ Given(b)
    <2>1. Strongest(options) = options[2][1]
      BY <1>2, <1>3, <1>5
    <2>2. QED
      BY <1>1, <1>2, <1>5, <2>1 DEF Or
  <1>6. CASE ~Given(a) /\ ~Given(b) /\ Given(c)
    <2>1. Strongest(options) = options[3][1]
      BY <1>2, <1>3, <1>6
    <2>2. QED
      BY <1>1, <1>2, <1>6, <2>1 DEF Or
  <1>7. CASE ~Given(a) /\ ~Given(b) /\ ~Given(c) /\ Given(d)
    <2>1. Strongest(options) = options[4][1]
      BY <1>2, <1>3, <1>7
    <2>2. QED
      BY <1>1, <1>2, <1>7, <2>1 DEF Or
  <1>8. CASE ~Given(a) /\ ~Given(b) /\ ~Given(c) /\ ~Given(d)
    <2>1. Strongest(options) = options[5][1]
      BY <1>2, <1>3, <1>8
    <2>2. QED
      BY <1>1, <1>2, <1>8, <2>1 DEF Or
  <1>9. QED
    BY <1>4, <1>5, <1>6, <1>7, <1>8

----------------------------------------------------------------------------
(* The inductive invariant.                                                *)

\* What the sources may be: the part of ConfigurationAssumption about one input.
SourceTypes ==
    /\ program \in {"server", "agent"}
    /\ named \in Seq(Texts) /\ CONFIG \in Option(Text)
    /\ flags \in Source /\ env \in Environment
    /\ \A f \in DOMAIN files :
          /\ f \in Text /\ files[f] \in Source
          /\ Or(files[f].interval, 0) \in (-(MaxDuration + 1))..MaxDuration

\* The configuration after each section, in terms of the sources alone.
AfterFile ==
    [key |-> Or(File.key, ""), interval |-> Or(File.interval, DefaultInterval),
     path |-> Or(File.path, DefaultPath), fileStorage |-> Or(File.path, "") # "",
     restore |-> Or(File.restore, "true") = "true", rate |-> Or(File.rate, DefaultRate)]

AfterFlags ==
    [key |-> Or(flags.key, AfterFile.key),
     interval |-> IF Given(flags.interval) THEN Seconds(flags.interval[1])
                  ELSE AfterFile.interval,
     path |-> Or(flags.path, AfterFile.path),
     fileStorage |-> Or(flags.path, Or(File.path, "")) # "",
     restore |-> Or(flags.restore, Or(File.restore, "true")) = "true",
     rate |-> Or(flags.rate, AfterFile.rate)]

InvalidIn(s) ==
    Invalid(s.interval, MinInterval) \/ Invalid(s.rate, 1) \/ s.restore = <<"invalid">>

\* What has been accepted, and what has been made of it, when a section begins.
StageInv ==
    /\ stage = "file" => cfg = Defaults
    /\ stage = "flags" => ~FileRefused(Named) /\ cfg = AfterFile
    /\ stage = "env" => ~FileRefused(Named) /\ ~InvalidIn(flags) /\ cfg = AfterFlags
    /\ FollowsPrecedence

ConfigInv == SourceTypes /\ StageInv

----------------------------------------------------------------------------
(* The sources.                                                            *)

LEMMA OptionValue ==
    ASSUME NEW S, NEW o \in Option(S), Given(o)
    PROVE  o[1] \in S /\ Len(o) = 1 /\ o = <<o[1]>>
  <1>1. o \in Seq(S) /\ Len(o) <= 1 /\ o # <<>>
    BY DEF Option, Given
  <1>2. Len(o) \in Nat /\ Len(o) # 0
    <2>1. Len(o) \in Nat
      BY <1>1, LenProperties, Zenon
    <2>2. QED
      BY <1>1, <2>1, EmptySeq
  <1>3. Len(o) = 1
    <2>1. PICK n \in Nat : n = Len(o) /\ n # 0 /\ n <= 1
      BY <1>1, <1>2, Zenon
    <2>2. n = 1
      BY <2>1
    <2>3. QED
      BY <2>1, <2>2, Zenon
  <1>4. QED
    BY <1>1, <1>3

\* The last element of a concatenation.
LEMMA LastOfConcat ==
    ASSUME NEW S, NEW s \in Seq(S), NEW t \in Seq(S)
    PROVE  /\ t = <<>> => s \o t = s
           /\ t # <<>> => (s \o t)[Len(s \o t)] = t[Len(t)]
  <1>1. Len(s \o t) = Len(s) + Len(t) /\ s \o t \in Seq(S)
    OBVIOUS
  <1>2. CASE t = <<>>
    BY <1>1, <1>2
  <1>3. CASE t # <<>>
    <2>1. Len(t) \in Nat /\ Len(t) # 0
      BY <1>3, EmptySeq
    <2>2. Len(s) \in Nat /\ Len(s) + Len(t) \in 1..(Len(s) + Len(t))
      BY <2>1
    <2>3. (s \o t)[Len(s) + Len(t)] = t[Len(t)]
      BY <2>1, <2>2
    <2>4. QED
      BY <1>1, <1>3, <2>3
  <1>4. QED
    BY <1>2, <1>3

\* findConfigPath finds the file that the property calls named.
LEMMA FindsNamed ==
    ASSUME SourceTypes
    PROVE  FindConfigPath = Named
  <1>1. <<"">> \in Seq(Texts) /\ named \in Seq(Texts) /\ CONFIG \in Seq(Texts)
    <2>1. named \in Seq(Texts) /\ CONFIG \in Seq(Text)
      BY Zenon DEF SourceTypes, Option
    <2>2. Text \subseteq Texts
      BY Zenon DEF Text
    <2>3. CONFIG \in Seq(Texts)
      <3>1. \A i \in 1..Len(CONFIG) : CONFIG[i] \in Texts
        BY <2>1, <2>2, LenProperties
      <3>2. CONFIG \in [1..Len(CONFIG) -> Text] /\ Len(CONFIG) \in Nat
        BY <2>1, LenProperties, Zenon
      <3>3. CONFIG \in [1..Len(CONFIG) -> Texts]
        BY <3>1, <3>2
      <3>4. QED
        BY <3>2, <3>3
    <2>4. PICK e \in Texts : e = ""
      BY ConfigurationAssumption, Zenon
    <2>5. <<e>> \in Seq(Texts)
      OBVIOUS
    <2>6. QED
      BY <2>1, <2>3, <2>4, <2>5, Zenon
  <1>2. PICK s \in Seq(Texts) : s = <<"">> \o named
    <2>1. \A x, y \in Seq(Texts) : x \o y \in Seq(Texts)
      OBVIOUS
    <2>2. QED
      BY <1>1, <2>1, Zenon
  <1>3. s[Len(s)] = IF named = <<>> THEN "" ELSE named[Len(named)]
    <2>1. CASE named = <<>>
      <3>1. s = <<"">>
        BY <1>1, <1>2, <2>1, LastOfConcat
      <3>2. QED
        BY <2>1, <3>1
    <2>2. CASE named # <<>>
      BY <1>1, <1>2, <2>2, LastOfConcat
    <2>3. QED
      BY <2>1, <2>2
  <1>4. Named = (s \o CONFIG)[Len(s \o CONFIG)]
    BY <1>2 DEF Named
  <1>5. CASE CONFIG = <<>>
    <2>1. s \o CONFIG = s
      BY <1>1, <1>5, LastOfConcat
    <2>2. Named = s[Len(s)]
      BY <1>4, <2>1, Zenon
    <2>3. QED
      BY <1>3, <1>5, <2>2, Zenon DEF FindConfigPath, Or, Given
  <1>6. CASE CONFIG # <<>>
    <2>1. Len(CONFIG) = 1
      BY <1>6, OptionValue DEF SourceTypes, Given
    <2>2. Named = CONFIG[Len(CONFIG)]
      BY <1>1, <1>4, <1>6, LastOfConcat
    <2>3. Named = CONFIG[1]
      BY <2>1, <2>2, Zenon
    <2>4. QED
      BY <1>6, <2>3, Zenon DEF FindConfigPath, Or, Given
  <1>7. QED
    BY <1>5, <1>6

\* The file in force is well typed, also if there is none.
LEMMA FileTypes ==
    ASSUME SourceTypes
    PROVE  /\ File \in Source
           /\ Or(File.interval, 0) \in (-(MaxDuration + 1))..MaxDuration
  <1>1. CASE Named \in DOMAIN files
    BY <1>1, Zenon DEF SourceTypes, File, FileOf
  <1>2. CASE Named \notin DOMAIN files
    <2>1. File = NoFile
      BY <1>2, Zenon DEF File, FileOf
    <2>2. \A S : <<>> \in Option(S)
      BY DEF Option
    <2>3. NoFile \in Source
      BY <2>2 DEF NoFile, Source
    <2>4. Or(NoFile.interval, 0) = 0
      BY DEF NoFile, Or, Given
    <2>5. QED
      BY <2>1, <2>3, <2>4, ConstantTypes
  <1>3. QED
    BY <1>1, <1>2

\* A file is refused when it cannot be read or one of its values is invalid.
LEMMA FileRefusals ==
    ASSUME SourceTypes
    PROVE  FileRefused(Named) <=> (Named # "" /\ Named \notin DOMAIN files) \/ InvalidIn(File)
  <1>1. FileOf(Named) = File
    BY Zenon DEF File
  <1>2. File.rate \in Option(Int) /\ (Given(File.rate) => File.rate[1] \in Int)
    BY FileTypes, OptionValue DEF Source
  <1>3. Invalid(File.rate, 1) <=> Given(File.rate) /\ File.rate[1] <= 0
    BY <1>2 DEF Invalid
  <1>4. QED
    BY <1>1, <1>3, Zenon DEF FileRefused, InvalidIn, Invalid

\* The flags are refused when one of them is invalid: a rate that none of them
\* sets is one the file or the defaults gave.
LEMMA FlagRefusals ==
    ASSUME SourceTypes, ~FileRefused(Named), cfg = AfterFile
    PROVE  FlagsRefused <=> InvalidIn(flags)
  <1>1. flags.rate \in Option(Int) /\ File.rate \in Option(Int)
    BY FileTypes DEF SourceTypes, Source
  <1>2. /\ Given(flags.rate) => flags.rate[1] \in Int
        /\ Given(File.rate) => File.rate[1] \in Int
    BY <1>1, OptionValue
  <1>3. AfterFile.rate \in Int /\ AfterFile.rate > 0
    <2>1. ~Invalid(File.rate, 1)
      BY FileRefusals, Zenon DEF InvalidIn
    <2>2. AfterFile.rate = IF Given(File.rate) THEN File.rate[1] ELSE DefaultRate
      BY DEF AfterFile, Or
    <2>3. QED
      BY <1>2, <2>1, <2>2, ConstantTypes DEF Invalid
  <1>4. Or(flags.rate, cfg.rate) <= 0 <=> Invalid(flags.rate, 1)
    BY <1>2, <1>3 DEF Or, Invalid
  <1>5. QED
    BY <1>4, Zenon DEF FlagsRefused, InvalidIn, Invalid

LEMMA EnvRefusals ==
    ASSUME SourceTypes
    PROVE  EnvRefused <=> InvalidIn(env)
  <1>1. env.rate \in Option(Int) /\ (Given(env.rate) => env.rate[1] \in Int)
    BY OptionValue DEF SourceTypes, Environment
  <1>2. Invalid(env.rate, 1) <=> Given(env.rate) /\ env.rate[1] <= 0
    BY <1>1 DEF Invalid
  <1>3. QED
    BY <1>2, Zenon DEF EnvRefused, InvalidIn, Invalid

LEMMA AllRefusals ==
    ASSUME SourceTypes
    PROVE  AnyInvalid <=> FileRefused(Named) \/ InvalidIn(flags) \/ InvalidIn(env)
  BY FileRefusals, Zenon DEF AnyInvalid, InvalidIn

----------------------------------------------------------------------------
(* The reference.                                                          *)

\* The seconds of an option, as a duration.
LEMMA SecondsOf ==
    ASSUME NEW o \in Option(Int)
    PROVE  /\ Given(InSeconds(o)) <=> Given(o)
           /\ Given(o) => InSeconds(o)[1] = o[1] * Second
  <1>1. CASE Given(o)
    <2>1. PICK v \in Int : o = <<v>>
      BY <1>1, OptionValue, Zenon
    <2>2. DOMAIN o = {1}
      BY <2>1
    <2>3. DOMAIN InSeconds(o) = {1} /\ InSeconds(o)[1] = o[1] * Second
      BY <2>2 DEF InSeconds
    <2>4. InSeconds(o) # <<>>
      <3>1. DOMAIN <<>> = {}
        OBVIOUS
      <3>2. QED
        BY <2>3, <3>1
    <2>5. QED
      BY <1>1, <2>3, <2>4 DEF Given
  <1>2. CASE ~Given(o)
    BY <1>2 DEF Given, InSeconds
  <1>3. QED
    BY <1>1, <1>2

\* The interval in force, one source inside the other.
LEMMA IntervalInForce ==
    ASSUME SourceTypes
    PROVE  Strongest(Intervals) =
             IF Given(env.interval) THEN env.interval[1] * Second
             ELSE IF Given(flags.interval) THEN flags.interval[1] * Second
             ELSE Or(File.interval, DefaultInterval)
  <1>1. env.interval \in Option(Int) /\ flags.interval \in Option(Int)
    BY DEF SourceTypes, Environment, Source
  <1>2. Strongest(Intervals) =
          Or(InSeconds(env.interval),
             Or(InSeconds(flags.interval), Or(File.interval, DefaultInterval)))
    BY StrongestOfThree DEF Intervals
  <1>3. CASE Given(env.interval)
    <2>1. Given(InSeconds(env.interval))
          /\ InSeconds(env.interval)[1] = env.interval[1] * Second
      BY <1>1, <1>3, SecondsOf, Zenon
    <2>2. Strongest(Intervals) = env.interval[1] * Second
      BY <1>2, <2>1, Zenon DEF Or
    <2>3. QED
      BY <1>3, <2>2
  <1>4. CASE ~Given(env.interval) /\ Given(flags.interval)
    <2>1. ~Given(InSeconds(env.interval)) /\ Given(InSeconds(flags.interval))
          /\ InSeconds(flags.interval)[1] = flags.interval[1] * Second
      BY <1>1, <1>4, SecondsOf, Zenon
    <2>2. Strongest(Intervals) = flags.interval[1] * Second
      BY <1>2, <2>1, Zenon DEF Or
    <2>3. QED
      BY <1>4, <2>2
  <1>5. CASE ~Given(env.interval) /\ ~Given(flags.interval)
    <2>1. ~Given(InSeconds(env.interval)) /\ ~Given(InSeconds(flags.interval))
      BY <1>1, <1>5, SecondsOf, Zenon
    <2>2. Strongest(Intervals) = Or(File.interval, DefaultInterval)
      BY <1>2, <2>1, Zenon DEF Or
    <2>3. QED
      BY <1>5, <2>2
  <1>6. QED
    BY <1>3, <1>4, <1>5

\* What ApplyEnv makes of AfterFlags is the reference.
LEMMA EnvGivesReference ==
    ASSUME SourceTypes
    PROVE  Reference =
             [key |-> Or(env.key, AfterFlags.key),
              interval |-> IF Given(env.interval) THEN Seconds(env.interval[1])
                           ELSE AfterFlags.interval,
              path |-> Or(env.FILE_STORAGE_PATH, Or(env.STORE_FILE, AfterFlags.path)),
              fileStorage |-> \/ AfterFlags.fileStorage
                              \/ Given(env.STORE_FILE)
                              \/ Given(env.FILE_STORAGE_PATH),
              restore |-> IF Given(env.restore) THEN env.restore[1] = "true"
                          ELSE AfterFlags.restore,
              rate |-> Or(env.rate, AfterFlags.rate)]
  <1>1. Reference.key = Or(env.key, AfterFlags.key)
    <2>1. Reference.key = Strongest(<<env.key, flags.key, File.key, <<"">>>>)
      BY DEF Reference
    <2>2. AfterFlags.key = Or(flags.key, Or(File.key, ""))
      BY DEF AfterFlags, AfterFile
    <2>3. PICK none : none = ""
      OBVIOUS
    <2>4. Strongest(<<env.key, flags.key, File.key, <<none>>>>)
            = Or(env.key, Or(flags.key, Or(File.key, none)))
      BY StrongestOfThree
    <2>5. QED
      BY <2>1, <2>2, <2>3, <2>4
  <1>2. Reference.rate = Or(env.rate, AfterFlags.rate)
    BY StrongestOfThree DEF Reference, AfterFlags, AfterFile
  <1>3. Reference.restore = (IF Given(env.restore) THEN env.restore[1] = "true"
                             ELSE AfterFlags.restore)
    <2>1. Reference.restore =
            (Or(env.restore, Or(flags.restore, Or(File.restore, "true"))) = "true")
      BY StrongestOfThree DEF Reference
    <2>2. AfterFlags.restore = (Or(flags.restore, Or(File.restore, "true")) = "true")
      BY DEF AfterFlags
    <2>3. QED
      BY <2>1, <2>2, Zenon DEF Or
  <1>4. Reference.path = Or(env.FILE_STORAGE_PATH, Or(env.STORE_FILE, AfterFlags.path))
    BY StrongestOfFour DEF Reference, Paths, AfterFlags, AfterFile
  <1>5. Reference.fileStorage = (\/ AfterFlags.fileStorage
                                 \/ Given(env.STORE_FILE)
                                 \/ Given(env.FILE_STORAGE_PATH))
    <2>1. Reference.fileStorage =
            (Or(env.FILE_STORAGE_PATH,
                Or(env.STORE_FILE, Or(flags.path, Or(File.path, "")))) # "")
      <3>1. PICK none : none = ""
        OBVIOUS
      <3>2. Strongest(Append(Paths, <<none>>)) =
              Or(env.FILE_STORAGE_PATH,
                 Or(env.STORE_FILE, Or(flags.path, Or(File.path, none))))
        BY StrongestOfFour DEF Paths
      <3>3. Reference.fileStorage = (Strongest(Append(Paths, <<none>>)) # "")
        BY <3>1 DEF Reference
      <3>4. QED
        BY <3>1, <3>2, <3>3
    <2>2. AfterFlags.fileStorage = (Or(flags.path, Or(File.path, "")) # "")
      BY DEF AfterFlags
    <2>3. env.FILE_STORAGE_PATH \in Option(Text) /\ env.STORE_FILE \in Option(Text)
      BY DEF SourceTypes, Environment
    <2>4. /\ Given(env.FILE_STORAGE_PATH) => env.FILE_STORAGE_PATH[1] # ""
          /\ Given(env.STORE_FILE) => env.STORE_FILE[1] # ""
      <3>1. /\ Given(env.FILE_STORAGE_PATH) => env.FILE_STORAGE_PATH[1] \in Text
            /\ Given(env.STORE_FILE) => env.STORE_FILE[1] \in Text
        BY <2>3, OptionValue, Zenon
      <3>2. QED
        BY <3>1 DEF Text
    <2>5. QED
      BY <2>1, <2>2, <2>4, Zenon DEF Or
  <1>6. Reference.interval = IF Given(env.interval) THEN Seconds(env.interval[1])
                             ELSE AfterFlags.interval
    <2>1. Reference.interval = Duration(Strongest(Intervals))
      BY DEF Reference
    <2>2. AfterFlags.interval =
            IF Given(flags.interval) THEN Seconds(flags.interval[1])
            ELSE Or(File.interval, DefaultInterval)
      BY DEF AfterFlags, AfterFile
    <2>3. Or(File.interval, DefaultInterval) \in (-(MaxDuration + 1))..MaxDuration
      <3>1. Given(File.interval) =>
              Or(File.interval, DefaultInterval) = Or(File.interval, 0)
        BY DEF Or
      <3>2. ~Given(File.interval) => Or(File.interval, DefaultInterval) = DefaultInterval
        BY DEF Or
      <3>3. QED
        BY <3>1, <3>2, FileTypes, ConstantTypes
    <2>4. Duration(Or(File.interval, DefaultInterval)) = Or(File.interval, DefaultInterval)
      BY <2>3, DurationFits, Zenon
    <2>5. QED
      BY <2>1, <2>2, <2>4, IntervalInForce, Zenon DEF Seconds
  <1>7. QED
    BY <1>1, <1>2, <1>3, <1>4, <1>5, <1>6 DEF Reference

----------------------------------------------------------------------------
(* The sections.                                                           *)

\* Nothing said about the sources changes with the configuration.
LEMMA SourcesStay ==
    ASSUME UNCHANGED sources
    PROVE  /\ SourceTypes' = SourceTypes /\ Named' = Named /\ MinInterval' = MinInterval
           /\ AfterFile' = AfterFile /\ AfterFlags' = AfterFlags
           /\ Reference' = Reference /\ Intervals' = Intervals /\ AnyInvalid' = AnyInvalid
           /\ FileRefused(Named)' = FileRefused(Named)
           /\ InvalidIn(flags)' = InvalidIn(flags)
  <1>1. Named' = Named /\ MinInterval' = MinInterval
    BY DEF sources, Named, MinInterval
  <1>2. File' = File /\ FileOf(Named)' = FileOf(Named)
    BY <1>1 DEF sources, File, FileOf
  <1>3. QED
    BY <1>1, <1>2
    DEF sources, SourceTypes, AfterFile, AfterFlags, Reference, Intervals, Paths, AnyInvalid,
        FileRefused, InvalidIn, Invalid

LEMMA LoadFileStep ==
    ASSUME ConfigInv, LoadFile
    PROVE  StageInv'
  <1>1. FindConfigPath = Named /\ FileOf(FindConfigPath) = File
    BY FindsNamed, Zenon DEF ConfigInv, File
  <1>2. CASE FileRefused(FindConfigPath) /\ Refuse
    <2>1. UNCHANGED sources /\ stage' = "refused"
      BY <1>2 DEF Refuse
    <2>2. AnyInvalid
      BY <1>1, <1>2, AllRefusals, Zenon DEF ConfigInv
    <2>3. QED
      BY <2>1, <2>2, SourcesStay DEF StageInv, FollowsPrecedence
  <1>3. CASE ~(FileRefused(FindConfigPath) /\ Refuse)
    <2>1. /\ ~FileRefused(Named) /\ stage' = "flags" /\ UNCHANGED sources
          /\ cfg' = [key |-> Or(File.key, cfg.key),
                     interval |-> Or(File.interval, cfg.interval),
                     path |-> Or(File.path, cfg.path),
                     fileStorage |-> Or(File.path, "") # "",
                     restore |-> Or(File.restore, "true") = "true",
                     rate |-> Or(File.rate, cfg.rate)]
      BY <1>1, <1>3, Zenon DEF LoadFile
    <2>2. cfg = Defaults
      BY DEF ConfigInv, StageInv, LoadFile
    <2>3. cfg' = AfterFile
      BY <2>1, <2>2 DEF AfterFile, Defaults
    <2>4. QED
      BY <2>1, <2>3, SourcesStay DEF StageInv, FollowsPrecedence
  <1>4. QED
    BY <1>2, <1>3

LEMMA ParseFlagsStep ==
    ASSUME ConfigInv, ParseFlags
    PROVE  StageInv'
  <1>1. ~FileRefused(Named) /\ cfg = AfterFile
    BY DEF ConfigInv, StageInv, ParseFlags
  <1>2. FlagsRefused <=> InvalidIn(flags)
    BY <1>1, FlagRefusals, Zenon DEF ConfigInv
  <1>3. CASE FlagsRefused /\ Refuse
    <2>1. UNCHANGED sources /\ stage' = "refused"
      BY <1>3 DEF Refuse
    <2>2. AnyInvalid
      BY <1>2, <1>3, AllRefusals, Zenon DEF ConfigInv
    <2>3. QED
      BY <2>1, <2>2, SourcesStay DEF StageInv, FollowsPrecedence
  <1>4. CASE ~(FlagsRefused /\ Refuse)
    <2>1. /\ ~InvalidIn(flags) /\ stage' = "env" /\ UNCHANGED sources
          /\ cfg' = [key |-> Or(flags.key, cfg.key),
                     interval |-> FlagInterval,
                     path |-> Or(flags.path, cfg.path),
                     fileStorage |-> IF Given(flags.path) THEN flags.path[1] # ""
                                     ELSE cfg.fileStorage,
                     restore |-> IF Given(flags.restore) THEN flags.restore[1] = "true"
                                 ELSE cfg.restore,
                     rate |-> Or(flags.rate, cfg.rate)]
      BY <1>2, <1>4, Zenon DEF ParseFlags
    <2>2. (IF Given(flags.path) THEN flags.path[1] # "" ELSE cfg.fileStorage)
            = (Or(flags.path, Or(File.path, "")) # "")
      BY <1>1 DEF AfterFile, Or
    <2>3. (IF Given(flags.restore) THEN flags.restore[1] = "true" ELSE cfg.restore)
            = (Or(flags.restore, Or(File.restore, "true")) = "true")
      BY <1>1 DEF AfterFile, Or
    <2>4. cfg' = AfterFlags
      BY <1>1, <2>1, <2>2, <2>3, Zenon DEF AfterFlags, FlagInterval
    <2>5. QED
      BY <1>1, <2>1, <2>4, SourcesStay DEF StageInv, FollowsPrecedence
  <1>5. QED
    BY <1>3, <1>4

LEMMA ApplyEnvStep ==
    ASSUME ConfigInv, ApplyEnv
    PROVE  StageInv'
  <1>1. ~FileRefused(Named) /\ ~InvalidIn(flags) /\ cfg = AfterFlags
    BY DEF ConfigInv, StageInv, ApplyEnv
  <1>2. EnvRefused <=> InvalidIn(env)
    BY EnvRefusals, Zenon DEF ConfigInv
  <1>3. CASE EnvRefused /\ Refuse
    <2>1. UNCHANGED sources /\ stage' = "refused"
      BY <1>3 DEF Refuse
    <2>2. AnyInvalid
      BY <1>2, <1>3, AllRefusals, Zenon DEF ConfigInv
    <2>3. QED
      BY <2>1, <2>2, SourcesStay DEF StageInv, FollowsPrecedence
  <1>4. CASE ~(EnvRefused /\ Refuse)
    <2>1. ~EnvRefused /\ stage' = "done" /\ UNCHANGED sources
      BY <1>4, Zenon DEF ApplyEnv
    <2>2. ~AnyInvalid
      BY <1>1, <1>2, <2>1, AllRefusals, Zenon DEF ConfigInv
    <2>3. cfg' = Reference
      BY <1>1, <1>4, EnvGivesReference, Zenon DEF ApplyEnv, ConfigInv
    <2>4. QED
      BY <2>1, <2>2, <2>3, SourcesStay DEF StageInv, FollowsPrecedence
  <1>5. QED
    BY <1>3, <1>4

LEMMA ConfigInvariant == Spec => []ConfigInv
  <1>1. Init => ConfigInv
    <2> SUFFICES ASSUME Init PROVE ConfigInv
      OBVIOUS
    <2>1. SourceTypes
      BY ConfigurationAssumption, Zenon DEF Init, SourceTypes
    <2>2. StageInv
      BY DEF Init, StageInv, FollowsPrecedence
    <2>3. QED
      BY <2>1, <2>2 DEF ConfigInv
  <1>2. ConfigInv /\ [Next]_vars => ConfigInv'
    <2> SUFFICES ASSUME ConfigInv, [Next]_vars PROVE ConfigInv'
      OBVIOUS
    <2>1. UNCHANGED sources
      BY DEF Next, LoadFile, ParseFlags, ApplyEnv, Refuse, Parsed, vars, sources
    <2>2. SourceTypes'
      BY <2>1, SourcesStay DEF ConfigInv
    <2>3. CASE UNCHANGED vars
      BY <2>1, <2>3, SourcesStay DEF vars, ConfigInv, StageInv, FollowsPrecedence
    <2>4. CASE LoadFile
      BY <2>2, <2>4, LoadFileStep DEF ConfigInv
    <2>5. CASE ParseFlags
      BY <2>2, <2>5, ParseFlagsStep DEF ConfigInv
    <2>6. CASE ApplyEnv
      BY <2>2, <2>6, ApplyEnvStep DEF ConfigInv
    <2>7. QED
      BY <2>3, <2>4, <2>5, <2>6 DEF Next, Parsed
  <1>3. QED
    BY <1>1, <1>2, PTL DEF Spec

----------------------------------------------------------------------------
(* The theorems.                                                           *)

\* A program starts with the strongest value of every option, or refuses, and
\* exactly when some source is invalid (FollowsPrecedence).
THEOREM FollowsPrecedenceHolds == Spec => []FollowsPrecedence
  <1>1. ConfigInv => FollowsPrecedence
    BY DEF ConfigInv, StageInv
  <1>2. QED
    BY <1>1, ConfigInvariant, PTL

\* The interval a program starts with is not negative, that of an agent is
\* positive, unless the seconds in force exceed the greatest duration
\* (IntervalInRange).
THEOREM IntervalInRangeHolds == Spec => []IntervalInRange
  <1>1. ConfigInv => IntervalInRange
    <2> SUFFICES ASSUME ConfigInv, stage = "done", Strongest(Intervals) <= MaxDuration
                 PROVE  cfg.interval >= MinInterval
      BY DEF IntervalInRange
    <2>1. ~AnyInvalid /\ cfg.interval = Duration(Strongest(Intervals))
      <3>1. ~AnyInvalid /\ cfg = Reference
        BY Zenon DEF ConfigInv, StageInv, FollowsPrecedence
      <3>2. Reference.interval = Duration(Strongest(Intervals))
        BY DEF Reference
      <3>3. QED
        BY <3>1, <3>2
    <2>2. /\ ~Invalid(env.interval, MinInterval) /\ ~Invalid(flags.interval, MinInterval)
          /\ ~Invalid(File.interval, MinInterval)
      BY <2>1, Zenon DEF AnyInvalid
    <2>3. /\ Given(env.interval) => env.interval[1] \in Int
          /\ Given(flags.interval) => flags.interval[1] \in Int
          /\ Given(File.interval) => File.interval[1] \in Int
      BY FileTypes, OptionValue DEF ConfigInv, SourceTypes, Source, Environment
    <2>4. MinInterval \in {0, 1}
      BY DEF MinInterval
    <2>5. ASSUME NEW n \in Int, n >= MinInterval
          PROVE  n * Second \in Int /\ n * Second >= MinInterval
      <3>1. Second \in Nat /\ Second >= 1
        BY ConstantTypes
      <3>2. CASE n <= 0
        BY <2>4, <2>5, <3>1, <3>2
      <3>3. CASE n >= 1
        <4>1. n * Second >= Second
          BY <3>1, <3>3
        <4>2. QED
          BY <2>4, <3>1, <4>1
      <3>4. QED
        BY <2>5, <3>2, <3>3
    <2>6. Strongest(Intervals) \in Int /\ Strongest(Intervals) >= MinInterval
      <3>1. CASE Given(env.interval)
        BY <2>2, <2>3, <2>4, <2>5, <3>1, IntervalInForce DEF ConfigInv, Invalid
      <3>2. CASE ~Given(env.interval) /\ Given(flags.interval)
        BY <2>2, <2>3, <2>4, <2>5, <3>2, IntervalInForce DEF ConfigInv, Invalid
      <3>3. CASE ~Given(env.interval) /\ ~Given(flags.interval)
        BY <2>2, <2>3, <2>4, <3>3, IntervalInForce, ConstantTypes DEF ConfigInv, Invalid, Or
      <3>4. QED
        BY <3>1, <3>2, <3>3
    <2>7. Duration(Strongest(Intervals)) = Strongest(Intervals)
      <3>1. Strongest(Intervals) \in (-(MaxDuration + 1))..MaxDuration
        BY <2>4, <2>6, ConstantTypes
      <3>2. QED
        BY <3>1, DurationFits, Zenon
    <2>8. QED
      BY <2>1, <2>6, <2>7
  <1>2. QED
    BY <1>1, ConfigInvariant, PTL

============================================================================

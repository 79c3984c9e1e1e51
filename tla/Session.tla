-------------------------------- MODULE Session --------------------------------
(***************************************************************************)
(* A program that uses the library, from its start to Shutdown: the flags  *)
(* that static initialization takes from the environment, the command line *)
(* that Initialize parses and shortens, the custom context, and which      *)
(* reporters and streams RunSpecifiedBenchmarks uses, creates and deletes. *)
(*                                                                         *)
(* A text is a name for itself: what the conversions make of it is stated  *)
(* by Int32Texts, DoubleTexts and KvPairs. Stores of a setter that nothing *)
(* else here looks at are left out.                                        *)
(***************************************************************************)
EXTENDS Integers, Sequences, SequencesExt

CONSTANTS
  Int32Texts, DoubleTexts,   \* texts that are a number of the type, to the last character
  FalseTexts,                \* "0", "f", "no", "off", ...
  KvPairs,                   \* [text -> what its parts between commas split into at "="]
  Environments,              \* what may be set when the program starts: [flag -> text]
  CommandLines,              \* sequences of [flag, text], without argv[0]
  Contexts,                  \* <<key, value>> pairs the program may add by itself
  Specs,                     \* filters; how many instances match, or -1 if the regular
  Matching,                  \*   expression is broken: [spec -> number]
  MaxSuites, MaxAdded        \* bounds of the model

NoText == "no ="             \* the text of an argument that is only --flag

FlagKind ==
  [ benchmark_list_tests |-> "bool",          benchmark_filter |-> "string",
    benchmark_min_time |-> "string",          benchmark_min_warmup_time |-> "double",
    benchmark_repetitions |-> "int32",        benchmark_dry_run |-> "bool",
    benchmark_enable_random_interleaving |-> "bool",
    benchmark_report_aggregates_only |-> "bool",
    benchmark_display_aggregates_only |-> "bool",
    benchmark_format |-> "string",            benchmark_out_format |-> "string",
    benchmark_out |-> "string",               benchmark_color |-> "string",
    benchmark_counters_tabular |-> "bool",    benchmark_perf_counters |-> "string",
    benchmark_context |-> "kvpairs",          benchmark_time_unit |-> "string",
    v |-> "int32" ]

Flags == {f \in DOMAIN FlagKind : FlagKind[f] # "kvpairs"}

DefaultText(f) ==
  CASE FlagKind[f] = "bool"          -> "false"
    [] f = "benchmark_min_time"        -> "0.5s"
    [] f = "benchmark_min_warmup_time" -> "0.0"
    [] f = "benchmark_repetitions"     -> "1"
    [] f = "benchmark_format"          -> "console"
    [] f = "benchmark_out_format"      -> "json"
    [] f = "benchmark_color"           -> "auto"
    [] f = "v"                         -> "0"
    [] OTHER                           -> ""

TimeUnits == {"s", "ms", "us", "ns"}

\* KvPairs covers the texts that are given for the context.
ASSUME SessionAssumption ==
  /\ CommandLines \subseteq Seq([flag : STRING, text : STRING])
  /\ \A text \in DOMAIN KvPairs : KvPairs[text] \in Seq(Seq(STRING))
  /\ \A c \in CommandLines : \A a \in DOMAIN c :
       c[a].flag = "benchmark_context" /\ c[a].text # NoText => c[a].text \in DOMAIN KvPairs
  /\ \A e \in Environments :
       /\ DOMAIN e \subseteq DOMAIN FlagKind
       /\ "benchmark_context" \in DOMAIN e => e["benchmark_context"] \in DOMAIN KvPairs
  /\ DOMAIN Matching = Specs

VARIABLES
  env, given,                 \* the environment and the command line, as they were
  argv, i, FLAGS, FLAGS_benchmark_context,
  global_context, added,      \* and the pairs added by the program: before, after
  default_time_unit,
  default_display_reporter,   \* of CreateDefaultDisplayReporter: none, live, deleted
  benchmark_out,              \* what the output file holds: none, empty, results
  suites, pc, status

line == <<argv, i, FLAGS, FLAGS_benchmark_context>>
vars == <<env, given, line, global_context, added, default_time_unit,
          default_display_reporter, benchmark_out, suites, pc, status>>

-----------------------------------------------------------------------------
(* Conversions.                                                            *)

IsTruthyFlagValue(text) == text \notin FalseTexts

\* strtol and strtod read a number from nothing: it is 0.
Converts(kind, text) ==
  CASE kind = "int32"  -> text \in Int32Texts \cup {""}
    [] kind = "double" -> text \in DoubleTexts \cup {""}
    [] OTHER           -> TRUE

Converted(kind, text) ==
  CASE kind = "bool"                          -> IF IsTruthyFlagValue(text) THEN "true" ELSE "false"
    [] kind \in {"int32", "double"} /\ text = "" -> "0"
    [] OTHER                                  -> text

IsPair(part) == Len(part) = 2

NoPairs == [k \in {} |-> ""]

\* std::map::emplace: a key that is there keeps its value.
Emplace(map, pair) ==
  [k \in DOMAIN map \cup {pair[1]} |-> IF k \in DOMAIN map THEN map[k] ELSE pair[2]]

EmplaceAll(map, pairs) == FoldLeft(Emplace, map, pairs)

\* From the environment all pairs are taken, or none if one is not a pair or a key is
\* there twice.
ParseKvPairs(text) ==
  LET parts == KvPairs[text]
      keys  == {parts[p][1] : p \in DOMAIN parts}
  IN  IF (\A p \in DOMAIN parts : IsPair(parts[p])) /\ Cardinality(keys) = Len(parts)
      THEN EmplaceAll(NoPairs, parts) ELSE NoPairs

FromEnv(f, environment) ==
  IF f \in DOMAIN environment /\ Converts(FlagKind[f], environment[f])
  THEN Converted(FlagKind[f], environment[f]) ELSE DefaultText(f)

Init ==
  /\ env \in Environments
  /\ given \in CommandLines
  /\ argv = given
  /\ i = 1
  /\ FLAGS = [f \in Flags |-> FromEnv(f, env)]
  /\ FLAGS_benchmark_context =
       IF "benchmark_context" \in DOMAIN env THEN ParseKvPairs(env["benchmark_context"])
       ELSE NoPairs
  /\ global_context = NoPairs
  /\ added = [before |-> << >>, after |-> << >>]
  /\ default_time_unit = "ns"
  /\ default_display_reporter = "none"
  /\ benchmark_out = "none"
  /\ suites = 0
  /\ pc = "start"
  /\ status = "running"

-----------------------------------------------------------------------------
\* The first pair of a key is the one that is kept.
AddCustomContext(pair) ==
  /\ pc \in {"start", "initialized"}
  /\ Len(added.before) + Len(added.after) < MaxAdded
  /\ global_context' = Emplace(global_context, pair)
  /\ added' = IF pc = "start" THEN [added EXCEPT !.before = Append(@, pair)]
              ELSE [added EXCEPT !.after = Append(@, pair)]
  /\ UNCHANGED <<env, given, line, default_time_unit, default_display_reporter,
                 benchmark_out, suites, pc, status>>

Initialize ==
  /\ pc = "start"
  /\ pc' = "parsing"
  /\ UNCHANGED <<env, given, line, global_context, added, default_time_unit,
                 default_display_reporter, benchmark_out, suites, status>>

\* ParseBoolFlag and its like: only a bool may come without a text.
Parses(arg) ==
  /\ arg.flag \in Flags
  /\ arg.text = NoText => FlagKind[arg.flag] = "bool"
  /\ Converts(FlagKind[arg.flag], arg.text)

\* The pairs up to the first part that is not one are stored, whatever follows.
PairsBeforeError(parts) ==
  LET bad == {p \in DOMAIN parts : ~IsPair(parts[p])}
  IN  SubSeq(parts, 1, IF bad = {} THEN Len(parts)
                       ELSE (CHOOSE p \in bad : \A q \in bad : p <= q) - 1)

PairsOf(arg) ==
  IF arg.flag = "benchmark_context" /\ arg.text # NoText
  THEN PairsBeforeError(KvPairs[arg.text]) ELSE << >>

ParsesPairs(arg) ==
  /\ arg.flag = "benchmark_context" /\ arg.text # NoText
  /\ \A p \in DOMAIN KvPairs[arg.text] : IsPair(KvPairs[arg.text][p])

Recognized(arg) == Parses(arg) \/ ParsesPairs(arg)

\* Bug variant: the argument that moves up is skipped.
NextIndexSkipping(arg) == i + 1

\* After an argument has been taken out, the next one is at the same place.
NextIndex(arg) == IF Recognized(arg) THEN i ELSE i + 1

\* One round of the loop of ParseCommandLineFlags.
ParseArgument ==
  /\ pc = "parsing" /\ i <= Len(argv)
  /\ LET arg == argv[i]
         known == Recognized(arg)
     IN /\ FLAGS' = IF Parses(arg)
                    THEN [FLAGS EXCEPT ![arg.flag] = Converted(FlagKind[arg.flag], arg.text)]
                    ELSE FLAGS
        /\ FLAGS_benchmark_context' = EmplaceAll(FLAGS_benchmark_context, PairsOf(arg))
        /\ argv' = IF known THEN RemoveAt(argv, i) ELSE argv
        /\ i' = NextIndex(arg)
        /\ IF arg.flag = "help" THEN pc' = "exited" /\ status' = "0"
                                ELSE UNCHANGED <<pc, status>>
  /\ UNCHANGED <<env, given, global_context, added, default_time_unit,
                 default_display_reporter, benchmark_out, suites>>

Formats == {"console", "json", "csv"}

\* A flag with a text that is no choice of its own prints the help: then the program ends.
BadChoice ==
  \/ FLAGS["benchmark_format"] \notin Formats \/ FLAGS["benchmark_out_format"] \notin Formats
  \/ FLAGS["benchmark_time_unit"] \notin TimeUnits \cup {""}
  \/ FLAGS["benchmark_color"] = ""

\* Bug variant: the pairs of the flags replace the program's own.
FlaggedContextFirst ==
  LET dry == IF FLAGS["benchmark_dry_run"] = "true" THEN << <<"dry_run", "true">> >> ELSE << >>
      flagged == EmplaceAll(EmplaceAll(NoPairs, dry), SetToSeq(
                   {<<k, FLAGS_benchmark_context[k]>> : k \in DOMAIN FLAGS_benchmark_context}))
  IN  EmplaceAll(flagged, SetToSeq({<<k, global_context[k]>> : k \in DOMAIN global_context}))

\* AddCustomContext for a dry run and for each pair of the flags.
FlaggedContext ==
  LET dry == IF FLAGS["benchmark_dry_run"] = "true" THEN << <<"dry_run", "true">> >> ELSE << >>
  IN  EmplaceAll(EmplaceAll(global_context, dry), SetToSeq(
        {<<k, FLAGS_benchmark_context[k]>> : k \in DOMAIN FLAGS_benchmark_context}))

\* The end of ParseCommandLineFlags and of Initialize.
FinishFlags ==
  /\ pc = "parsing" /\ i > Len(argv)
  /\ IF BadChoice
     THEN /\ pc' = "exited" /\ status' = "0"
          /\ UNCHANGED <<global_context, default_time_unit>>
     ELSE /\ pc' = "initialized"
          /\ default_time_unit' = IF FLAGS["benchmark_time_unit"] = "" THEN default_time_unit
                                  ELSE FLAGS["benchmark_time_unit"]
          /\ global_context' = FlaggedContext
          /\ UNCHANGED status
  /\ UNCHANGED <<env, given, line, added, default_display_reporter, benchmark_out, suites>>

\* BENCHMARK_MAIN returns 1 if an argument is left.
ReportUnrecognizedArguments ==
  /\ pc = "initialized" /\ suites = 0 /\ argv # << >>
  /\ pc' = "exited" /\ status' = "1"
  /\ UNCHANGED <<env, given, line, global_context, added, default_time_unit,
                 default_display_reporter, benchmark_out, suites>>

\* Bug variant: the default reporter is left to the function that made it.
DefaultReporterKept(uses_default) ==
  IF uses_default THEN "live" ELSE default_display_reporter

\* CreateDefaultDisplayReporter makes one reporter for the whole program, and the
\* unique_ptr of RunSpecifiedBenchmarks deletes it when the call returns.
DefaultReporterAfter(uses_default) ==
  IF uses_default THEN "deleted" ELSE default_display_reporter

\* RunSpecifiedBenchmarks(display_reporter, file_reporter, spec), where "default" stands
\* for null, and the program's own reporters outlive the call. The output file is opened,
\* and emptied, before the benchmarks are looked for.
RunSpecifiedBenchmarks(uses_default, file_reporter, spec) ==
  LET named == FLAGS["benchmark_out"] # ""
      ends(code) == /\ pc' = "exited" /\ status' = code
                    /\ UNCHANGED suites
      runs  == Matching[spec] > 0 /\ FLAGS["benchmark_list_tests"] = "false"
  IN
  /\ pc = "initialized" /\ suites < MaxSuites
  /\ \/ /\ uses_default /\ default_display_reporter = "deleted"   \* anything may follow
        /\ ends("undefined")
        /\ UNCHANGED <<default_display_reporter, benchmark_out>>
     \/ /\ ~(uses_default /\ default_display_reporter = "deleted")
        /\ \/ /\ ~named /\ file_reporter
              /\ ends("1")
              /\ default_display_reporter' =
                   IF uses_default THEN "live" ELSE default_display_reporter
              /\ UNCHANGED benchmark_out
           \/ /\ named   \* the file cannot be opened
              /\ ends("1")
              /\ default_display_reporter' =
                   IF uses_default THEN "live" ELSE default_display_reporter
              /\ UNCHANGED benchmark_out
           \/ /\ named \/ ~file_reporter
              /\ benchmark_out' = IF ~named THEN benchmark_out
                                  ELSE IF runs THEN "results" ELSE "empty"
              /\ default_display_reporter' = DefaultReporterAfter(uses_default)
              /\ suites' = suites + 1
              /\ UNCHANGED <<pc, status>>
  /\ UNCHANGED <<env, given, line, global_context, added, default_time_unit>>

\* The context is deleted.
Shutdown ==
  /\ pc = "initialized"
  /\ pc' = "done"
  /\ global_context' = NoPairs
  /\ UNCHANGED <<env, given, line, added, default_time_unit, default_display_reporter,
                 benchmark_out, suites, status>>

Next ==
  \/ \E pair \in Contexts : AddCustomContext(pair)
  \/ Initialize
  \/ ParseArgument
  \/ FinishFlags
  \/ ReportUnrecognizedArguments
  \/ \E uses_default, file_reporter \in BOOLEAN, spec \in Specs :
       RunSpecifiedBenchmarks(uses_default, file_reporter, spec)
  \/ Shutdown

Spec == Init /\ [][Next]_vars

-----------------------------------------------------------------------------
(* Properties.                                                             *)

\* The state has the expected shape: what is left of argv is no longer than it was, a
\* reporter is deleted only by a suite, and the default unit is one of the four.
TypeOK ==
  /\ Len(argv) <= Len(given) /\ i \in 1 .. Len(argv) + 1
  /\ FLAGS \in [Flags -> {FLAGS[f] : f \in Flags}]
  /\ default_time_unit \in TimeUnits
  /\ default_display_reporter \in {"none", "live", "deleted"}
  /\ default_display_reporter = "deleted" => suites > 0
  /\ default_display_reporter = "live" => status = "1"
  /\ benchmark_out \in {"none", "empty", "results"}
  /\ pc \in {"start", "parsing", "initialized", "exited", "done"}
  /\ status \in {"running", "0", "1", "undefined"}
  /\ pc = "exited" <=> status # "running"

Parsed == pc \in {"initialized", "done"}

LastText(f) ==
  LET places == {a \in DOMAIN given : given[a].flag = f /\ Parses(given[a])}
      last   == CHOOSE a \in places : \A b \in places : b <= a
  IN  IF places = {} THEN FromEnv(f, env)
      ELSE Converted(FlagKind[f], given[last].text)

\* ParseCommandLineFlags shortens argv while it walks through it. After Initialize the
\* arguments that are left are those that no flag took, in their order, whatever the
\* others were and where they stood; every flag has the text of its last argument that
\* could be converted, and without one that of the environment or the default.
ArgsParsed ==
  Parsed =>
    LET left == {a \in DOMAIN given : ~Recognized(given[a])}
    IN /\ Len(argv) = Cardinality(left)
       /\ \A a \in left : argv[Cardinality({b \in left : b <= a})] = given[a]
       /\ \A f \in Flags : FLAGS[f] = LastText(f)

\* What is asked for, in this order: by the program before Initialize, the dry run, the
\* environment, each argument of the command line, the program after Initialize.
Sources == -2 .. Len(given) + 1

Asked(s) ==
  CASE s = -2 -> added.before
    [] s = -1 -> IF FLAGS["benchmark_dry_run"] = "true" THEN << <<"dry_run", "true">> >>
                 ELSE << >>
    [] s = 0  -> IF "benchmark_context" \in DOMAIN env
                    /\ ParseKvPairs(env["benchmark_context"]) # NoPairs
                 THEN KvPairs[env["benchmark_context"]] ELSE << >>
    [] s \in DOMAIN given -> PairsOf(given[s])
    [] OTHER  -> added.after

KeysOf(pairs) == {pairs[p][1] : p \in DOMAIN pairs}

ValueOf(pairs, k) == pairs[CHOOSE p \in DOMAIN pairs : /\ pairs[p][1] = k
                             /\ \A q \in 1 .. p - 1 : pairs[q][1] # k][2]

\* AddCustomContext and --benchmark_context: no key that anyone asked for is lost, and its
\* value is that of the first to ask, in the order of the code. That the environment comes
\* before the command line there is not what the guide says (CommandLinePrevails).
ContextKept ==
  pc = "initialized" =>
    /\ DOMAIN global_context = UNION {KeysOf(Asked(s)) : s \in Sources}
    /\ \A s \in Sources : \A k \in KeysOf(Asked(s)) :
         (\A r \in -2 .. s - 1 : k \notin KeysOf(Asked(r)))
           => global_context[k] = ValueOf(Asked(s), k)

\* docs/user_guide.md, on flags and environment variables: "CLI switches always prevails".
\* A key that a --benchmark_context gives on the command line, with nothing wrong in it,
\* and that neither the program nor the dry run has set before, has a value from there.
CommandLinePrevails ==
  pc = "initialized" =>
    \A s \in {a \in DOMAIN given : ParsesPairs(given[a])} :
      \A k \in KeysOf(Asked(s)) \ KeysOf(Asked(-2) \o Asked(-1)) :
        \E r \in DOMAIN given :
          k \in KeysOf(Asked(r)) /\ global_context[k] = ValueOf(Asked(r), k)

\* benchmark.h, on CreateDefaultDisplayReporter: "Creates a default display reporter. Used
\* by the library when no display reporter is provided": a suite never talks to one that
\* is gone.
ReportersAlive == status # "undefined"
=============================================================================

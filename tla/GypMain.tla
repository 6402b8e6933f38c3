------------------------------ MODULE GypMain ------------------------------
(***************************************************************************)
(* gyp_main of src/tools/gyp/pylib/gyp/__init__.py: what the command line, *)
(* the environment and the directory make of a run, and the flags that the *)
(* Makefile runs gyp with again when a build file has changed.             *)
(*                                                                         *)
(* A command line maps the name of each option to the values it is given,  *)
(* a path is [abs, p], a define or generator flag <<name, value>>.         *)
(***************************************************************************)
EXTENDS Integers, TLC, SequencesExt, GypPaths

CONSTANTS Environments,     \* what the environment may be: variable -> values
          BuildFilesIn,     \* directory -> the .gyp files in it; no other directory is used
          ValidConfigs,     \* the configurations of the targets
          MaxRuns           \* bound on the runs of gyp

VARIABLES run,      \* [cwd, args, env, count]: how gyp was called, and how often; NoRun when it is not
          params,   \* what it passes on, or Failed
          first     \* how it was called the first time
mainVars == <<run, params, first>>

NoRun == [cwd |-> <<>>]
Failed == [ok |-> FALSE]
Unset == [abs |-> FALSE, p |-> <<>>]

-----------------------------------------------------------------------------
(* Options.                                                                *)

Append_ == {"defines", "includes", "debug", "generator_flags", "configs", "formats", "build_files"}
Paths == {"includes", "depth", "generator_output", "toplevel_dir"}
Switches == {"check", "parallel", "ignore_environment", "no_circular_check"}
EnvName == [defines |-> "GYP_DEFINES", generator_flags |-> "GYP_GENERATOR_FLAGS",
            generator_output |-> "GYP_GENERATOR_OUTPUT"]

\* The options with a dest and without regenerate=False.
Regeneratable == {"defines", "includes", "depth", "debug", "suffix", "generator_flags",
                  "generator_output", "check", "toplevel_dir", "configs"}

Missing(o) == IF o \in Paths THEN Unset ELSE ""

\* parse_args: all values of an option with action append, else the last.
ParseArgs(args) ==
    [o \in DOMAIN args |-> CASE o \in Append_ -> args[o]
                             [] o \in Switches -> args[o] # <<>>
                             [] args[o] # <<>> -> Last(args[o])
                             [] OTHER -> Missing(o)]

NameValueListToDict(l) == FoldLeft(LAMBDA d, x : (x[1] :> x[2]) @@ d, <<>>, l)

AbsPath(cwd, path) == NormPath(IF path.abs THEN path.p ELSE cwd \o path.p)

RelativePath(cwd, path, relative_to) ==
    [abs |-> FALSE, p |-> PathFrom(AbsPath(cwd, relative_to), AbsPath(cwd, path))]

\* An absolute path stays as it is.
FixIfRelativePath(cwd, path, relative_to) == IF path.abs THEN path ELSE RelativePath(cwd, path, relative_to)

\* RegenerateFlags, "." for a path that would be empty.
FixPath(cwd, path, depth) == [FixIfRelativePath(cwd, path, depth) EXCEPT !.p = OrHere(@)]

\* Mutant: the values of the environment are forgotten.
RegenerateAppendFlagGiven(values, env) == values

\* Values of the environment, each where it was last, and then those of the command line.
RegenerateAppendFlag(values, env) ==
    FoldLeft(LAMBDA flags, v : Append(Remove(flags, v), v), <<>>, env) \o values

RegenerateFlags(options, env, cwd) ==
    LET Fix(o, v) == IF o \in Paths THEN FixPath(cwd, v, options.depth) ELSE v
        Env(o) == IF ~options.ignore_environment /\ o \in DOMAIN EnvName THEN env[EnvName[o]] ELSE <<>>
        All(o, l) == [i \in DOMAIN l |-> Fix(o, l[i])]
        Flags(o) ==
            CASE o \in Append_ -> All(o, RegenerateAppendFlag(options[o], Env(o)))
              [] o \in Switches -> IF options[o] THEN <<TRUE>> ELSE <<>>
              [] OTHER -> IF options[o] # Missing(o) THEN <<Fix(o, options[o])>> ELSE All(o, Env(o))
    IN  [o \in DOMAIN options |-> CASE o = "ignore_environment" -> <<TRUE>>
                                    [] o \in Regeneratable -> Flags(o)
                                    [] OTHER -> <<>>]

-----------------------------------------------------------------------------
(* The run.                                                                *)

\* The directory up to the last component src of the first build file that has one.
SrcDirectory(cwd, build_files) ==
    LET Dir(f) == Front(AbsPath(cwd, f))
        Src(f) == {i \in DOMAIN Dir(f) : Dir(f)[i] = "src"}
        with == SelectSeq(build_files, LAMBDA f : Src(f) # {})
    IN  IF with = <<>> THEN Unset
        ELSE [abs |-> TRUE, p |-> SubSeq(Dir(with[1]), 1, CHOOSE i \in Src(with[1]) : \A j \in Src(with[1]) : j <= i)]

FindBuildFiles(cwd) == [i \in DOMAIN BuildFilesIn[cwd] |-> [abs |-> FALSE, p |-> <<BuildFilesIn[cwd][i]>>]]

\* gyp_main up to the loop over the formats.
OptionsOf(r, given) ==
    LET environment == ~given.ignore_environment
        output == IF given.generator_output = Unset /\ environment /\ r.env["GYP_GENERATOR_OUTPUT"] # <<>>
                  THEN r.env["GYP_GENERATOR_OUTPUT"][1] ELSE given.generator_output
        formats == IF given.formats # <<>> THEN given.formats
                   ELSE IF environment /\ r.env["GYP_GENERATORS"] # <<>> THEN r.env["GYP_GENERATORS"] ELSE <<"make">>
        files == IF given.build_files # <<>> THEN given.build_files ELSE FindBuildFiles(r.cwd)
        depth == IF given.depth # Unset THEN given.depth ELSE SrcDirectory(r.cwd, files)
    IN  [given EXCEPT !.generator_output = output, !.formats = formats, !.build_files = files, !.depth = depth,
                      !.parallel = @ \/ (environment /\ r.env["GYP_PARALLEL"] \notin {<<>>, <<"0">>}),
                      !.toplevel_dir = IF @ = Unset THEN depth ELSE @]
Options(r) == OptionsOf(r, ParseArgs(r.args))

\* Load: what the generator asks of the input.
GeneratorInputInfo(format, generator_flags) ==
    [multiple_toolsets |-> format \in {"make", "ninja", "android"},
     sorted_dependencies |-> format = "make" /\ "android_ndk_version" \in DOMAIN generator_flags]

Flags(options, r, o) ==
    NameValueListToDict((IF options.ignore_environment THEN <<>> ELSE r.env[EnvName[o]]) \o options[o])

\* What Load and the generators get, paths resolved.
ParamsOf(r, options) ==
    LET At(o) == IF options[o] = Unset THEN <<>> ELSE AbsPath(r.cwd, options[o])
        Each(l) == [i \in DOMAIN l |-> AbsPath(r.cwd, l[i])]
        generator_flags == (IF options.msvs_version = "" THEN <<>> ELSE "msvs_version" :> options.msvs_version)
                           @@ Flags(options, r, "generator_flags")
    IN  IF \/ options.build_files = <<>> \/ options.depth = Unset
           \/ \E i \in DOMAIN options.configs : options.configs[i] \notin ValidConfigs
        THEN Failed
        ELSE [ok |-> TRUE, build_files |-> Each(options.build_files), formats |-> ToSet(options.formats),
              variables |-> Flags(options, r, "defines"), includes |-> Each(options.includes),
              depth |-> At("depth"), toplevel_dir |-> At("toplevel_dir"), generator_output |-> At("generator_output"),
              generator_flags |-> generator_flags, suffix |-> options.suffix, configs |-> options.configs,
              check |-> options.check, circular_check |-> ~options.no_circular_check, parallel |-> options.parallel,
              input |-> [f \in ToSet(options.formats) |-> GeneratorInputInfo(f, generator_flags)]]
Params(r) == ParamsOf(r, Options(r))

MainInit(r) == /\ run = r
               /\ params = IF r = NoRun THEN Failed ELSE Params(r)
               /\ first = r

\* The directory of the Makefile: os.path.join of generator_output and toplevel_dir.
MakefileDirectory(options, cwd) ==
    AbsPath(cwd, IF options.generator_output = Unset \/ options.toplevel_dir.abs THEN options.toplevel_dir
                 ELSE [options.generator_output EXCEPT !.p = @ \o options.toplevel_dir.p])

\* WriteAutoRegenerationRule, and make running it there in whatever environment.
RegenerateIn(directory, flags, build_files_arg) ==
    LET Off(flag, value) == flag \in DOMAIN params.generator_flags /\ params.generator_flags[flag] = value
    IN  /\ params.ok /\ "make" \in params.formats
        /\ ~Off("standalone", "1") /\ ~Off("auto_regeneration", "0")
        /\ directory \in DOMAIN BuildFilesIn
        /\ run.count < MaxRuns
        /\ \E env \in Environments :
             run' = [cwd |-> directory, env |-> env, count |-> run.count + 1,
                     args |-> [flags EXCEPT !.formats = <<"make">>, !.build_files = build_files_arg]]
        /\ params' = Params(run')
        /\ UNCHANGED first

Regenerate ==
    \E options \in {Options(run)} :
      LET build_files_arg == ParseArgs(run.args).build_files
      IN  RegenerateIn(MakefileDirectory(options, run.cwd), RegenerateFlags(options, run.env, run.cwd),
                       [i \in DOMAIN build_files_arg |-> RelativePath(run.cwd, build_files_arg[i], options.toplevel_dir)])

-----------------------------------------------------------------------------
(* The property.                                                           *)

\* RegenerateFlags: the flags "should regenerate an equivalent options object (even in the
\* absence of the environment variables)".  However often make runs gyp again, and whatever
\* the environment is then, it gets what it got the first time, if the Makefile is in the
\* directory that paths are made relative to: --depth is --toplevel-dir and there is no
\* --generator-output.  Without build files on the command line this holds only of a run
\* in that directory, for gyp takes those it finds where it runs.  --parallel,
\* --no-circular-check and --msvs-version are not kept; with the last the generator flags
\* differ.
RegenerateSame ==
    LET before == Params(first)
        Kept == {"build_files", "variables", "includes", "depth", "toplevel_dir", "generator_flags", "suffix",
                 "configs", "check"}
    IN  run # NoRun /\ before.ok /\ before.depth = before.toplevel_dir /\ before.generator_output = <<>>
        /\ first.args["msvs_version"] = <<>> /\ (first.args["build_files"] # <<>> \/ first.cwd = before.depth)
        => /\ params.ok
           /\ \A o \in Kept : params[o] = before[o]
           /\ "make" \in before.formats => params.input["make"] = before.input["make"]
=============================================================================

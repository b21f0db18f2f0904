---------------------------- MODULE StageRecipes ----------------------------
(***************************************************************************)
(* What the two clients of the build executor ask it to run: the flat      *)
(* adapter build() of priv/tools/compile_xls.py and the bundle driver of   *)
(* priv/tools/compile_source_build.py.  A recipe is a sequence of stages   *)
(* with declared inputs; the cache key of a stage names its arguments and  *)
(* the hashes of exactly those inputs.                                     *)
(*                                                                         *)
(* A directory is its path from the root of the snapshot; a file is its    *)
(* directory, name and suffix; an option of a command line is its key, its *)
(* value and the file it names, if any.                                    *)
(***************************************************************************)
EXTENDS Integers, Sequences, FiniteSets, SequencesExt, FiniteSetsExt

File(dir, name, ext) == [dir |-> dir, name |-> name, ext |-> ext]
Here == << >>
Stdlib == <<"_stdlib">>
Shelf == <<"assets">>
NoFile == File(Here, "", "")
Option(key, value, file) == [key |-> key, value |-> value, file |-> file]
Positional(file) == Option("", "", file)

(* Stage: id, tool, the options, the import roots, output and inputs.      *)
Stage(id, tool, options, roots, output, inputs) ==
    [id |-> id, tool |-> tool, options |-> options, roots |-> roots,
     output |-> output, inputs |-> inputs]

-----------------------------------------------------------------------------
(* The executor's own checks.                                              *)

Reserved == {File(Here, "stderr", "log"), File(Here, "time", "json"),
             File(Here, "command", "json"), File(Here, "execution-inputs", "json")}
Completed == File(Here, "completed", "json")

(* The modules of a set of files that an import can name: those at and     *)
(* below the import roots.                                                 *)
Importable(files, roots) ==
    {f \in files : f.ext = "x" /\ \E root \in roots : IsPrefix(root, f.dir)}

Diagnostic(id, name) == File(Here, id, name)
Diagnostics(id) == {Diagnostic(id, n) : n \in {"stderr.log", "time.json", "command.json"}}

AllDiagnostics(stages) == UNION {Diagnostics(stages[n].id) : n \in DOMAIN stages}

Outputs(stages) == {stages[n].output : n \in DOMAIN stages}

(* execute() refuses reserved inputs, specifications() everything that two *)
(* owners would write.                                                     *)
Specified(files, stages) ==
    /\ files \cap Reserved = {}
    /\ stages # << >>
    /\ AllDiagnostics(stages) \cap files = {}
    /\ Outputs(stages) \cap (files \cup AllDiagnostics(stages) \cup Reserved) = {}
    /\ \A m, n \in DOMAIN stages : m # n =>
         stages[m].id # stages[n].id /\ stages[m].output # stages[n].output

(* "selected" pairs release files with files of the snapshot; the          *)
(* diagnostics of the stages are added to it.                              *)
Destinations(selected) == {p[1] : p \in selected}
Same(S) == {<<f, f>> : f \in S}

Publishable(stages, manifest, selected) ==
    /\ {manifest, Completed} \cap Destinations(selected) = {}
    /\ manifest \notin AllDiagnostics(stages) \cup {Completed}
    /\ \A p \in selected : p[1] \in AllDiagnostics(stages) => p[2] = p[1]

-----------------------------------------------------------------------------
(* build(): sources and assets are names; r.flags is a literal schedule or *)
(* << >> with r.legacy for the one of the adapter.                         *)

TableFile == File(Shelf, "xc7_delay_table", "tsv")
PipelineFile == File(Shelf, "optimizer_pipeline", "txtpb")

Owned == {"--ram_configurations", "--xc7_delay_table", "--module_name", "--output_verilog_path"}
Late == {"--additional_channel_delay_ps", "--worst_case_throughput"}

CheckedFlags(flags) == \A n \in DOMAIN flags : flags[n].key \notin Owned

LegacyFlags(r) ==
    <<Option("--pipeline_stages", "1", NoFile), Option("--delay_model", r.model, NoFile),
      Option("--fifo_module", "", NoFile)>>
    \o (IF r.delays THEN <<Option("--additional_channel_delay_ps", "c", NoFile)>> ELSE << >>)
    \o (IF r.interval THEN <<Option("--worst_case_throughput", "1", NoFile)>> ELSE << >>)

Flags(r) == IF r.legacy THEN LegacyFlags(r) ELSE r.flags

(* with_delay_table(): the last model counts; the table goes before the    *)
(* channel delays and the interval.                                        *)
Models(flags) == SelectSeq(flags, LAMBDA o : o.key = "--delay_model")
UsesTable(flags) == Models(flags) # << >> /\ Last(Models(flags)).value = "xc7_7030"

WithTable(flags, table) ==
    LET late == {n \in DOMAIN flags : flags[n].key \in Late}
        at == IF late = {} THEN Len(flags) + 1 ELSE Min(late)
    IN IF table THEN InsertAt(flags, at, Option("--xc7_delay_table", "", TableFile)) ELSE flags

AssetFiles(r) ==
    {[a EXCEPT !.dir = Shelf] : a \in Range(r.assets)}
    \cup (IF r.table THEN {TableFile} ELSE {})
    \cup (IF r.optimizer THEN {PipelineFile} ELSE {})

FlatFiles(r) == r.sources \cup r.stdlib \cup AssetFiles(r)

FlatAccepted(r) ==
    /\ ~r.legacy => r.model = "unit" /\ ~r.delays /\ ~r.interval /\ CheckedFlags(r.flags)
    /\ UsesTable(Flags(r)) = r.table
    /\ r.main \in r.sources
    /\ IsInjective(r.assets)
    /\ Range(r.assets) \cap r.sources = {}
    /\ r.table => [TableFile EXCEPT !.dir = Here] \notin Range(r.assets)
    /\ r.optimizer => [PipelineFile EXCEPT !.dir = Here] \notin Range(r.assets)

(* Mutant: the table is an argument but not part of the cache key. *)
CodegenInputsWithoutTable(r) == {File(Here, r.name, "opt.ir")}

CodegenInputs(r) ==
    {File(Here, r.name, "opt.ir")} \cup (IF r.table THEN {TableFile} ELSE {})

FlatStages(r) ==
    LET Product(ext) == File(Here, r.name, ext)
        optimizer == IF r.optimizer THEN {PipelineFile} ELSE {}
    IN <<Stage("ir", "ir_converter_main", <<Positional(r.main)>>, {Here, Stdlib},
               Product("ir"), r.sources \cup r.stdlib),
         Stage("opt", "opt_main",
               (IF r.optimizer THEN <<Option("--pipeline_textproto", "", PipelineFile)>> ELSE << >>)
                 \o <<Positional(Product("ir"))>>, {},
               Product("opt.ir"), {Product("ir")} \cup optimizer),
         Stage("codegen", "codegen_main",
               WithTable(Flags(r), r.table)
                 \o (IF r.rams THEN <<Option("--ram_configurations", "", NoFile)>> ELSE << >>)
                 \o <<Positional(Product("opt.ir"))>>, {},
               Product("v"), CodegenInputs(r))>>

(* finish(): products and assets lie at the root of the release, where an  *)
(* asset may not take the name of a product or of the manifest.            *)
FlatManifest(r) == File(Here, r.name, "build.json")

FlatUnshadowed(r) ==
    {[a EXCEPT !.dir = Here] : a \in AssetFiles(r)}
      \cap (Outputs(FlatStages(r)) \cup {FlatManifest(r)}) = {}

FlatSelected(r) ==
    Same(Outputs(FlatStages(r)))
      \cup {<<[a EXCEPT !.dir = Here], a>> : a \in AssetFiles(r)}
      \cup {<<[s EXCEPT !.dir = <<"sources">>], s>> : s \in r.sources}
      \cup {<<[s EXCEPT !.dir = <<"stdlib">>], s>> : s \in r.stdlib}

-----------------------------------------------------------------------------
(* plan_build() and compile_build(): b.inputs are the files the manifest   *)
(* binds, b.present those that lie in the bundle, a unit is [dir, source,  *)
(* output, roots], b.rtl the listed files of each role.                    *)

BundleManifest == File(Here, "source-build", "json")
Summary == File(Here, "compiled", "json")

Steps == <<"convert", "opt", "codegen">>
Logs(unit) == {File(unit.dir, Steps[k], "log") : k \in 1 .. 3}
Raw(unit) == File(unit.dir, "raw", "ir")
Optimized(unit) == File(unit.dir, "optimized", "ir")
CommandsFile(unit) == File(unit.dir, "commands", "json")
Listing(role) == File(role, "files", "f")

UnitNames(unit) ==
    Logs(unit) \cup {Raw(unit), Optimized(unit), unit.output, CommandsFile(unit)}

(* Mutant: products are compared with the inputs only. *)
UnitAcceptedAlone(b, n) ==
    LET unit == b.units[n] IN
    /\ unit.source \in b.inputs
    /\ Cardinality(UnitNames(unit)) = 7
    /\ UnitNames(unit) \cap b.inputs = {}
    /\ \A m \in 1 .. n - 1 : b.units[m].dir # unit.dir
    /\ Importable(b.present, unit.roots) \subseteq b.inputs

(* One unit: a bound source, a directory of its own, every module that its *)
(* import roots hold is bound, and products that nobody else has.          *)
UnitAccepted(b, n) ==
    LET unit == b.units[n] IN
    /\ unit.source \in b.inputs
    /\ \A m \in 1 .. n - 1 : b.units[m].dir # unit.dir
    /\ Importable(b.present, unit.roots) \subseteq b.inputs
    /\ Cardinality(UnitNames(unit)) = 7
    /\ UnitNames(unit) \cap (b.inputs \cup UNION {UnitNames(b.units[m]) : m \in 1 .. n - 1}) = {}

Products(b) == UNION {UnitNames(b.units[n]) : n \in DOMAIN b.units}

BundleAccepted(b) ==
    /\ \A n \in DOMAIN b.units : UnitAccepted(b, n)
    /\ \A role \in DOMAIN b.rtl :
         /\ b.rtl[role] \subseteq b.inputs \cup Products(b)
         /\ Listing(role) \notin b.inputs \cup Products(b)
    /\ {Summary, BundleManifest} \cap b.inputs = {}

BundleFiles(b) == b.inputs \cup {BundleManifest} \cup b.stdlib

UnitId(n, k) == Steps[k] \o ToString(n)

UnitStages(b, n) ==
    LET unit == b.units[n]
        modules == {f \in b.inputs : f.ext = "x"}
    IN <<Stage(UnitId(n, 1), "ir_converter_main", <<Positional(unit.source)>>,
               unit.roots \cup {Stdlib}, Raw(unit), modules \cup b.stdlib),
         Stage(UnitId(n, 2), "opt_main", <<Positional(Raw(unit))>>, {}, Optimized(unit), {Raw(unit)}),
         Stage(UnitId(n, 3), "codegen_main", <<Positional(Optimized(unit))>>, {}, unit.output,
               {Optimized(unit)})>>

BundleStages(b) == FlattenSeq([n \in DOMAIN b.units |-> UnitStages(b, n)])

(* finalize(): the logs of a unit are the stages' stderr; command records  *)
(* and role listings are written into the snapshot.                        *)
BundleWritten(b) ==
    {CommandsFile(b.units[n]) : n \in DOMAIN b.units} \cup {Listing(role) : role \in DOMAIN b.rtl}

BundleSelected(b) ==
    Same(BundleFiles(b)) \cup Same(Outputs(BundleStages(b))) \cup Same(BundleWritten(b))
      \cup {<<File(b.units[x[1]].dir, Steps[x[2]], "log"),
              Diagnostic(UnitId(x[1], x[2]), "stderr.log")>> : x \in (DOMAIN b.units) \X (1 .. 3)}

-----------------------------------------------------------------------------
(* Properties.                                                             *)

(* What the tool of a stage can read: the files its command line names,    *)
(* and every module below its import roots, among the files that exist     *)
(* when it runs.                                                           *)
Visible(files, stages, n) == files \cup {stages[m].output : m \in 1 .. n - 1}

Reads(files, stages, n) ==
    ({stages[n].options[k].file : k \in DOMAIN stages[n].options} \ {NoFile})
    \cup Importable(Visible(files, stages, n), stages[n].roots)

(* Each stage reads only what its cache key names, "apart" aside. *)
Keyed(files, stages, apart) ==
    \A n \in DOMAIN stages : Reads(files, stages, n) \subseteq stages[n].inputs \cup apart

(* A recipe that passed all checks: each stage is given only what is       *)
(* there, whatever is published has one source that exists, and neither    *)
(* products nor what finalize() writes touch an input.                     *)
Coherent(files, stages, written, selected) ==
    /\ \A n \in DOMAIN stages : stages[n].inputs \subseteq Visible(files, stages, n)
    /\ (Outputs(stages) \cup written) \cap files = {}
    /\ Outputs(stages) \cap written = {}
    /\ \A p, q \in selected : p[1] = q[1] => p[2] = q[2]
    /\ \A p \in selected :
         p[2] \in files \cup Outputs(stages) \cup written \cup AllDiagnostics(stages)

FlatChecked(r) ==
    /\ FlatAccepted(r) /\ Specified(FlatFiles(r), FlatStages(r)) /\ FlatUnshadowed(r)
    /\ Publishable(FlatStages(r), FlatManifest(r), FlatSelected(r))

(* Modules among the assets: below the import root ".", in no key.         *)
AssetModules(r) == {a \in AssetFiles(r) : a.ext = "x"}

(* build(): nothing is lost either, and the delay table is passed exactly  *)
(* when the last model of the schedule is the one that needs it.           *)
FlatSound(r) ==
    LET files == FlatFiles(r)  stages == FlatStages(r)  selected == FlatSelected(r) IN
    FlatChecked(r) =>
        /\ Keyed(files, stages, AssetModules(r))
        /\ Coherent(files, stages, {}, selected)
        /\ files \cup Outputs(stages) \subseteq {p[2] : p \in selected}
        /\ (\E k \in DOMAIN stages[3].options : stages[3].options[k].file = TableFile)
             <=> UsesTable(stages[3].options)

(* Every staged module the converter can import is in the key of IR        *)
(* conversion.                                                             *)
FlatImportsKeyed(r) == FlatChecked(r) => Keyed(FlatFiles(r), FlatStages(r), {})

(* compile_build(): every file of the snapshot keeps its name, and what a  *)
(* role lists is part of the release.                                      *)
BundleSound(b) ==
    LET files == BundleFiles(b)  stages == BundleStages(b)  selected == BundleSelected(b) IN
    BundleAccepted(b) /\ Specified(files, stages) /\ Publishable(stages, Summary, selected) =>
        /\ Keyed(files, stages, {})
        /\ Coherent(files, stages, BundleWritten(b), selected)
        /\ \A role \in DOMAIN b.rtl : b.rtl[role] \subseteq Destinations(selected)
        /\ Same(files \cup Outputs(stages) \cup BundleWritten(b)) \subseteq selected

=============================================================================

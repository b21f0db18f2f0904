--------------------------- MODULE BuildExecutor ---------------------------
(***************************************************************************)
(* The build executor of priv/tools/compile_xls.py (execute, stage, run,   *)
(* locked, checked) with the bundle driver compile_source_build.py on top. *)
(* Several builds run at once.  They share one checked cache of stage      *)
(* products, each owns the lock of the output it publishes, and any of     *)
(* them may be killed between two steps; sources, the compiler and stored  *)
(* files may change under them.                                            *)
(*                                                                         *)
(* Contents are abstract: bytes are known by their lineage (the sources    *)
(* and the compiler runs they come from), a release by what it holds, so   *)
(* equal values stand for equal SHA-256.                                   *)
(* Versions of sources and of the compiler only grow: an installation      *)
(* that is changed and restored while one stage runs is not modelled.      *)
(***************************************************************************)
EXTENDS Integers, Sequences, FiniteSets

CONSTANTS
    Build,      \* the processes that build, known by their process ids
    Output,     \* the managed output links
    Bundle,     \* the outputs compiled from a sealed source bundle
    Input,      \* the frozen input files of an output
    Stages,     \* the number of compiler stages of a recipe
    Salt,       \* the byte-level choices a compiler run makes (node ids)
    None,
    MaxChanges, MaxStarts   \* bounds: changes around the builds, builds begun

ASSUME BundleAssumption == Bundle \subseteq Output
ASSUME StagesAssumption == Stages \in Nat \ {0}
ASSUME InputAssumption == Input # {}

VARIABLES
    source,     \* source[o][i]: version of an input file, as users edit it
    manifest,   \* manifest[o]: the versions source-build.json binds
    tool,       \* version of the installed compiler
    cache,      \* key -> [bytes, whole]: entries under the cache directory
    releases,   \* releases[o]: the complete releases in .<output>-releases
    broken,     \* broken[o]: the releases whose files were damaged
    selected,   \* selected[o]: the release the output link names
    links,      \* links[o]: the .publish-<pid> links present beside o
    report,     \* report[o]: the last <output>.run.json
    proc,       \* proc[b]: the private state of a build
    used,       \* how much of the two bounds is used
    sealed,     \* history: the manifests every bundle was sealed with
    damaged     \* history: the keys and releases damaged so far

vars == <<source, manifest, tool, cache, releases, broken, selected, links,
          report, proc, used, sealed, damaged>>
environment == <<source, manifest, tool, used, sealed, damaged>>
published == <<releases, broken, selected, links, report>>

Versions == [Input -> Nat]
NoVersions == [i \in Input |-> 0]

(* Bytes: the snapshot and one run of the compiler per stage behind them. *)
Run == [by : Nat, salt : Salt]
Lineage == [inputs : Versions, runs : Seq(Run)]
Keys == [tool : Nat, from : Lineage]
Release == [inputs : Versions, tool : Nat, products : Seq(Lineage)]

(* A build that owns its output lock is at one of these steps. *)
Owning == {"hash", "copy", "prepare", "lookup", "launch", "compiling",
           "verify", "wait", "publish", "tools", "finalize", "recheck",
           "release", "link", "switch", "report"}

(* Everything a build knows privately. "made" is the compiler that really  *)
(* ran, "work" the bytes in its attempt directory, "lock" the cache entry  *)
(* whose publication lock it holds.                                        *)
Idle == [at |-> "idle", out |-> None, plan |-> NoVersions, planTool |-> 0,
         tools |-> 0, copied |-> {}, snap |-> NoVersions, products |-> << >>,
         key |-> None, made |-> 0, work |-> None, lock |-> None,
         release |-> None, before |-> None]

(* The status of <output>.run.json, and for the record what the output     *)
(* named when the build took its lock and when the report was written.     *)
NoReport == [status |-> "none", before |-> None, left |-> None]

Init ==
    /\ source = [o \in Output |-> NoVersions]
    /\ manifest = [o \in Output |-> NoVersions]
    /\ tool = 0
    /\ cache = [k \in {} |-> None]
    /\ releases = [o \in Output |-> {}]
    /\ broken = [o \in Output |-> {}]
    /\ selected = [o \in Output |-> None]
    /\ links = [o \in Output |-> {}]
    /\ report = [o \in Output |-> NoReport]
    /\ proc = [b \in Build |-> Idle]
    /\ used = [changes |-> 0, starts |-> 0]
    /\ sealed = [o \in Output |-> {NoVersions}]
    /\ damaged = {}

-----------------------------------------------------------------------------
(* Keys, products and checks.                                              *)

(* stage(): the key of the stage a build is about to run names the tool's  *)
(* bytes and the exact inputs: the snapshot, or the preceding product.     *)
Inputs(p) ==
    IF p.products = << >> THEN [inputs |-> p.snap, runs |-> << >>]
    ELSE p.products[Len(p.products)]

Key(p, t) == [tool |-> t, from |-> Inputs(p)]

(* The bytes a run writes: determined by stage, compiler and input, up to  *)
(* the choices the compiler makes.                                         *)
Product(from, t, salt) ==
    [from EXCEPT !.runs = Append(@, [by |-> t, salt |-> salt])]

(* checked(): an entry is trusted only with matching hashes throughout. *)
Checked(k) == k \in DOMAIN cache /\ cache[k].whole

Store(k, entry) ==
    [x \in DOMAIN cache \cup {k} |-> IF x = k THEN entry ELSE cache[x]]

Unstore(k) == [x \in DOMAIN cache \ {k} |-> cache[x]]

(* locked(wait=False) and locked(wait=True): flock belongs to the process. *)
OutputLocked(o) == \E c \in Build : proc[c].out = o /\ proc[c].at \in Owning
EntryLocked(k) == \E c \in Build : proc[c].lock = k

(* The next stage of the recipe, or the checks that follow the last one. *)
Advance(p, bytes) ==
    [p EXCEPT !.products = Append(@, bytes), !.lock = None, !.key = None,
              !.work = None, !.made = 0,
              !.at = IF Len(p.products) + 1 < Stages THEN "lookup" ELSE "tools"]

(* execute()'s except and finally clauses: the locks go, the failure is    *)
(* reported and the previous release is said to be retained.               *)
Fails(b) ==
    LET o == proc[b].out IN
    /\ proc' = [proc EXCEPT ![b] = Idle]
    /\ report' = [report EXCEPT ![o] =
                    [status |-> "failed", before |-> proc[b].before, left |-> selected[o]]]

-----------------------------------------------------------------------------
(* Planning, and execute() up to the first stage.                          *)

(* plan_build(): every bound input must have the digest of the manifest.   *)
Plan(b, o) ==
    /\ proc[b].at = "idle"
    /\ o \in Bundle
    /\ used.starts < MaxStarts
    /\ source[o] = manifest[o]
    /\ proc' = [proc EXCEPT ![b] = [Idle EXCEPT !.at = "planned", !.out = o,
                                      !.plan = manifest[o], !.planTool = tool]]
    /\ used' = [used EXCEPT !.starts = @ + 1]
    /\ UNCHANGED <<source, manifest, tool, sealed, damaged, cache, published>>

(* A flat build has no plan: it opens with the output lock. *)
Begin(b, o) ==
    /\ proc[b].at = "idle"
    /\ o \notin Bundle
    /\ used.starts < MaxStarts
    /\ used' = [used EXCEPT !.starts = @ + 1]
    /\ proc' = [proc EXCEPT ![b] = [Idle EXCEPT !.at = "planned", !.out = o]]
    /\ UNCHANGED <<source, manifest, tool, sealed, damaged, cache, published>>

(* The output lock is taken at once or the build is refused. *)
TakeOutput(b) ==
    /\ proc[b].at = "planned"
    /\ proc' = [proc EXCEPT ![b] =
                  IF OutputLocked(proc[b].out) THEN Idle
                  ELSE [@ EXCEPT !.at = "hash", !.before = selected[proc[b].out]]]
    /\ UNCHANGED <<environment, cache, published>>

HashTools(b) ==
    /\ proc[b].at = "hash"
    /\ proc' = [proc EXCEPT ![b] = [@ EXCEPT !.at = "copy", !.tools = tool]]
    /\ UNCHANGED <<environment, cache, published>>

(* snapshot_files(): private copies, one file after the other. *)
CopyInput(b, i) ==
    LET p == proc[b] IN
    /\ p.at = "copy"
    /\ i \notin p.copied
    /\ proc' = [proc EXCEPT ![b] = [@ EXCEPT !.snap[i] = source[p.out][i],
                            !.copied = p.copied \cup {i},
                            !.at = IF p.copied \cup {i} = Input THEN "prepare" ELSE "copy"]]
    /\ UNCHANGED <<environment, cache, published>>

(* Mutant: what was copied is not compared with the plan. *)
PrepareAny(b) ==
    /\ proc[b].at = "prepare"
    /\ proc' = [proc EXCEPT ![b] = [@ EXCEPT !.at = "lookup"]]
    /\ UNCHANGED <<environment, cache, published>>

(* prepare(): a bundle rejects what changed since it was planned. *)
Prepare(b) ==
    LET p == proc[b] IN
    /\ p.at = "prepare"
    /\ p.out \in Bundle => p.snap = p.plan /\ tool = p.planTool
    /\ proc' = [proc EXCEPT ![b] = [@ EXCEPT !.at = "lookup"]]
    /\ UNCHANGED <<environment, cache, published>>

RejectPlan(b) ==
    LET p == proc[b] IN
    /\ p.at = "prepare"
    /\ p.out \in Bundle
    /\ p.snap # p.plan \/ tool # p.planTool
    /\ Fails(b)
    /\ UNCHANGED <<environment, cache, releases, broken, selected, links>>

-----------------------------------------------------------------------------
(* stage(): reuse a checked entry, or run the compiler and publish.        *)

(* The bytes are copied out right after the check; damage between the two  *)
(* is outside the model.                                                   *)
Reuse(b) ==
    LET p == proc[b]  k == Key(p, tool) IN
    /\ p.at = "lookup"
    /\ Checked(k)
    /\ proc' = [proc EXCEPT ![b] = Advance(p, cache[k].bytes)]
    /\ UNCHANGED <<environment, cache, published>>

Miss(b) ==
    LET p == proc[b]  k == Key(p, tool) IN
    /\ p.at = "lookup"
    /\ ~Checked(k)
    /\ proc' = [proc EXCEPT ![b] = [@ EXCEPT !.at = "launch", !.key = k]]
    /\ UNCHANGED <<environment, cache, published>>

(* run(): Popen reads whatever compiler is installed by now. *)
Launch(b) ==
    /\ proc[b].at = "launch"
    /\ proc' = [proc EXCEPT ![b] = [@ EXCEPT !.at = "compiling", !.made = tool]]
    /\ UNCHANGED <<environment, cache, published>>

CompilerDone(b, salt) ==
    LET p == proc[b] IN
    /\ p.at = "compiling"
    /\ proc' = [proc EXCEPT ![b] = [@ EXCEPT !.at = "verify", !.work = Product(p.key.from, p.made, salt)]]
    /\ UNCHANGED <<environment, cache, published>>

(* Mutant: the compiler's bytes are not compared again after the run. *)
AnyCompiler(b) ==
    /\ proc[b].at = "verify"
    /\ proc' = [proc EXCEPT ![b] = [@ EXCEPT !.at = "wait"]]
    /\ UNCHANGED <<environment, cache, published>>

(* "compiler changed during <stage>" *)
SameCompiler(b) ==
    /\ proc[b].at = "verify"
    /\ tool = proc[b].key.tool
    /\ proc' = [proc EXCEPT ![b] = [@ EXCEPT !.at = "wait"]]
    /\ UNCHANGED <<environment, cache, published>>

ChangedCompiler(b) ==
    /\ proc[b].at = "verify"
    /\ tool # proc[b].key.tool
    /\ Fails(b)
    /\ UNCHANGED <<environment, cache, releases, broken, selected, links>>

LockEntry(b) ==
    /\ proc[b].at = "wait"
    /\ ~EntryLocked(proc[b].key)
    /\ proc' = [proc EXCEPT ![b] = [@ EXCEPT !.at = "publish", !.lock = proc[b].key]]
    /\ UNCHANGED <<environment, cache, published>>

(* Mutant: only an entry that was there at the lookup is adopted. *)
AdoptNone(b) ==
    LET p == proc[b] IN
    /\ p.at = "publish" /\ Checked(p.key)
    /\ cache' = Store(p.key, [bytes |-> p.work, whole |-> TRUE])
    /\ proc' = [proc EXCEPT ![b] = Advance(p, p.work)]
    /\ UNCHANGED <<environment, published>>

(* A winner published first: its bytes replace the loser's. *)
Adopt(b) ==
    LET p == proc[b] IN
    /\ p.at = "publish"
    /\ Checked(p.key)
    /\ proc' = [proc EXCEPT ![b] = Advance(p, cache[p.key].bytes)]
    /\ UNCHANGED <<environment, cache, published>>

(* entry.rename(...damaged-...): a crash here leaves no entry at all. *)
SetAside(b) ==
    LET p == proc[b] IN
    /\ p.at = "publish"
    /\ p.key \in DOMAIN cache /\ ~cache[p.key].whole
    /\ cache' = Unstore(p.key)
    /\ UNCHANGED <<environment, published, proc>>

Install(b) ==
    LET p == proc[b] IN
    /\ p.at = "publish"
    /\ p.key \notin DOMAIN cache
    /\ cache' = Store(p.key, [bytes |-> p.work, whole |-> TRUE])
    /\ proc' = [proc EXCEPT ![b] = Advance(p, p.work)]
    /\ UNCHANGED <<environment, published>>

-----------------------------------------------------------------------------
(* execute() after the last stage: checks, release directory, link.        *)

(* "compiler installation changed during build" *)
SameTools(b) ==
    /\ proc[b].at = "tools"
    /\ tool = proc[b].tools
    /\ proc' = [proc EXCEPT ![b] = [@ EXCEPT !.at = "finalize"]]
    /\ UNCHANGED <<environment, cache, published>>

(* finalize(): the manifest names the inputs, the tools and the products.  *)
(* A bundle records the tools of its plan, a flat build hashes them again. *)
Finalize(b) ==
    LET p == proc[b] IN
    /\ p.at = "finalize"
    /\ proc' = [proc EXCEPT ![b] = [@ EXCEPT !.at = "recheck",
                  !.release = [inputs |-> p.snap, products |-> p.products,
                                  tool |-> IF p.out \in Bundle THEN p.planTool ELSE tool]]]
    /\ UNCHANGED <<environment, cache, published>>

(* "compiler installation changed during finalization" *)
SameToolsAgain(b) ==
    /\ proc[b].at = "recheck"
    /\ tool = proc[b].tools
    /\ proc' = [proc EXCEPT ![b] = [@ EXCEPT !.at = "release"]]
    /\ UNCHANGED <<environment, cache, published>>

ChangedTools(b) ==
    /\ proc[b].at \in {"tools", "recheck"}
    /\ tool # proc[b].tools
    /\ Fails(b)
    /\ UNCHANGED <<environment, cache, releases, broken, selected, links>>

SetReleaseAside(b) ==
    LET p == proc[b] IN
    /\ p.at = "release"
    /\ p.release \in broken[p.out]
    /\ broken' = [broken EXCEPT ![p.out] = @ \ {p.release}]
    /\ UNCHANGED <<environment, cache, proc, releases, selected, links, report>>

(* Mutant: the pending directory is never renamed into place. *)
InstallPending(b) ==
    LET p == proc[b] IN
    /\ p.at = "release"
    /\ p.release \notin broken[p.out]
    /\ proc' = [proc EXCEPT ![b] = [@ EXCEPT !.at = "link"]]
    /\ UNCHANGED <<environment, cache, broken, selected, links, report, releases>>

(* An identical complete release is kept, otherwise one rename installs it. *)
InstallRelease(b) ==
    LET p == proc[b] IN
    /\ p.at = "release"
    /\ p.release \notin broken[p.out]
    /\ releases' = [releases EXCEPT ![p.out] = @ \cup {p.release}]
    /\ proc' = [proc EXCEPT ![b] = [@ EXCEPT !.at = "link"]]
    /\ UNCHANGED <<environment, cache, broken, selected, links, report>>

MakeLink(b) ==
    LET p == proc[b] IN
    /\ p.at = "link"
    /\ b \notin links[p.out]
    /\ links' = [links EXCEPT ![p.out] = @ \cup {b}]
    /\ proc' = [proc EXCEPT ![b] = [@ EXCEPT !.at = "switch"]]
    /\ UNCHANGED <<environment, cache, releases, broken, selected, report>>

(* A killed build with this process id left its link: symlink_to raises,   *)
(* and the finally clause removes the stale link.                          *)
StaleLink(b) ==
    LET p == proc[b] IN
    /\ p.at = "link"
    /\ b \in links[p.out]
    /\ links' = [links EXCEPT ![p.out] = @ \ {b}]
    /\ Fails(b)
    /\ UNCHANGED <<environment, cache, releases, broken, selected>>

(* os.replace(link, output) *)
Switch(b) ==
    LET p == proc[b] IN
    /\ p.at = "switch"
    /\ selected' = [selected EXCEPT ![p.out] = p.release]
    /\ links' = [links EXCEPT ![p.out] = @ \ {b}]
    /\ proc' = [proc EXCEPT ![b] = [@ EXCEPT !.at = "report"]]
    /\ UNCHANGED <<environment, cache, releases, broken, report>>

Complete(b) ==
    LET p == proc[b] IN
    /\ p.at = "report"
    /\ report' = [report EXCEPT ![p.out] =
                    [status |-> "complete", before |-> p.before, left |-> selected[p.out]]]
    /\ proc' = [proc EXCEPT ![b] = Idle]
    /\ UNCHANGED <<environment, cache, releases, broken, selected, links>>

-----------------------------------------------------------------------------
(* Failures of a build, and its environment.                               *)

(* Any exception while the output is owned: the compiler fails, prints     *)
(* nothing or exceeds its timeout, a file operation fails, SIGTERM.        *)
Raise(b) ==
    LET p == proc[b] IN
    /\ p.at \in Owning
    /\ Fails(b)
    /\ links' = [links EXCEPT ![p.out] = IF p.at = "switch" THEN @ \ {b} ELSE @]
    /\ UNCHANGED <<environment, cache, releases, broken, selected>>

(* Mutant: a lock file that outlives its process. *)
CrashLocked(b) ==
    /\ proc[b].at # "idle"
    /\ proc' = [proc EXCEPT ![b] = [Idle EXCEPT !.lock = proc[b].lock]]
    /\ UNCHANGED <<environment, cache, published>>

(* SIGKILL or power: the kernel drops the locks, files stay as they are. *)
Crash(b) ==
    /\ proc[b].at # "idle"
    /\ proc' = [proc EXCEPT ![b] = Idle]
    /\ UNCHANGED <<environment, cache, published>>

Edit(o, i) ==
    /\ used.changes < MaxChanges
    /\ used' = [used EXCEPT !.changes = @ + 1]
    /\ source' = [source EXCEPT ![o][i] = @ + 1]
    /\ UNCHANGED <<manifest, tool, sealed, damaged, cache, published, proc>>

(* The emitter binds the present sources in a new source-build.json. *)
Seal(o) ==
    /\ o \in Bundle
    /\ manifest[o] # source[o]
    /\ manifest' = [manifest EXCEPT ![o] = source[o]]
    /\ sealed' = [sealed EXCEPT ![o] = @ \cup {source[o]}]
    /\ UNCHANGED <<source, tool, used, damaged, cache, published, proc>>

Upgrade ==
    /\ used.changes < MaxChanges
    /\ used' = [used EXCEPT !.changes = @ + 1]
    /\ tool' = tool + 1
    /\ UNCHANGED <<source, manifest, sealed, damaged, cache, published, proc>>

DamageEntry(k) ==
    /\ used.changes < MaxChanges
    /\ Checked(k)
    /\ used' = [used EXCEPT !.changes = @ + 1]
    /\ cache' = Store(k, [cache[k] EXCEPT !.whole = FALSE])
    /\ damaged' = damaged \cup {k}
    /\ UNCHANGED <<source, manifest, tool, sealed, published, proc>>

DamageRelease(o, r) ==
    /\ used.changes < MaxChanges
    /\ used' = [used EXCEPT !.changes = @ + 1]
    /\ releases' = [releases EXCEPT ![o] = @ \ {r}]
    /\ broken' = [broken EXCEPT ![o] = @ \cup {r}]
    /\ damaged' = damaged \cup {r}
    /\ UNCHANGED <<source, manifest, tool, sealed, cache, selected, links, report, proc>>

-----------------------------------------------------------------------------
Step(b) ==
    \/ TakeOutput(b) \/ HashTools(b) \/ (\E i \in Input : CopyInput(b, i))
    \/ Prepare(b) \/ RejectPlan(b)
    \/ Reuse(b) \/ Miss(b) \/ Launch(b) \/ (\E salt \in Salt : CompilerDone(b, salt))
    \/ SameCompiler(b) \/ ChangedCompiler(b) \/ LockEntry(b)
    \/ Adopt(b) \/ SetAside(b) \/ Install(b)
    \/ SameTools(b) \/ Finalize(b) \/ SameToolsAgain(b) \/ ChangedTools(b)
    \/ SetReleaseAside(b) \/ InstallRelease(b)
    \/ MakeLink(b) \/ StaleLink(b) \/ Switch(b) \/ Complete(b)

Surroundings ==
    \/ \E o \in Output, i \in Input : Edit(o, i)
    \/ \E o \in Output : Seal(o)
    \/ Upgrade
    \/ \E k \in DOMAIN cache : DamageEntry(k)
    \/ \E o \in Output : \E r \in releases[o] : DamageRelease(o, r)

Next ==
    \/ \E b \in Build : Step(b) \/ Raise(b) \/ Crash(b)
    \/ \E b \in Build, o \in Output : Plan(b, o) \/ Begin(b, o)
    \/ Surroundings

Spec == Init /\ [][Next]_vars

(* A build that can take a step takes one: nothing in execute() waits but  *)
(* a cache publication, whose holder never waits, and run() bounds the     *)
(* compiler by its timeout.                                                *)
FairSpec == Spec /\ \A b \in Build : WF_vars(Step(b))

-----------------------------------------------------------------------------
Steps == Owning \cup {"idle", "planned"}

TypeOK ==
    /\ source \in [Output -> Versions]
    /\ manifest \in [Output -> Versions]
    /\ tool \in Nat
    /\ DOMAIN cache \subseteq Keys
    /\ \A k \in DOMAIN cache : cache[k] \in [bytes : Lineage, whole : BOOLEAN]
    /\ releases \in [Output -> SUBSET Release]
    /\ broken \in [Output -> SUBSET Release]
    /\ selected \in [Output -> Release \cup {None}]
    /\ links \in [Output -> SUBSET Build]
    /\ report \in [Output -> [status : {"none", "complete", "failed"},
                              before : Release \cup {None}, left : Release \cup {None}]]
    /\ proc \in [Build -> [at : Steps, out : Output \cup {None}, plan : Versions,
                           planTool : Nat, tools : Nat, copied : SUBSET Input,
                           snap : Versions, products : Seq(Lineage),
                           key : Keys \cup {None}, made : Nat,
                           work : Lineage \cup {None}, lock : Keys \cup {None},
                           release : Release \cup {None}, before : Release \cup {None}]]

(* The key under which the product of stage s of a chain is cached. *)
KeyOf(inputs, products, s) ==
    [tool |-> products[s].runs[s].by,
     from |-> IF s = 1 THEN [inputs |-> inputs, runs |-> << >>] ELSE products[s - 1]]

(* No crash, race or failure leaves the output naming a release that is    *)
(* not completely installed; only damage to that very release can          *)
(* (execute(): pending directory, one rename, then the link).              *)
OutputIsComplete ==
    \A o \in Output : selected[o] # None =>
        selected[o] \in releases[o] \/ selected[o] \in damaged

(* Every product of a release was made by the compiler its manifest names, *)
(* from the release's own sources and its own preceding product, whichever *)
(* builds shared the work; a bundle's sources are those of one sealed      *)
(* manifest (stage() keys, the tool checks of execute(), prepare()).       *)
ReleasesCoherent ==
    \A o \in Output : \A r \in releases[o] :
        /\ Len(r.products) = Stages
        /\ \A s \in 1..Stages :
              /\ r.products[s].inputs = r.inputs
              /\ Len(r.products[s].runs) = s
              /\ \A t \in 1..s : r.products[s].runs[t].by = r.tool
              /\ \A t \in 1..(s - 1) : r.products[s].runs[t] = r.products[s - 1].runs[t]
        /\ o \in Bundle => r.inputs \in sealed[o]

(* "Every dependent stage consumes the first checked winner, never the     *)
(* losing publisher's bytes": a checked entry holds what its key says, and *)
(* every build works on the bytes of the entries it went through, unless   *)
(* an entry was damaged in between (stage()).                              *)
CacheIsTrue ==
    /\ \A k \in DOMAIN cache : Checked(k) =>
          \E salt \in Salt : cache[k].bytes = Product(k.from, k.tool, salt)
    /\ \A b \in Build : \A s \in 1..Len(proc[b].products) :
          LET k == KeyOf(proc[b].snap, proc[b].products, s) IN
          k \in damaged \/ (Checked(k) /\ cache[k].bytes = proc[b].products[s])

(* A build that has begun publishes, fails or is killed: no order of       *)
(* publishers can leave one waiting for a cache entry forever.             *)
EveryBuildEnds ==
    \A b \in Build : []<>(proc[b].at = "idle")
=============================================================================

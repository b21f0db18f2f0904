------------------------------ MODULE MCTools ------------------------------
(***************************************************************************)
(* The Python tools beside the executor.  The stateful ones, CI            *)
(* qualification, the differential campaign and the regression runners,    *)
(* run from initial states of their own; the pure ones get every input of  *)
(* the sets below.  "input" names the tool and holds its input.            *)
(***************************************************************************)
EXTENDS MCCiReuse, DifferentialCampaign, MCRegression, TLC

CONSTANT None    \* of the probes
VARIABLE input

T == INSTANCE TimingProfile
R == INSTANCE StageRecipes
P == INSTANCE ActorProbes
Paths4 == << << >>, <<"a">>, <<"a", "c">>, <<"b">> >>
N == INSTANCE TopologyProbes WITH Wires <- 9, PathOrder <- Paths4

Unset(tool) == input.tool = tool /\ input.value = << >>
Chosen(value) == input' = [input EXCEPT !.value = <<value>>]
Idle == UNCHANGED <<ci, differential, regression>>

-----------------------------------------------------------------------------
(* Profiles: three events on two tracks, then at most two dependencies, or *)
(* a resource and up to two samples of a counter.                          *)
Event(track, ts, dur, shown) == [track |-> track, ts |-> ts, dur |-> dur, shown |-> shown]
Events ==
    [1 .. 3 -> {Event(1, t, d[1], d[2]) : t \in 0 .. 1, d \in {<<0, 0>>, <<0, 1>>, <<1, 1>>}}
               \cup {Event(2, t, d, d) : t \in 0 .. 2, d \in 0 .. 1}
               \cup {Event(k, t, 1, 1) : k \in 1 .. 2, t \in 1 .. 2}]
FewEvents == {e \in Events : e[1].track = 1 /\ e[1].ts <= 1 /\ e[2].track = 2 /\ e[2].dur = e[2].shown
                               /\ e[3].ts >= 1 /\ e[3].dur = 1}
Edge(s, t, d) == [source |-> s, target |-> t, delay |-> d]
Profile == input.value[1]
Extended(field, row) == input' = [input EXCEPT !.value[1][field] = Append(@, row)]
HasProfile == input.tool = "profile" /\ input.value # << >>

ChooseProfile == Unset("profile") /\ \E e \in FewEvents :
    Chosen([events |-> e, edges |-> << >>, resources |-> << >>, counters |-> << >>])
AddEdge == HasProfile /\ \E s, t \in 1 .. 3, d \in 0 .. 1 :
    /\ Profile.resources = << >> /\ Profile.counters = << >>
    /\ Len(Profile.edges) = 0 \/ (Len(Profile.edges) = 1 /\ d = 0)
    /\ Extended("edges", Edge(s, t, d))
AddResource == HasProfile /\ \E s, t \in 1 .. 3 :
    /\ Profile.resources = << >> /\ Profile.counters = << >>
    /\ Extended("resources", Edge(s, t, 0))
AddCounter == HasProfile /\ \E ts \in 0 .. 2 :
    /\ Profile.edges = << >> /\ Len(Profile.counters) < 2
    /\ Extended("counters", [series |-> 1, ts |-> ts, value |-> Len(Profile.counters) + 1])

-----------------------------------------------------------------------------
(* Recipes: sources, an import that is also an asset, assets in their      *)
(* order, schedules; bundles of at most two units.                         *)
UpTo(S, n) == UNION {[1 .. k -> S] : k \in 0 .. n}
Main == R!File(R!Here, "main", "x")
Lib == R!File(R!Here, "lib", "x")
Std == {R!File(R!Stdlib, "std", "x")}
Assets == {Lib, R!File(R!Here, "ram", "v"), R!File(R!Here, "top", "v"), R!File(R!Here, "xc7_delay_table", "tsv"),
           R!File(R!Here, "ir", "stderr.log"), R!File(R!Here, "completed", "json")}
Flags == {R!Option(f[1], f[2], R!NoFile) : f \in {<<"--delay_model", "unit">>, <<"--delay_model", "xc7_7030">>,
                                                 <<"--worst_case_throughput", "1">>, <<"--module_name", "m">>}}
Schedules == [legacy : {FALSE}, flags : UpTo(Flags, 2), model : {"unit"}, delays : {FALSE}, interval : {FALSE}]
    \cup [legacy : {TRUE}, flags : {<< >>}, model : {"unit", "xc7_7030"}, delays : BOOLEAN, interval : BOOLEAN]

ChooseFlat == Unset("flat") /\ \E s \in {{Main}, {Main, Lib}}, x \in UpTo(Assets, 2), c \in Schedules, t, o, m \in BOOLEAN :
    Chosen([sources |-> s, main |-> Main, stdlib |-> Std, assets |-> x, table |-> t,
                    optimizer |-> o, rams |-> m, name |-> "top", legacy |-> c.legacy, flags |-> c.flags,
                    model |-> c.model, delays |-> c.delays, interval |-> c.interval])

(* The directory of the second unit lies in that of the first. *)
A == <<"a">>
B == <<"a", "b">>
BundleInputs == {R!File(A, "a", "x"), R!File(B, "b", "x"), R!File(A, "pad", "v")}
Units == [dir : {A, B}, source : {R!File(A, "a", "x"), R!File(B, "b", "x")},
          output : {R!File(A, "a", "v"), R!File(A, "commands", "json"), R!File(A, "files", "f"),
                    R!File(B, "raw", "ir")},
          roots : {{A}, {B}}]
Listed == {R!File(A, "a", "v"), R!File(A, "pad", "v"), R!File(B, "b", "v")}

ChooseBundle == Unset("bundle") /\ \E i \in SUBSET BundleInputs, u \in UpTo(Units, 2), r \in SUBSET Listed :
    Chosen([inputs |-> i, present |-> i \cup {R!File(B, "b", "x")}, stdlib |-> Std,
                      units |-> u, rtl |-> [x \in {A} |-> r]])

-----------------------------------------------------------------------------
(* Actor projections: one bank with any fault of its ports, or two banks;  *)
(* up to three slots, state fields and metadata in either order.           *)
Sum(w) == FoldLeft(LAMBDA x, y : x + y, 0, w)
Upward(from, w) == [n \in DOMAIN w |-> <<from + Sum(SubSeq(w, 1, n - 1)), w[n]>>]
Downward(from, w) == [n \in DOMAIN w |-> <<from + Sum(SubSeq(w, n + 1, Len(w))), w[n]>>]
Sizes == <<2, 1, 32, 1, 16>>
Metadata(live, fields, mask) ==
    [live |-> live, fields |-> fields, extent |-> P!Extent([fields |-> fields]), sites |-> 2, size |-> 1, mask |-> mask]
InRam == {Metadata(FALSE, Upward(25, Sizes), FALSE), Metadata(FALSE, Downward(25, Sizes), FALSE)}
InRow == {Metadata(TRUE, Upward(26, Sizes), FALSE), Metadata(TRUE, Upward(25, Sizes), FALSE),
          Metadata(TRUE, Downward(26, Sizes \o <<2, 2>>), TRUE)}
Bank(kind, slots, up, r, mailbox, at, live, width) ==
    [kind |-> kind, slots |-> slots, width |-> width, phase |-> IF up THEN 0 ELSE 17,
     pending |-> IF up THEN 8 ELSE 16, failure |-> IF up THEN 9 ELSE 0,
     reduction |-> r, mailbox |-> mailbox, at |-> at, live |-> live]
Packed(r) == IF r = None THEN 0 ELSE IF r.live THEN 0 ELSE r.extent
SharedBanks == {Bank("shared", s, up, r, m, 0, l, IF Packed(r) = 0 THEN 33 ELSE 25 + Packed(r)) :
    s \in 1 .. 3, up \in BOOLEAN, r \in {None} \cup InRam \cup InRow, m \in BOOLEAN, l \in BOOLEAN}
DirectBanks == {Bank("direct", 1, up, r, m, 25 + Packed(r), FALSE, 49 + Packed(r)) :
    up \in BOOLEAN, r \in {None} \cup InRam, m \in BOOLEAN}
Seconds == DirectBanks \cup {x \in SharedBanks : x.slots # 2 /\ x.phase = 0}

Net(bank, fault) ==
    LET off(f) == IF fault = f THEN 1 ELSE 0 IN
    [clock |-> fault # "clock", ready |-> fault # "ready", wired |-> fault # "wired",
     addr |-> P!AddressWidth(bank) + off("addr"), data |-> bank.width + off("data"),
     mailbox |-> 24 * bank.slots - off("mailbox"),
     live |-> IF bank.reduction = None THEN 0 ELSE P!LiveWidth(bank) * bank.slots + off("live")]
Faults == {"none", "clock", "ready", "wired", "addr", "data", "mailbox", "live"}

ChooseBank == Unset("probes") /\ \E x \in SharedBanks \cup DirectBanks, f \in Faults, n \in 3 .. 4 :
    Chosen([banks |-> <<x>>, nets |-> <<Net(x, f)>>, first |-> n])
ChooseBanks == Unset("probes") /\ \E x \in SharedBanks, y \in Seconds :
    Chosen([banks |-> <<x, y>>, nets |-> <<Net(x, "none"), Net(y, "none")>>, first |-> 3])

(* State RAMs: two muxes with any arms in front of the memory.             *)
Arms == {"wr_addr", "wr_data", "0", "1", "m1", "m2"}
ChooseRam == Unset("ram") /\ \E w, x \in Arms, y, z \in {"0", "1", "wr_addr", "m1"}, s \in {"wr_en", "other"},
                p \in {"wr_addr", "m1"}, q \in {"wr_data", "m1", "m2"}, e \in {"m1", "m2", "1"} :
    Chosen([clocked |-> TRUE, addr |-> p, data |-> q, en |-> e,
                   muxes |-> {[y |-> "m1", a |-> w, b |-> x, s |-> s], [y |-> "m2", a |-> y, b |-> z, s |-> "wr_en"]}])

(* Designs: the top, a container with a child, and an actor or a queue.    *)
NetPairs == {<<1, 1>>, <<1, 2>>, <<2, 2>>, <<9, 9>>}
Port(stem, pair, out) == [stem |-> stem, valid |-> pair[1], ready |-> pair[2], out |-> out]
PortSets == {{}} \cup {{Port(2, pair, out)} : pair \in NetPairs, out \in BOOLEAN}
Part(path, kind, depth, clock, ports) == [path |-> path, kind |-> kind, depth |-> depth, clock |-> clock, ports |-> ports]
Neighbours == {Part(<<"b">>, "actor", 0, c, ps) : c \in BOOLEAN, ps \in PortSets}
    \cup {Part(<<"b">>, "fifo", d, TRUE, {Port(N!Push, x, FALSE), Port(N!Pop, y, TRUE)}) :
            d \in {0, 1, 3}, x \in NetPairs, y \in NetPairs}
ChooseDesign == Unset("topology") /\ \E x, y, z \in PortSets, other \in Neighbours :
    Chosen({Part(<< >>, "actor", 0, TRUE, x), Part(<<"a">>, "actor", 0, TRUE, y),
                        Part(<<"a", "c">>, "actor", 0, TRUE, z), other})

-----------------------------------------------------------------------------
(* Trees of the generator at depth two, and campaigns: three programs in   *)
(* two orders, up to two defects, every budget that cuts a step short.     *)
ChooseTree == Unset("cases") /\ \E total, calls \in BOOLEAN : \E t \in Words(2, 0, calls, total) :
    Chosen([tree |-> t, calls |-> calls, total |-> total])

Probe(t, total, rows) == [tree |-> t, total |-> total, inputs |-> rows]
Programs ==
  <<Probe(Node("let", 0, <<Node("binary", Safe, <<Var(1), Const(7)>>),
                               Node("nth", 0, <<Const(2), Values>>)>>), TRUE,
            << <<0, 1>>, <<4, 9>>, <<6, 2>> >>),
    Probe(Node("select", 0, <<Node("compare", 0, <<Var(1), Var(2)>>), Node("bnot", 0, <<Var(2)>>),
                Node("nth", 0, <<Var(1), Node("set", 0, <<Const(1), Values, Var(2)>>)>>)>>), FALSE,
            << <<5, 0>>, <<1, 1>> >>),
    Probe(Node("call", 0, <<Var(1), Node("bnot", 0, <<Const(3)>>), Values>>), TRUE, << <<3, 8>> >>)>>
Defect(phase, category, op, word, batch) ==
    [phase |-> phase, category |-> category, op |-> op, word |-> word, batch |-> batch]
Defects == {Defect("lower", "invalid_source", "call", 0, 1), Defect("dslx", "result_mismatch", "nth", 4, 1),
            Defect("dslx", "TypeInferenceError", "bnot", 0, 1), Defect("convert", "INTERNAL", "set", 0, 1),
            Defect("rtl", "result_mismatch", "bnot", 5, 1), Defect("optimize", "FailureError", "var", 0, 2),
            Defect("dslx", "timeout", "select", 0, 1)}
AllBatches == {<< <<Programs[1], Programs[2]>>, <<Programs[3]>> >>, << <<Programs[3]>>, <<Programs[2], Programs[1]>> >>}
AllCampaigns == [batches : AllBatches, defects : {d \in SUBSET Defects : Cardinality(d) <= 2},
                 rtl : 0 .. 2, budget : {0, 3, 12, 60}]
NoCampaign == CHOOSE x \in AllCampaigns : x.defects = {}

-----------------------------------------------------------------------------
(* Regression: two runners over the two cases that CI runs.                *)
ToolRecipe == [c \in MCCase |-> IF c = caseB THEN Recipes[2] ELSE Recipes[1]]
Alike == Permutations(Runners)

TwoCases ==
    /\ ~disk[caseL].exists
    /\ \A r \in Runner : caseL \notin Range(runner[r].names)

-----------------------------------------------------------------------------
Init ==
    /\ CiInit /\ RunnerInit
    /\ input \in [tool : {"ci", "campaign", "regression", "profile", "flat", "bundle", "probes", "ram", "topology", "cases"},
                  value : {<< >>}]
    /\ \/ input.tool = "campaign" /\ DifferentialInit
       \/ /\ input.tool # "campaign" /\ campaign = NoCampaign /\ step = "idle" /\ completed = 0
          /\ target = NoFailure /\ selected = << >> /\ todo = << >> /\ place = <<1, 1>>
          /\ attempts = 0 /\ seen = {} /\ timeouts = 0

Next ==
    \/ (ChooseProfile \/ AddEdge \/ AddResource \/ AddCounter) /\ Idle
    \/ (ChooseFlat \/ ChooseBundle) /\ Idle
    \/ (ChooseBank \/ ChooseBanks \/ ChooseRam \/ ChooseDesign) /\ Idle
    \/ ChooseTree /\ Idle
    \/ DifferentialNext /\ UNCHANGED <<input, ci, regression>>
    \/ input.tool = "ci" /\ CiNext /\ UNCHANGED <<input, differential, regression>>
    \/ input.tool = "regression" /\ RunnerNext /\ TwoCases' /\ UNCHANGED <<input, ci, differential>>

Spec == Init /\ [][Next]_<<input, ci, differential, regression>>

Ready(tool) == input.tool = tool /\ input.value # << >>

-----------------------------------------------------------------------------
(* hls_profile.py: validate(), longest_path(), observed_predecessors(),    *)
(* window(), perfetto().  An accepted profile is a schedule, its paths are *)
(* the longest, what is observed adds up, a window and an overlay are      *)
(* profiles again, and counters that were sampled once at a time show the  *)
(* same values in the window.                                              *)
ProfileSound == Ready("profile") => T!ProfileSound(Profile, {1, 2}, 3, 3)

(* docs/profiling.md on window(): it "retains the preceding counter        *)
(* values".  Of two samples at one time it retains the one that is over.   *)
WindowRetains ==
    Ready("profile") /\ T!Valid(Profile) => T!CountersKept(Profile, 1, 3)

(* compile_xls.py and compile_source_build.py: every file a stage can read *)
(* is in its cache key, but for modules among the assets of the flat       *)
(* adapter, and every file of the recipe has one owner.                    *)
RecipesSound ==
    /\ Ready("flat") => R!FlatSound(input.value[1])
    /\ Ready("bundle") => R!BundleSound(input.value[1])

(* docs/incremental-xls-builds.md on compile_xls.py: the key of IR         *)
(* conversion covers every staged module.  An asset below the import root  *)
(* "." is one that the key leaves out.                                     *)
ImportsKeyed == Ready("flat") => R!FlatImportsKeyed(input.value[1])

(* topology_debug.py and topology_debug_actors.py: a query is answered     *)
(* with exactly the bits of the actor, channel or queue it names.          *)
ProbesExact ==
    /\ Ready("probes") => P!ProbesExact(input.value[1].banks, input.value[1].nets, input.value[1].first)
    /\ Ready("ram") => P!WriteExact(input.value[1])
    /\ Ready("topology") => N!TopologyExact(input.value[1])

(* compiler_differential.py and its cases: generated programs are legal    *)
(* and stay so, and what is reported shows the failure that was found.     *)
FailuresReduced ==
    /\ Ready("cases") => CasesSound(input.value[1].tree, input.value[1].calls, input.value[1].total)
    /\ ReducedFaithfully
=============================================================================

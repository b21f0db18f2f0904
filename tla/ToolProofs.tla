----------------------------- MODULE ToolProofs -----------------------------
(***************************************************************************)
(* Proofs about the stateful Python tools, each a system of its own:       *)
(*                                                                         *)
(* BuildExecutor: for any number of builds, outputs, stages and changes    *)
(* around them, a build that is killed or fails anywhere leaves every      *)
(* output on a completely installed release, a cache entry that checks out *)
(* holds what its key says, and every product of a release was made by the *)
(* compiler its manifest names from its own sources.                       *)
(*                                                                         *)
(* CiQualification: a case that a selection passes over reads the same in  *)
(* both trees, and so gives the same result.                               *)
(*                                                                         *)
(* RegressionRunner: a receipt that says "passed" is the truth about one   *)
(* attempt, whoever shares its stage.                                      *)
(*                                                                         *)
(* What a build or a runner may know is said of its record and of the      *)
(* shared state it was learnt from, as operators of both.                  *)
(***************************************************************************)
EXTENDS BuildExecutor, CiQualification, RegressionRunner, OrderLemmas, FiniteSetTheorems, TLAPS

(***************************************************************************)
(* Builds.                                                                 *)
(***************************************************************************)

Proc == [at : Steps, out : Output \cup {None}, plan : Versions,
         planTool : Nat, tools : Nat, copied : SUBSET Input,
         snap : Versions, products : Seq(Lineage),
         key : Keys \cup {None}, made : Nat,
         work : Lineage \cup {None}, lock : Keys \cup {None},
         release : Release \cup {None}, before : Release \cup {None}]

\* The steps of a build at which its key, its bytes and its release are known.
Early == {"idle", "planned", "hash", "copy", "prepare"}
Keyed == {"launch", "compiling", "verify", "wait", "publish"}
Closing == {"finalize", "recheck", "release", "link", "switch", "report"}
Sealed == {"recheck", "release", "link", "switch", "report"}

\* What a step has filled in.
Filled(p) ==
  /\ p.at # "idle" => p.out \in Output
  /\ p.at \in Keyed => p.key \in Keys
  /\ p.at \in {"verify", "wait", "publish"} => p.work \in Lineage
  /\ p.at \in Sealed => p.release \in Release

\* Products stand in a chain that starts at the snapshot.
Chained(p) ==
  /\ p.at \in Early => p.products = << >>
  /\ p.at \in Keyed \cup {"lookup"} => Len(p.products) < Stages
  /\ p.at \in Closing \cup {"tools"} => Len(p.products) = Stages
  /\ \A s \in 1 .. Len(p.products) :
       /\ p.products[s].inputs = p.snap
       /\ Len(p.products[s].runs) = s
       /\ \A t \in 1 .. (s - 1) : p.products[s].runs[t] = p.products[s - 1].runs[t]
  /\ p.at \in Keyed => p.key.from = Inputs(p)

\* Compilers, in the order in which a build met them; now is the present one.
Dated(p, now) ==
  /\ p.at # "idle" /\ p.out \in Bundle => p.planTool <= now
  /\ p.at \in Owning \ {"hash"} =>
       /\ p.tools <= now
       /\ p.out \in Bundle => p.planTool <= p.tools
  /\ p.at \in Owning \ Early /\ p.out \in Bundle => p.planTool = p.tools
  /\ \A s \in 1 .. Len(p.products) : \A t \in 1 .. s :
       p.products[s].runs[t].by \in p.tools .. now
  /\ p.at \in Keyed => p.key.tool \in p.tools .. now
  /\ p.at \in {"compiling", "verify"} => p.made \in p.key.tool .. now
  /\ p.at \in Closing =>
       \A s \in 1 .. Len(p.products) : \A t \in 1 .. s : p.products[s].runs[t].by = p.tools
  /\ p.at \in Sealed => p.release.tool \in p.tools .. now
  /\ p.at \in Sealed \ {"recheck"} => p.release.tool = p.tools

\* The bytes in the attempt directory.
Worked(p) ==
  /\ p.at = "verify" => \E salt \in Salt : p.work = Product(p.key.from, p.made, salt)
  /\ p.at \in {"wait", "publish"} =>
       \E salt \in Salt : p.work = Product(p.key.from, p.key.tool, salt)

\* A bundle is built from a sealed manifest.
Bound(p, seals) ==
  p.out \in Bundle =>
    /\ p.at # "idle" => p.plan \in seals[p.out]
    /\ p.at \in Owning \ Early => p.snap \in seals[p.out]

\* The release a build assembles, and where it has put it.
Assembled(p) ==
  p.at \in Sealed => p.release.inputs = p.snap /\ p.release.products = p.products

Placed(p, installed, lost) ==
  p.at \in {"link", "switch"} => p.release \in installed[p.out] \cup lost

\* Products a build went through are still those of their entries.
Held(p, entries, lost) ==
  \A s \in 1 .. Len(p.products) :
    LET k == KeyOf(p.snap, p.products, s) IN
    k \in lost \/ (k \in DOMAIN entries /\ entries[k].whole /\ entries[k].bytes = p.products[s])

Knows(p) ==
  /\ Filled(p) /\ Chained(p) /\ Dated(p, tool) /\ Worked(p) /\ Bound(p, sealed)
  /\ Assembled(p) /\ Placed(p, releases, damaged) /\ Held(p, cache, damaged)

\* The manifest in force is one of the sealed ones.
Manifests ==
  /\ sealed \in [Output -> SUBSET Versions]
  /\ \A o \in Output : manifest[o] \in sealed[o]

EntriesTrue ==
  \A k \in DOMAIN cache : Checked(k) =>
    \E salt \in Salt : cache[k].bytes = Product(k.from, k.tool, salt)

IInv ==
  /\ TypeOK /\ Manifests /\ EntriesTrue /\ OutputIsComplete /\ ReleasesCoherent
  /\ \A b \in Build : Knows(proc[b])

-----------------------------------------------------------------------------
(* What a process knows survives the steps of others.                      *)

LEMMA RunsTyped ==
  ASSUME NEW p \in Proc, Chained(p), NEW s \in 1 .. Len(p.products), NEW t \in 1 .. s
  PROVE  /\ p.products[s] \in Lineage
         /\ p.products[s].runs[t] \in Run /\ p.products[s].runs[t].by \in Nat
<1>1. p.products \in Seq(Lineage)
  BY DEF Proc
<1>2. p.products[s] \in Lineage
  BY <1>1
<1>3. p.products[s].runs \in Seq(Run) /\ Len(p.products[s].runs) = s
  BY <1>2 DEF Lineage, Chained
<1>4. p.products[s].runs[t] \in Run
  BY <1>3
<1> QED
  BY <1>2, <1>4 DEF Run

LEMMA DatedLasts ==
  ASSUME NEW p \in Proc, NEW now \in Nat, NEW later \in Nat, now <= later,
         Filled(p), Chained(p), Dated(p, now)
  PROVE  Dated(p, later)
<1>1. \A s \in 1 .. Len(p.products) : \A t \in 1 .. s : p.products[s].runs[t].by \in Nat
  BY RunsTyped
<1>2. p.tools \in Nat /\ p.made \in Nat /\ (p.at \in Keyed => p.key.tool \in Nat)
      /\ (p.at \in Sealed => p.release.tool \in Nat) /\ p.planTool \in Nat
  BY DEF Filled, Proc, Keys, Release
<1>3. \A x \in Nat, y \in Nat : y \in x .. now => y \in x .. later
  OBVIOUS
<1>4. (p.tools <= now => p.tools <= later) /\ (p.planTool <= now => p.planTool <= later)
  BY <1>2
<1>5. \A s \in 1 .. Len(p.products) : \A t \in 1 .. s : p.products[s].runs[t].by \in p.tools .. later
  BY <1>1, <1>2, <1>3 DEF Dated
<1>6. /\ p.at \in Keyed => p.key.tool \in p.tools .. later
      /\ p.at \in {"compiling", "verify"} => p.made \in p.key.tool .. later
      /\ p.at \in Sealed => p.release.tool \in p.tools .. later
  <2>1. p.at \in {"compiling", "verify"} => p.at \in Keyed
    BY DEF Keyed
  <2> QED
    BY <1>2, <1>3, <2>1 DEF Dated
<1> QED
  BY <1>4, <1>5, <1>6 DEF Dated

LEMMA BoundLasts ==
  ASSUME NEW p \in Proc, NEW seals, NEW more, Filled(p), Bound(p, seals),
         \A o \in Output : seals[o] \subseteq more[o]
  PROVE  Bound(p, more)
BY DEF Bound, Filled, Owning

LEMMA PlacedLasts ==
  ASSUME NEW p \in Proc, NEW installed, NEW more, NEW lost, NEW further,
         Filled(p), Placed(p, installed, lost), lost \subseteq further,
         \A o \in Output : installed[o] \subseteq more[o] \cup further
  PROVE  Placed(p, more, further)
BY DEF Placed, Filled

LEMMA HeldLasts ==
  ASSUME NEW p \in Proc, NEW entries, NEW others, NEW lost, NEW further,
         Held(p, entries, lost), lost \subseteq further,
         \A k \in DOMAIN entries : entries[k].whole /\ k \notin further =>
            k \in DOMAIN others /\ others[k].whole /\ others[k].bytes = entries[k].bytes
  PROVE  Held(p, others, further)
BY DEF Held

-----------------------------------------------------------------------------
(* Steps of one build, and steps around the builds.                        *)

\* The types of everything but the processes.
SharedTyped ==
  /\ source \in [Output -> Versions]
  /\ manifest \in [Output -> Versions]
  /\ tool \in Nat
  /\ DOMAIN cache \subseteq Keys
  /\ \A k \in DOMAIN cache : cache[k] \in [bytes : Lineage, whole : BOOLEAN]
  /\ releases \in [Output -> SUBSET Release]
  /\ broken \in [Output -> SUBSET Release]
  /\ selected \in [Output -> Release \cup {None}]
  /\ links \in [Output -> SUBSET Build]
  /\ report \in [Output -> [status : {"none", "complete", "failed"},
                            before : Release \cup {None}, left : Release \cup {None}]]

LEMMA Types == TypeOK <=> SharedTyped /\ proc \in [Build -> Proc]
BY DEF TypeOK, SharedTyped, Proc

\* What a record has to satisfy when nothing shared has changed.
Private(q) ==
  /\ Filled(q) /\ Chained(q) /\ Dated(q, tool) /\ Worked(q) /\ Bound(q, sealed) /\ Assembled(q)

LEMMA StepKeeps ==
  ASSUME IInv, NEW b \in Build, NEW q \in Proc, proc' = [proc EXCEPT ![b] = q],
         UNCHANGED <<tool, manifest, sealed, damaged>>,
         \A o \in Output : releases[o] \subseteq releases'[o],
         \A k \in DOMAIN cache : cache[k].whole => k \in DOMAIN cache' /\ cache'[k] = cache[k],
         SharedTyped', EntriesTrue', OutputIsComplete', ReleasesCoherent',
         Private(q), Placed(q, releases', damaged), Held(q, cache', damaged)
  PROVE  IInv'
<1>1. TypeOK'
  <2>1. proc' \in [Build -> Proc]
    BY Types DEF IInv
  <2> QED
    BY <2>1, Types DEF TypeOK, SharedTyped, Proc
<1>2. Manifests'
  BY DEF IInv, Manifests
<1>3. ASSUME NEW c \in Build
      PROVE  Knows(proc[c])'
  <2> DEFINE r == proc'[c]
  <2>1. r = q \/ r = proc[c]
    BY Types DEF IInv
  <2>2. CASE r = q
    BY <2>2 DEF Knows, Private
  <2>3. CASE r = proc[c]
    <3> DEFINE p == proc[c]
    <3>1. p \in Proc /\ Knows(p)
      BY Types DEF IInv
    <3>2. Placed(p, releases', damaged)
      <4>1. \A o \in Output : releases[o] \subseteq releases'[o] \cup damaged
        OBVIOUS
      <4> HIDE DEF p
      <4> QED
        BY <3>1, <4>1, PlacedLasts DEF Knows
    <3>3. Held(p, cache', damaged)
      <4> HIDE DEF p
      <4> QED
        BY <3>1, HeldLasts DEF Knows
    <3> HIDE DEF p
    <3>4. p = r
      BY <2>3 DEF p
    <3> QED
      BY <3>1, <3>2, <3>3, <3>4 DEF Knows
  <2> QED
    BY <2>1, <2>2, <2>3
<1> QED
  BY <1>1, <1>2, <1>3 DEF IInv

LEMMA PrivateKeeps ==
  ASSUME IInv, NEW b \in Build, NEW q \in Proc, proc' = [proc EXCEPT ![b] = q],
         UNCHANGED <<source, tool, manifest, sealed, damaged, cache>>, UNCHANGED published,
         Private(q), Placed(q, releases, damaged), Held(q, cache, damaged)
  PROVE  IInv'
<1>1. UNCHANGED <<releases, broken, selected, links, report>>
  BY DEF published
<1>2. SharedTyped' /\ EntriesTrue' /\ OutputIsComplete' /\ ReleasesCoherent'
  BY <1>1, Types DEF IInv, SharedTyped, EntriesTrue, OutputIsComplete, ReleasesCoherent, Checked
<1> QED
  BY <1>1, <1>2, StepKeeps

LEMMA IdleKnown ==
  /\ Idle \in Proc
  /\ \A t, seals, installed, lost, entries :
       /\ Filled(Idle) /\ Chained(Idle) /\ Dated(Idle, t) /\ Worked(Idle) /\ Assembled(Idle)
       /\ Placed(Idle, installed, lost) /\ Held(Idle, entries, lost)
  /\ Idle.at = "idle" /\ Idle.products = << >>
<1>1. NoVersions \in Versions
  BY DEF NoVersions, Versions
<1>2. Idle \in Proc
  BY <1>1 DEF Idle, Proc, Steps
<1>3. Idle.at = "idle" /\ Idle.products = << >>
  BY DEF Idle
<1>4. \A s \in 1 .. Len(Idle.products) : FALSE
  BY <1>3
<1>5. Filled(Idle) /\ Worked(Idle) /\ Assembled(Idle)
  BY <1>3 DEF Filled, Worked, Assembled, Keyed, Sealed
<1>6. Chained(Idle)
  BY <1>3, <1>4 DEF Chained, Early, Keyed, Closing
<1>7. ASSUME NEW t PROVE Dated(Idle, t)
  BY <1>3, <1>4 DEF Dated, Owning, Early, Keyed, Closing, Sealed
<1>8. ASSUME NEW installed, NEW lost, NEW entries
      PROVE  Placed(Idle, installed, lost) /\ Held(Idle, entries, lost)
  BY <1>3, <1>4 DEF Placed, Held
<1> QED
  BY <1>2, <1>3, <1>5, <1>6, <1>7, <1>8

\* A build that ends, whatever it reports.
LEMMA EndKeeps ==
  ASSUME IInv, NEW b \in Build, proc' = [proc EXCEPT ![b] = Idle],
         UNCHANGED <<source, tool, manifest, sealed, damaged, cache, releases, broken, selected>>,
         links' \in [Output -> SUBSET Build],
         report' \in [Output -> [status : {"none", "complete", "failed"},
                                 before : Release \cup {None}, left : Release \cup {None}]]
  PROVE  IInv'
<1>1. SharedTyped' /\ EntriesTrue' /\ OutputIsComplete' /\ ReleasesCoherent'
  BY Types DEF IInv, SharedTyped, EntriesTrue, OutputIsComplete, ReleasesCoherent, Checked
<1>2. Private(Idle)
  BY IdleKnown DEF Private, Bound, Owning
<1> QED
  BY <1>1, <1>2, IdleKnown, StepKeeps

LEMMA FailsKeeps ==
  ASSUME IInv, NEW b \in Build, proc[b].at # "idle", Fails(b),
         UNCHANGED <<source, tool, manifest, sealed, damaged, cache, releases, broken, selected>>,
         links' \in [Output -> SUBSET Build]
  PROVE  IInv'
<1>1. proc[b] \in Proc /\ proc[b].out \in Output /\ selected \in [Output -> Release \cup {None}]
      /\ report \in [Output -> [status : {"none", "complete", "failed"},
                                before : Release \cup {None}, left : Release \cup {None}]]
  BY Types DEF IInv, Knows, Filled, SharedTyped
<1>2. proc[b].before \in Release \cup {None} /\ selected[proc[b].out] \in Release \cup {None}
  BY <1>1 DEF Proc
<1> QED
  BY <1>1, <1>2, EndKeeps DEF Fails

-----------------------------------------------------------------------------
(* Up to the first stage.                                                  *)

\* A build without products holds nothing.
LEMMA NothingHeld ==
  ASSUME NEW q, q.products = << >>, NEW entries, NEW lost
  PROVE  Held(q, entries, lost)
BY DEF Held

LEMMA OfBuild ==
  ASSUME IInv, NEW b \in Build
  PROVE  proc[b] \in Proc /\ Knows(proc[b]) /\ proc \in [Build -> Proc] /\ tool \in Nat
BY Types DEF IInv, SharedTyped

LEMMA PlanKeeps ==
  ASSUME IInv, NEW b \in Build, NEW o \in Output, Plan(b, o)
  PROVE  IInv'
<1> DEFINE q == [Idle EXCEPT !.at = "planned", !.out = o, !.plan = manifest[o], !.planTool = tool]
<1>1. manifest[o] \in Versions /\ tool \in Nat /\ manifest[o] \in sealed[o]
  BY Types DEF IInv, SharedTyped, Manifests
<1>2. /\ q \in Proc /\ q.at = "planned" /\ q.out = o /\ q.plan = manifest[o]
      /\ q.planTool = tool /\ q.products = << >>
  BY <1>1, IdleKnown DEF Proc, Steps
<1>3. Filled(q) /\ Chained(q) /\ Worked(q) /\ Bound(q, sealed) /\ Assembled(q) /\ Placed(q, releases, damaged)
  BY <1>1, <1>2 DEF Filled, Chained, Worked, Bound, Assembled, Placed, Early, Keyed, Closing, Sealed, Owning
<1>4. Dated(q, tool)
  BY <1>1, <1>2 DEF Dated, Early, Keyed, Closing, Sealed, Owning
<1>5. proc' = [proc EXCEPT ![b] = q] /\ UNCHANGED <<source, tool, manifest, sealed, damaged, cache>> /\ UNCHANGED published
  BY DEF Plan
<1> HIDE DEF q
<1> QED
  BY <1>2, <1>3, <1>4, <1>5, NothingHeld, PrivateKeeps DEF Private

LEMMA BeginKeeps ==
  ASSUME IInv, NEW b \in Build, NEW o \in Output, Begin(b, o)
  PROVE  IInv'
<1> DEFINE q == [Idle EXCEPT !.at = "planned", !.out = o]
<1>1. q \in Proc /\ q.at = "planned" /\ q.out = o /\ q.products = << >>
  BY IdleKnown DEF Proc, Steps
<1>2. /\ Filled(q) /\ Chained(q) /\ Dated(q, tool) /\ Worked(q) /\ Bound(q, sealed) /\ Assembled(q)
      /\ Placed(q, releases, damaged)
  BY <1>1 DEF Begin, Filled, Chained, Dated, Worked, Bound, Assembled, Placed, Early, Keyed, Closing, Sealed, Owning
<1>3. proc' = [proc EXCEPT ![b] = q] /\ UNCHANGED <<source, tool, manifest, sealed, damaged, cache>> /\ UNCHANGED published
  BY DEF Begin
<1> HIDE DEF q
<1> QED
  BY <1>1, <1>2, <1>3, NothingHeld, PrivateKeeps DEF Private

LEMMA StepNames ==
  /\ "idle" \in Steps /\ "planned" \in Steps /\ "hash" \in Steps /\ "copy" \in Steps
  /\ "prepare" \in Steps /\ "lookup" \in Steps /\ "launch" \in Steps /\ "compiling" \in Steps
  /\ "verify" \in Steps /\ "wait" \in Steps /\ "publish" \in Steps /\ "tools" \in Steps
  /\ "finalize" \in Steps /\ "recheck" \in Steps /\ "release" \in Steps /\ "link" \in Steps
  /\ "switch" \in Steps /\ "report" \in Steps
BY DEF Steps, Owning

\* A build that has neither key nor product yet.
LEMMA EarlyKnows ==
  ASSUME NEW q, q.at \in {"hash", "copy", "prepare"}, q.out \in Output, q.products = << >>,
         NEW installed, NEW lost
  PROVE  Filled(q) /\ Chained(q) /\ Worked(q) /\ Assembled(q) /\ Placed(q, installed, lost)
<1>1. q.at \in Early /\ q.at \notin Keyed \cup Closing \cup Sealed
      /\ q.at \notin {"idle", "lookup", "tools", "verify", "wait", "publish", "link", "switch"}
  BY DEF Early, Keyed, Closing, Sealed
<1> QED
  BY <1>1 DEF Filled, Chained, Worked, Assembled, Placed

LEMMA TakeOutputKeeps ==
  ASSUME IInv, NEW b \in Build, TakeOutput(b)
  PROVE  IInv'
<1> DEFINE p == proc[b]  q == [p EXCEPT !.at = "hash", !.before = selected[p.out]]
<1>1. p \in Proc /\ Knows(p) /\ p.at = "planned" /\ proc \in [Build -> Proc]
  BY OfBuild DEF TakeOutput
<1>2. UNCHANGED <<source, tool, manifest, sealed, damaged, cache>> /\ UNCHANGED published
  BY DEF TakeOutput, environment
<1>3. CASE OutputLocked(p.out)
  <2>1. proc' = [proc EXCEPT ![b] = Idle]
    BY <1>3 DEF TakeOutput
  <2>2. links \in [Output -> SUBSET Build]
        /\ report \in [Output -> [status : {"none", "complete", "failed"},
                                  before : Release \cup {None}, left : Release \cup {None}]]
    BY Types DEF IInv, SharedTyped
  <2> QED
    BY <1>2, <2>1, <2>2, EndKeeps DEF published
<1>4. CASE ~OutputLocked(p.out)
  <2>1. selected[p.out] \in Release \cup {None}
    BY <1>1, Types DEF IInv, SharedTyped, Knows, Filled
  <2>1a. p.products = << >> /\ p.out \in Output /\ "hash" \in Steps
    BY <1>1, StepNames DEF Knows, Filled, Chained, Early
  <2>2. /\ q \in Proc /\ q.at = "hash" /\ q.out = p.out /\ q.plan = p.plan /\ q.planTool = p.planTool
        /\ q.products = << >>
    BY <1>1, <2>1, <2>1a DEF Proc
  <2>3. Filled(q) /\ Chained(q) /\ Worked(q) /\ Assembled(q) /\ Placed(q, releases, damaged)
    <3> HIDE DEF p, q
    <3> QED
        BY <2>1a, <2>2, EarlyKnows
  <2>3a. Dated(q, tool) /\ Bound(q, sealed)
    BY <1>1, <2>2 DEF Knows, Dated, Bound, Early, Keyed, Closing, Sealed, Owning
  <2>4. proc' = [proc EXCEPT ![b] = q]
    BY <1>4 DEF TakeOutput
  <2> HIDE DEF q
  <2> QED
    BY <1>2, <2>2, <2>3, <2>3a, <2>4, NothingHeld, PrivateKeeps DEF Private
<1> QED
  BY <1>3, <1>4

LEMMA HashToolsKeeps ==
  ASSUME IInv, NEW b \in Build, HashTools(b)
  PROVE  IInv'
<1> DEFINE p == proc[b]  q == [p EXCEPT !.at = "copy", !.tools = tool]
<1>1. p \in Proc /\ Knows(p) /\ p.at = "hash" /\ proc \in [Build -> Proc] /\ tool \in Nat
  BY OfBuild DEF HashTools
<1>1a. p.products = << >> /\ p.out \in Output /\ "copy" \in Steps
  BY <1>1, StepNames DEF Knows, Filled, Chained, Early
<1>2. /\ q \in Proc /\ q.at = "copy" /\ q.out = p.out /\ q.plan = p.plan /\ q.planTool = p.planTool
      /\ q.tools = tool /\ q.products = << >>
  BY <1>1, <1>1a DEF Proc
<1>3. Filled(q) /\ Chained(q) /\ Worked(q) /\ Assembled(q) /\ Placed(q, releases, damaged)
  <2> HIDE DEF p, q
  <2> QED
    BY <1>1a, <1>2, EarlyKnows
<1>3a. Dated(q, tool) /\ Bound(q, sealed)
  BY <1>1, <1>2 DEF Knows, Dated, Bound, Early, Keyed, Closing, Sealed, Owning
<1>4. proc' = [proc EXCEPT ![b] = q] /\ UNCHANGED <<source, tool, manifest, sealed, damaged, cache>> /\ UNCHANGED published
  BY DEF HashTools, environment
<1> HIDE DEF q
<1> QED
  BY <1>2, <1>3, <1>3a, <1>4, NothingHeld, PrivateKeeps DEF Private

LEMMA CopyInputKeeps ==
  ASSUME IInv, NEW b \in Build, NEW i \in Input, CopyInput(b, i)
  PROVE  IInv'
<1> DEFINE p == proc[b]
           q == [p EXCEPT !.snap[i] = source[p.out][i], !.copied = p.copied \cup {i},
                          !.at = IF p.copied \cup {i} = Input THEN "prepare" ELSE "copy"]
<1>1. p \in Proc /\ Knows(p) /\ p.at = "copy" /\ p.out \in Output /\ proc \in [Build -> Proc] /\ tool \in Nat
  BY OfBuild DEF CopyInput, Knows, Filled
<1>2. source[p.out] \in Versions /\ p.snap \in Versions
  BY <1>1, Types DEF IInv, SharedTyped, Proc
<1>3. [p.snap EXCEPT ![i] = source[p.out][i]] \in Versions
  BY <1>2 DEF Versions
<1>3a. p.products = << >> /\ {"copy", "prepare"} \subseteq Steps
  BY <1>1, StepNames DEF Knows, Chained, Early
<1>4. /\ q \in Proc /\ q.at \in {"copy", "prepare"} /\ q.out = p.out /\ q.plan = p.plan
      /\ q.planTool = p.planTool /\ q.tools = p.tools /\ q.products = << >>
  BY <1>1, <1>3, <1>3a DEF Proc
<1>5. Filled(q) /\ Chained(q) /\ Worked(q) /\ Assembled(q) /\ Placed(q, releases, damaged)
  <2> HIDE DEF p, q
  <2> QED
    BY <1>1, <1>4, EarlyKnows
<1>5a. Dated(q, tool) /\ Bound(q, sealed)
  BY <1>1, <1>4 DEF Knows, Dated, Bound, Early, Keyed, Closing, Sealed, Owning
<1>6. proc' = [proc EXCEPT ![b] = q] /\ UNCHANGED <<source, tool, manifest, sealed, damaged, cache>> /\ UNCHANGED published
  BY DEF CopyInput, environment
<1> HIDE DEF q
<1> QED
  BY <1>4, <1>5, <1>5a, <1>6, NothingHeld, PrivateKeeps DEF Private

LEMMA PrepareKeeps ==
  ASSUME IInv, NEW b \in Build, Prepare(b)
  PROVE  IInv'
<1> DEFINE p == proc[b]  q == [p EXCEPT !.at = "lookup"]
<1>1. p \in Proc /\ Knows(p) /\ p.at = "prepare" /\ proc \in [Build -> Proc] /\ tool \in Nat
  BY OfBuild DEF Prepare
<1>2. /\ q \in Proc /\ q.at = "lookup" /\ q.out = p.out /\ q.plan = p.plan /\ q.planTool = p.planTool
      /\ q.tools = p.tools /\ q.snap = p.snap /\ q.products = << >>
  <2>1. p.products = << >> /\ "lookup" \in Steps
    BY <1>1, StepNames DEF Knows, Chained, Early
  <2> QED
    BY <1>1, <2>1 DEF Proc
<1>3. p.out \in Bundle => p.snap = p.plan /\ tool = p.planTool
  BY DEF Prepare
<1>4. p.tools \in Nat /\ p.planTool \in Nat
  BY <1>1 DEF Proc
<1>5. Dated(q, tool)
  BY <1>1, <1>2, <1>3, <1>4 DEF Knows, Dated, Early, Keyed, Closing, Sealed, Owning
<1>6. /\ Filled(q) /\ Chained(q) /\ Worked(q) /\ Bound(q, sealed) /\ Assembled(q)
      /\ Placed(q, releases, damaged)
  BY <1>1, <1>2, <1>3, StagesAssumption
     DEF Knows, Filled, Chained, Worked, Bound, Assembled, Placed, Early, Keyed, Closing, Sealed, Owning
<1>7. proc' = [proc EXCEPT ![b] = q] /\ UNCHANGED <<source, tool, manifest, sealed, damaged, cache>> /\ UNCHANGED published
  BY DEF Prepare, environment
<1> HIDE DEF q
<1> QED
  BY <1>2, <1>5, <1>6, <1>7, NothingHeld, PrivateKeeps DEF Private

-----------------------------------------------------------------------------
(* Stages.                                                                 *)

LEMMA ProductFacts ==
  ASSUME NEW from \in Lineage, NEW t \in Nat, NEW salt \in Salt,
         NEW made, made = Product(from, t, salt)
  PROVE  /\ made \in Lineage
         /\ made.inputs = from.inputs
         /\ Len(made.runs) = Len(from.runs) + 1
         /\ \A n \in 1 .. Len(from.runs) : made.runs[n] = from.runs[n]
         /\ made.runs[Len(from.runs) + 1] = [by |-> t, salt |-> salt]
<1> DEFINE ran == [by |-> t, salt |-> salt]
<1>1. from.runs \in Seq(Run) /\ ran \in Run
  BY DEF Lineage, Run
<1>2. /\ Append(from.runs, ran) \in Seq(Run)
      /\ Len(Append(from.runs, ran)) = Len(from.runs) + 1
      /\ \A n \in 1 .. Len(from.runs) : Append(from.runs, ran)[n] = from.runs[n]
      /\ Append(from.runs, ran)[Len(from.runs) + 1] = ran
  <2> HIDE DEF ran
  <2> HIDE DEF Run
  <2> QED
    BY <1>1
<1>3. made = [from EXCEPT !.runs = Append(from.runs, ran)]
  BY DEF Product
<1>4. made.inputs = from.inputs /\ made.runs = Append(from.runs, ran) /\ made \in Lineage
  <2> HIDE DEF ran
  <2> QED
    BY <1>2, <1>3 DEF Lineage
<1> QED
  BY <1>2, <1>4

LEMMA InputsFacts ==
  ASSUME NEW p \in Proc, Chained(p)
  PROVE  /\ Inputs(p) \in Lineage
         /\ Inputs(p).inputs = p.snap
         /\ Len(Inputs(p).runs) = Len(p.products)
         /\ p.products # << >> => Inputs(p) = p.products[Len(p.products)]
<1>1. p.products \in Seq(Lineage) /\ p.snap \in Versions
  BY DEF Proc
<1>2. CASE p.products = << >>
  <2>1. Inputs(p) = [inputs |-> p.snap, runs |-> << >>]
    BY <1>2 DEF Inputs
  <2> QED
    BY <1>1, <1>2, <2>1 DEF Lineage
<1>3. CASE p.products # << >>
  <2>1. Len(p.products) \in 1 .. Len(p.products)
    BY <1>1, <1>3
  <2>2. Inputs(p) = p.products[Len(p.products)] /\ Inputs(p) \in Lineage
    BY <1>1, <1>3, <2>1 DEF Inputs
  <2> QED
    BY <1>3, <2>1, <2>2 DEF Chained
<1> QED
  BY <1>2, <1>3

\* A build goes on to the next stage with the bytes of its entry.
LEMMA AdvanceKeeps ==
  ASSUME NEW p \in Proc, p.at \in Keyed \cup {"lookup"}, NEW t \in Nat, NEW salt \in Salt, NEW now \in Nat,
         NEW bytes, bytes = Product(Inputs(p), t, salt),
         NEW q, q = Advance(p, bytes), t \in p.tools .. now,
         NEW seals, NEW installed, NEW entries, NEW lost,
         Filled(p), Chained(p), Dated(p, now), Bound(p, seals), Held(p, entries, lost),
         LET k == [tool |-> t, from |-> Inputs(p)] IN
           k \in lost \/ (k \in DOMAIN entries /\ entries[k].whole /\ entries[k].bytes = bytes)
  PROVE  /\ q \in Proc /\ Filled(q) /\ Chained(q) /\ Dated(q, now) /\ Worked(q) /\ Bound(q, seals)
         /\ Assembled(q) /\ Placed(q, installed, lost) /\ Held(q, entries, lost)
<1> DEFINE n == Len(p.products)  more == Append(p.products, bytes)
<1>1. /\ p.products \in Seq(Lineage) /\ n \in Nat /\ n < Stages /\ Stages \in Nat
      /\ p.tools \in Nat /\ p.snap \in Versions
  BY StagesAssumption DEF Proc, Chained
<1>2. /\ Inputs(p) \in Lineage /\ Inputs(p).inputs = p.snap /\ Len(Inputs(p).runs) = n
      /\ p.products # << >> => Inputs(p) = p.products[n]
  BY InputsFacts
<1>3. /\ bytes \in Lineage /\ bytes.inputs = p.snap /\ Len(bytes.runs) = n + 1
      /\ \A m \in 1 .. n : bytes.runs[m] = Inputs(p).runs[m]
      /\ bytes.runs[n + 1] = [by |-> t, salt |-> salt]
  <2> DEFINE from == Inputs(p)
  <2>1. from \in Lineage /\ from.inputs = p.snap /\ Len(from.runs) = n /\ bytes = Product(from, t, salt)
    BY <1>2
  <2> HIDE DEF from, n
  <2>2. /\ bytes \in Lineage /\ bytes.inputs = from.inputs /\ Len(bytes.runs) = Len(from.runs) + 1
        /\ \A m \in 1 .. Len(from.runs) : bytes.runs[m] = from.runs[m]
        /\ bytes.runs[Len(from.runs) + 1] = [by |-> t, salt |-> salt]
    BY <2>1, ProductFacts
  <2> QED
    BY <2>1, <2>2 DEF from
<1>4. /\ more \in Seq(Lineage) /\ Len(more) = n + 1 /\ more[n + 1] = bytes
      /\ \A s \in 1 .. n : more[s] = p.products[s]
  <2> HIDE DEF Lineage
  <2> QED
    BY <1>1, <1>3
<1>5. q = [p EXCEPT !.products = more, !.lock = None, !.key = None, !.work = None, !.made = 0,
                    !.at = IF n + 1 < Stages THEN "lookup" ELSE "tools"]
  BY DEF Advance
<1>6. /\ q \in Proc /\ q.products = more /\ q.snap = p.snap /\ q.out = p.out /\ q.plan = p.plan
      /\ q.planTool = p.planTool /\ q.tools = p.tools
      /\ q.at = IF n + 1 < Stages THEN "lookup" ELSE "tools"
  <2> DEFINE at == IF n + 1 < Stages THEN "lookup" ELSE "tools"
  <2>1. at \in Steps
    BY StepNames
  <2> HIDE DEF more, at
  <2>2. q = [p EXCEPT !.products = more, !.lock = None, !.key = None, !.work = None, !.made = 0,
                      !.at = at]
    BY <1>5 DEF at
  <2>3. /\ q \in Proc /\ q.products = more /\ q.snap = p.snap /\ q.out = p.out /\ q.plan = p.plan
        /\ q.planTool = p.planTool /\ q.tools = p.tools /\ q.at = at
    BY ONLY p \in Proc, <1>4, <2>1, <2>2 DEF Proc
  <2> QED
    BY <2>3 DEF at
<1> HIDE DEF more
<1>7. Chained(q)
  <2>1. ASSUME NEW s \in 1 .. n + 1
        PROVE  /\ more[s].inputs = p.snap
               /\ Len(more[s].runs) = s
               /\ \A m \in 1 .. (s - 1) : more[s].runs[m] = more[s - 1].runs[m]
    <3>1. CASE s \in 1 .. n
      <4>1. ASSUME NEW m \in 1 .. (s - 1)
            PROVE  more[s].runs[m] = more[s - 1].runs[m]
        <5>1. s - 1 \in 1 .. n
          BY <1>1, <3>1
        <5>2. more[s] = p.products[s] /\ more[s - 1] = p.products[s - 1]
          BY <1>4, <3>1, <5>1
        <5>3. p.products[s].runs[m] = p.products[s - 1].runs[m]
          BY <3>1 DEF Chained
        <5> QED
          BY <5>2, <5>3
      <4> QED
        BY <1>4, <3>1, <4>1 DEF Chained
    <3>2. CASE s = n + 1
      <4>1. ASSUME NEW m \in 1 .. n
            PROVE  bytes.runs[m] = more[n].runs[m]
        <5>1. n \in 1 .. n /\ p.products # << >>
          BY <1>1
        <5> QED
          BY <1>2, <1>3, <1>4, <5>1
      <4>2. more[s] = bytes /\ s - 1 = n
        BY <1>1, <1>4, <3>2
      <4>3. bytes.inputs = p.snap /\ Len(bytes.runs) = s
        BY <1>3, <3>2
      <4> QED
        BY <3>2, <4>1, <4>2, <4>3
    <3> QED
      BY <1>1, <3>1, <3>2
  <2>2. q.at = (IF n + 1 < Stages THEN "lookup" ELSE "tools") /\ Len(q.products) = n + 1
    BY <1>4, <1>6
  <2>3. q.at \notin Early /\ q.at \notin Keyed
    BY <2>2 DEF Early, Keyed
  <2>4. q.at = "lookup" => Len(q.products) < Stages
    BY <2>2
  <2>5. q.at \in Closing \cup {"tools"} => Len(q.products) = Stages
    BY <1>1, <2>2 DEF Closing
  <2> HIDE DEF n
  <2> QED
    BY <1>6, <2>1, <2>2, <2>3, <2>4, <2>5 DEF Chained
<1>8. Dated(q, now)
  <2>1. ASSUME NEW s \in 1 .. n + 1, NEW m \in 1 .. s
        PROVE  more[s].runs[m].by \in p.tools .. now
    <3>1. CASE s \in 1 .. n
      BY <1>4, <3>1 DEF Dated
    <3>2. CASE s = n + 1 /\ m = n + 1
      BY <1>3, <1>4, <3>2
    <3>3. CASE s = n + 1 /\ m \in 1 .. n
      <4>1. n \in 1 .. n /\ p.products # << >>
        BY <1>1, <3>3
      <4>2. more[s].runs[m] = p.products[n].runs[m]
        BY <1>2, <1>3, <1>4, <3>3, <4>1
      <4> QED
        BY <3>3, <4>1, <4>2 DEF Dated
    <3> QED
      BY <1>1, <3>1, <3>2, <3>3
  <2>2. \A s \in 1 .. Len(q.products) : \A m \in 1 .. s : q.products[s].runs[m].by \in q.tools .. now
    BY <1>4, <1>6, <2>1
  <2>3. p.at \in Owning \ Early
    BY DEF Keyed, Owning, Early
  <2>4. q.at \in {"lookup", "tools"}
    BY <1>6
  <2> QED
    BY <1>6, <2>2, <2>3, <2>4 DEF Dated, Early, Keyed, Closing, Sealed, Owning
<1>9. Held(q, entries, lost)
  <2>1. ASSUME NEW s \in 1 .. n + 1
        PROVE  LET k == KeyOf(p.snap, more, s) IN
               k \in lost \/ (k \in DOMAIN entries /\ entries[k].whole /\ entries[k].bytes = more[s])
    <3>1. CASE s \in 1 .. n
      <4>1. s # 1 => s - 1 \in 1 .. n
        BY <1>1, <3>1
      <4>2. KeyOf(p.snap, more, s) = KeyOf(p.snap, p.products, s) /\ more[s] = p.products[s]
        BY <1>4, <3>1, <4>1 DEF KeyOf
      <4> QED
        BY <3>1, <4>2 DEF Held
    <3>2. CASE s = n + 1
      <4>1. more[s] = bytes /\ bytes.runs[s].by = t
        BY <1>3, <1>4, <3>2
      <4>2. CASE s = 1
        <5>1. p.products = << >>
          BY <1>1, <3>2, <4>2
        <5>2. KeyOf(p.snap, more, s) = [tool |-> t, from |-> Inputs(p)]
          BY <4>1, <4>2, <5>1 DEF KeyOf, Inputs
        <5> QED
          BY <4>1, <5>2
      <4>3. CASE s # 1
        <5>1. n \in 1 .. n /\ p.products # << >> /\ s - 1 = n
          BY <1>1, <3>2, <4>3
        <5>2. KeyOf(p.snap, more, s) = [tool |-> t, from |-> Inputs(p)]
          BY <1>2, <1>4, <4>1, <4>3, <5>1 DEF KeyOf
        <5> QED
          BY <4>1, <5>2
      <4> QED
        BY <4>2, <4>3
    <3> QED
      BY <1>1, <3>1, <3>2
  <2> QED
    BY <1>4, <1>6, <2>1 DEF Held
<1>10. /\ Filled(q) /\ Worked(q) /\ Bound(q, seals) /\ Assembled(q) /\ Placed(q, installed, lost)
  <2>1. q.at \in {"lookup", "tools"}
    BY <1>6
  <2>2. p.at # "idle" /\ p.at \in Owning \ Early
    BY DEF Keyed, Owning, Early
  <2> QED
    BY <1>6, <2>1, <2>2 DEF Filled, Worked, Bound, Assembled, Placed, Early, Keyed, Sealed, Owning
<1> QED
  BY <1>6, <1>7, <1>8, <1>9, <1>10

LEMMA ReuseKeeps ==
  ASSUME IInv, NEW b \in Build, Reuse(b)
  PROVE  IInv'
<1> DEFINE p == proc[b]  k == Key(p, tool)  bytes == cache[k].bytes  q == Advance(p, bytes)
<1>1. p \in Proc /\ Knows(p) /\ p.at = "lookup" /\ tool \in Nat
  BY OfBuild DEF Reuse
<1>2. k \in DOMAIN cache /\ cache[k].whole /\ k = [tool |-> tool, from |-> Inputs(p)]
  BY DEF Reuse, Checked, Key
<1>3. PICK salt \in Salt : bytes = Product(Inputs(p), tool, salt)
  BY <1>2 DEF IInv, EntriesTrue, Checked
<1>4. tool \in p.tools .. tool
  BY <1>1 DEF Knows, Dated, Owning, Proc
<1>5. proc' = [proc EXCEPT ![b] = q] /\ UNCHANGED <<source, tool, manifest, sealed, damaged, cache>> /\ UNCHANGED published
  BY DEF Reuse, environment
<1>6. q = Advance(p, bytes) /\ cache[k].bytes = bytes
  OBVIOUS
<1> HIDE DEF p, k, bytes, q
<1>7. /\ q \in Proc /\ Filled(q) /\ Chained(q) /\ Dated(q, tool) /\ Worked(q) /\ Bound(q, sealed)
      /\ Assembled(q) /\ Placed(q, releases, damaged) /\ Held(q, cache, damaged)
  BY <1>1, <1>2, <1>3, <1>4, <1>6, AdvanceKeeps DEF Knows
<1> QED
  BY <1>5, <1>7, PrivateKeeps DEF Private

LEMMA MissKeeps ==
  ASSUME IInv, NEW b \in Build, Miss(b)
  PROVE  IInv'
<1> DEFINE p == proc[b]  k == Key(p, tool)  q == [p EXCEPT !.at = "launch", !.key = k]
<1>1. p \in Proc /\ Knows(p) /\ p.at = "lookup" /\ tool \in Nat
  BY OfBuild DEF Miss
<1>2. k \in Keys /\ k.tool = tool /\ k.from = Inputs(p)
  BY <1>1, InputsFacts DEF Knows, Key, Keys
<1>3. proc' = [proc EXCEPT ![b] = q] /\ UNCHANGED <<source, tool, manifest, sealed, damaged, cache>> /\ UNCHANGED published
  BY DEF Miss, environment
<1> HIDE DEF k
<1>4. /\ q \in Proc /\ q.at = "launch" /\ q.key = k /\ q.products = p.products /\ q.snap = p.snap
      /\ q.out = p.out /\ q.plan = p.plan /\ q.planTool = p.planTool /\ q.tools = p.tools
  BY <1>1, <1>2, StepNames DEF Proc
<1> HIDE DEF p, q
<1>5. Inputs(q) = Inputs(p)
  BY <1>4 DEF Inputs
<1>6. p.tools \in Nat
  BY <1>1 DEF Proc
<1>7. Chained(q)
  BY <1>1, <1>2, <1>4, <1>5 DEF Knows, Chained, Early, Keyed, Closing
<1>8. Dated(q, tool)
  BY <1>1, <1>2, <1>4, <1>6 DEF Knows, Dated, Early, Keyed, Closing, Sealed, Owning
<1>9. /\ Filled(q) /\ Worked(q) /\ Bound(q, sealed) /\ Assembled(q) /\ Placed(q, releases, damaged)
      /\ Held(q, cache, damaged)
  BY <1>1, <1>2, <1>4
     DEF Knows, Filled, Worked, Bound, Assembled, Placed, Held, Early, Keyed, Sealed, Owning
<1> QED
  BY <1>3, <1>4, <1>7, <1>8, <1>9, PrivateKeeps DEF Private

LEMMA LaunchKeeps ==
  ASSUME IInv, NEW b \in Build, Launch(b)
  PROVE  IInv'
<1> DEFINE p == proc[b]  q == [p EXCEPT !.at = "compiling", !.made = tool]
<1>1. p \in Proc /\ Knows(p) /\ p.at = "launch" /\ tool \in Nat
  BY OfBuild DEF Launch
<1>2. proc' = [proc EXCEPT ![b] = q] /\ UNCHANGED <<source, tool, manifest, sealed, damaged, cache>> /\ UNCHANGED published
  BY DEF Launch, environment
<1>3. /\ q \in Proc /\ q.at = "compiling" /\ q.made = tool /\ q.key = p.key /\ q.products = p.products
      /\ q.snap = p.snap /\ q.out = p.out /\ q.plan = p.plan /\ q.planTool = p.planTool /\ q.tools = p.tools
  BY <1>1, StepNames DEF Proc
<1> HIDE DEF p, q
<1>4. Inputs(q) = Inputs(p)
  BY <1>3 DEF Inputs
<1>5. p.tools \in Nat /\ p.key.tool \in Nat
  BY <1>1 DEF Proc, Knows, Filled, Keyed, Keys
<1>6. Chained(q)
  BY <1>1, <1>3, <1>4 DEF Knows, Chained, Early, Keyed, Closing
<1>7. Dated(q, tool)
  BY <1>1, <1>3, <1>5 DEF Knows, Dated, Early, Keyed, Closing, Sealed, Owning
<1>8. /\ Filled(q) /\ Worked(q) /\ Bound(q, sealed) /\ Assembled(q) /\ Placed(q, releases, damaged)
      /\ Held(q, cache, damaged)
  BY <1>1, <1>3
     DEF Knows, Filled, Worked, Bound, Assembled, Placed, Held, Early, Keyed, Sealed, Owning
<1> QED
  BY <1>2, <1>3, <1>6, <1>7, <1>8, PrivateKeeps DEF Private

LEMMA CompilerDoneKeeps ==
  ASSUME IInv, NEW b \in Build, NEW salt \in Salt, CompilerDone(b, salt)
  PROVE  IInv'
<1> DEFINE p == proc[b]  bytes == Product(p.key.from, p.made, salt)
           q == [p EXCEPT !.at = "verify", !.work = bytes]
<1>1. p \in Proc /\ Knows(p) /\ p.at = "compiling" /\ tool \in Nat
  BY OfBuild DEF CompilerDone
<1>2. p.key.from \in Lineage /\ p.made \in Nat
  BY <1>1 DEF Proc, Knows, Filled, Keyed, Keys
<1>3. bytes \in Lineage
  BY <1>2, ProductFacts
<1>4. proc' = [proc EXCEPT ![b] = q] /\ UNCHANGED <<source, tool, manifest, sealed, damaged, cache>> /\ UNCHANGED published
  BY DEF CompilerDone, environment
<1>5. bytes = Product(p.key.from, p.made, salt)
  OBVIOUS
<1> HIDE DEF bytes
<1>6. /\ q \in Proc /\ q.at = "verify" /\ q.made = p.made /\ q.key = p.key /\ q.work = bytes
      /\ q.products = p.products /\ q.snap = p.snap /\ q.out = p.out /\ q.plan = p.plan
      /\ q.planTool = p.planTool /\ q.tools = p.tools
  BY <1>1, <1>3, StepNames DEF Proc
<1> HIDE DEF p, q
<1>7. Inputs(q) = Inputs(p)
  BY <1>6 DEF Inputs
<1>8. Chained(q)
  BY <1>1, <1>6, <1>7 DEF Knows, Chained, Early, Keyed, Closing
<1>9. Dated(q, tool)
  BY <1>1, <1>6 DEF Knows, Dated, Early, Keyed, Closing, Sealed, Owning
<1>10. /\ Filled(q) /\ Worked(q) /\ Bound(q, sealed) /\ Assembled(q) /\ Placed(q, releases, damaged)
       /\ Held(q, cache, damaged)
  BY <1>1, <1>3, <1>5, <1>6
     DEF Knows, Filled, Worked, Bound, Assembled, Placed, Held, Early, Keyed, Sealed, Owning
<1> QED
  BY <1>4, <1>6, <1>8, <1>9, <1>10, PrivateKeeps DEF Private

\* The compiler that ran was installed between the lookup and this check, and
\* both found the same one: it is the compiler of the key.
LEMMA SameCompilerKeeps ==
  ASSUME IInv, NEW b \in Build, SameCompiler(b)
  PROVE  IInv'
<1> DEFINE p == proc[b]  q == [p EXCEPT !.at = "wait"]
<1>1. p \in Proc /\ Knows(p) /\ p.at = "verify" /\ tool \in Nat /\ tool = p.key.tool
  BY OfBuild DEF SameCompiler
<1>2. proc' = [proc EXCEPT ![b] = q] /\ UNCHANGED <<source, tool, manifest, sealed, damaged, cache>> /\ UNCHANGED published
  BY DEF SameCompiler, environment
<1>3. /\ q \in Proc /\ q.at = "wait" /\ q.key = p.key /\ q.work = p.work
      /\ q.products = p.products /\ q.snap = p.snap /\ q.out = p.out /\ q.plan = p.plan
      /\ q.planTool = p.planTool /\ q.tools = p.tools
  BY <1>1, StepNames DEF Proc
<1>4. p.made \in Nat
  BY <1>1 DEF Proc
<1> HIDE DEF p, q
<1>5. p.made = p.key.tool
  BY <1>1, <1>4 DEF Knows, Dated
<1>6. Inputs(q) = Inputs(p)
  BY <1>3 DEF Inputs
<1>7. Chained(q)
  BY <1>1, <1>3, <1>6 DEF Knows, Chained, Early, Keyed, Closing
<1>8. Dated(q, tool)
  BY <1>1, <1>3 DEF Knows, Dated, Early, Keyed, Closing, Sealed, Owning
<1>9. /\ Filled(q) /\ Worked(q) /\ Bound(q, sealed) /\ Assembled(q) /\ Placed(q, releases, damaged)
      /\ Held(q, cache, damaged)
  BY <1>1, <1>3, <1>5
     DEF Knows, Filled, Worked, Bound, Assembled, Placed, Held, Early, Keyed, Sealed, Owning
<1> QED
  BY <1>2, <1>3, <1>7, <1>8, <1>9, PrivateKeeps DEF Private

LEMMA LockEntryKeeps ==
  ASSUME IInv, NEW b \in Build, LockEntry(b)
  PROVE  IInv'
<1> DEFINE p == proc[b]  q == [p EXCEPT !.at = "publish", !.lock = p.key]
<1>1. p \in Proc /\ Knows(p) /\ p.at = "wait" /\ tool \in Nat
  BY OfBuild DEF LockEntry
<1>2. proc' = [proc EXCEPT ![b] = q] /\ UNCHANGED <<source, tool, manifest, sealed, damaged, cache>> /\ UNCHANGED published
  BY DEF LockEntry, environment
<1>3. /\ q \in Proc /\ q.at = "publish" /\ q.key = p.key /\ q.work = p.work
      /\ q.products = p.products /\ q.snap = p.snap /\ q.out = p.out /\ q.plan = p.plan
      /\ q.planTool = p.planTool /\ q.tools = p.tools
  BY <1>1, StepNames DEF Proc
<1> HIDE DEF p, q
<1>4. Inputs(q) = Inputs(p)
  BY <1>3 DEF Inputs
<1>5. Chained(q)
  BY <1>1, <1>3, <1>4 DEF Knows, Chained, Early, Keyed, Closing
<1>6. Dated(q, tool)
  BY <1>1, <1>3 DEF Knows, Dated, Early, Keyed, Closing, Sealed, Owning
<1>7. /\ Filled(q) /\ Worked(q) /\ Bound(q, sealed) /\ Assembled(q) /\ Placed(q, releases, damaged)
      /\ Held(q, cache, damaged)
  BY <1>1, <1>3
     DEF Knows, Filled, Worked, Bound, Assembled, Placed, Held, Early, Keyed, Sealed, Owning
<1> QED
  BY <1>2, <1>3, <1>5, <1>6, <1>7, PrivateKeeps DEF Private

\* The entry a build publishes to is keyed by what it compiled.
LEMMA KeyFacts ==
  ASSUME NEW p \in Proc, Filled(p), Chained(p), Dated(p, tool), p.at = "publish"
  PROVE  /\ p.key \in Keys /\ p.key = [tool |-> p.key.tool, from |-> Inputs(p)]
         /\ p.key.tool \in Nat /\ p.key.tool \in p.tools .. tool /\ p.work \in Lineage
BY DEF Filled, Chained, Dated, Keyed, Keys

LEMMA AdoptKeeps ==
  ASSUME IInv, NEW b \in Build, Adopt(b)
  PROVE  IInv'
<1> DEFINE p == proc[b]  k == p.key  bytes == cache[k].bytes  q == Advance(p, bytes)
<1>1. p \in Proc /\ Knows(p) /\ p.at = "publish" /\ tool \in Nat
  BY OfBuild DEF Adopt
<1>2. k \in DOMAIN cache /\ cache[k].whole
  BY DEF Adopt, Checked
<1>3. k = [tool |-> k.tool, from |-> Inputs(p)] /\ k.tool \in Nat /\ k.tool \in p.tools .. tool
  BY <1>1, KeyFacts DEF Knows
<1>4. PICK salt \in Salt : bytes = Product(Inputs(p), k.tool, salt)
  BY <1>2, <1>3 DEF IInv, EntriesTrue, Checked
<1>5. proc' = [proc EXCEPT ![b] = q] /\ UNCHANGED <<source, tool, manifest, sealed, damaged, cache>> /\ UNCHANGED published
  BY DEF Adopt, environment
<1>6. q = Advance(p, bytes) /\ cache[k].bytes = bytes
  OBVIOUS
<1> HIDE DEF p, k, bytes, q
<1>7. /\ q \in Proc /\ Filled(q) /\ Chained(q) /\ Dated(q, tool) /\ Worked(q) /\ Bound(q, sealed)
      /\ Assembled(q) /\ Placed(q, releases, damaged) /\ Held(q, cache, damaged)
  BY <1>1, <1>2, <1>3, <1>4, <1>6, AdvanceKeeps DEF Knows, Keyed
<1> QED
  BY <1>5, <1>7, PrivateKeeps DEF Private

LEMMA SetAsideKeeps ==
  ASSUME IInv, NEW b \in Build, SetAside(b)
  PROVE  IInv'
<1> DEFINE p == proc[b]  k == p.key
<1>1. p \in Proc /\ Knows(p) /\ proc \in [Build -> Proc] /\ tool \in Nat
  BY OfBuild
<1>2. proc' = [proc EXCEPT ![b] = p]
  BY <1>1 DEF SetAside
<1>3. /\ UNCHANGED <<source, tool, manifest, sealed, damaged>>
      /\ UNCHANGED <<releases, broken, selected, links, report>>
  BY DEF SetAside, environment, published
<1>4. /\ DOMAIN cache' = DOMAIN cache \ {k} /\ ~cache[k].whole
      /\ \A x \in DOMAIN cache \ {k} : cache'[x] = cache[x]
  BY DEF SetAside, Unstore
<1>5. \A x \in DOMAIN cache : cache[x].whole => x \in DOMAIN cache' /\ cache'[x] = cache[x]
  BY <1>4
<1>6. SharedTyped' /\ OutputIsComplete' /\ ReleasesCoherent'
  BY <1>3, <1>4, Types DEF IInv, SharedTyped, OutputIsComplete, ReleasesCoherent
<1>7. EntriesTrue'
  BY <1>4 DEF IInv, EntriesTrue, Checked
<1>8. Held(p, cache', damaged)
  <2> HIDE DEF p
  <2> QED
    BY <1>1, <1>5, HeldLasts DEF Knows
<1>9. \A o \in Output : releases[o] \subseteq releases'[o]
  BY <1>3
<1> HIDE DEF p, k
<1> QED
  BY <1>1, <1>2, <1>3, <1>5, <1>6, <1>7, <1>8, <1>9, StepKeeps DEF Knows, Private

LEMMA InstallKeeps ==
  ASSUME IInv, NEW b \in Build, Install(b)
  PROVE  IInv'
<1> DEFINE p == proc[b]  k == p.key  entry == [bytes |-> p.work, whole |-> TRUE]  q == Advance(p, p.work)
<1>1. p \in Proc /\ Knows(p) /\ p.at = "publish" /\ tool \in Nat
  BY OfBuild DEF Install
<1>2. /\ k \in Keys /\ k = [tool |-> k.tool, from |-> Inputs(p)] /\ k.tool \in Nat
      /\ k.tool \in p.tools .. tool /\ p.work \in Lineage
  BY <1>1, KeyFacts DEF Knows
<1>3. PICK salt \in Salt : p.work = Product(k.from, k.tool, salt)
  BY <1>1 DEF Knows, Worked
<1>4. /\ UNCHANGED <<source, tool, manifest, sealed, damaged>>
      /\ UNCHANGED <<releases, broken, selected, links, report>> /\ proc' = [proc EXCEPT ![b] = q]
  BY DEF Install, environment, published
<1>5. /\ k \notin DOMAIN cache /\ DOMAIN cache' = DOMAIN cache \cup {k} /\ cache'[k] = entry
      /\ \A x \in DOMAIN cache : cache'[x] = cache[x]
  BY DEF Install, Store
<1>6. entry.bytes = p.work /\ entry.whole /\ entry \in [bytes : Lineage, whole : BOOLEAN]
  BY <1>2
<1>7. q = Advance(p, p.work)
  OBVIOUS
<1> HIDE DEF entry, q
<1>8. SharedTyped' /\ OutputIsComplete' /\ ReleasesCoherent'
  <2>1. \A x \in DOMAIN cache' : cache'[x] \in [bytes : Lineage, whole : BOOLEAN]
    BY <1>5, <1>6, Types DEF IInv, SharedTyped
  <2> QED
    BY <1>2, <1>4, <1>5, <2>1, Types DEF IInv, SharedTyped, OutputIsComplete, ReleasesCoherent
<1>9. EntriesTrue'
  <2>1. ASSUME NEW x \in DOMAIN cache', cache'[x].whole
        PROVE  \E s \in Salt : cache'[x].bytes = Product(x.from, x.tool, s)
    <3>1. CASE x = k
      BY <1>3, <1>5, <1>6, <3>1
    <3>2. CASE x # k
      BY <1>5, <2>1, <3>2 DEF IInv, EntriesTrue, Checked
    <3> QED
      BY <3>1, <3>2
  <2> QED
    BY <2>1 DEF EntriesTrue, Checked
<1> HIDE DEF p
<1>10. Held(p, cache', damaged)
  BY <1>1, <1>5, HeldLasts DEF Knows
<1> HIDE DEF k
<1>11. /\ q \in Proc /\ Filled(q) /\ Chained(q) /\ Dated(q, tool) /\ Worked(q) /\ Bound(q, sealed)
       /\ Assembled(q) /\ Placed(q, releases', damaged) /\ Held(q, cache', damaged)
  <2>1. p.work = Product(Inputs(p), k.tool, salt)
    BY <1>2, <1>3
  <2> DEFINE entries == cache'  installed == releases'  key == [tool |-> k.tool, from |-> Inputs(p)]
  <2>2. key \in DOMAIN entries /\ entries[key].whole /\ entries[key].bytes = p.work
    BY <1>2, <1>5, <1>6
  <2>3. Held(p, entries, damaged)
    BY <1>10
  <2> HIDE DEF entries, installed
  <2>4. /\ q \in Proc /\ Filled(q) /\ Chained(q) /\ Dated(q, tool) /\ Worked(q) /\ Bound(q, sealed)
        /\ Assembled(q) /\ Placed(q, installed, damaged) /\ Held(q, entries, damaged)
    BY <1>1, <1>2, <1>7, <2>1, <2>2, <2>3, AdvanceKeeps DEF Knows, Keyed
  <2> QED
    BY <2>4 DEF entries, installed
<1>12. \A o \in Output : releases[o] \subseteq releases'[o]
  BY <1>4
<1> QED
  BY <1>4, <1>5, <1>8, <1>9, <1>11, <1>12, StepKeeps DEF Private

-----------------------------------------------------------------------------
(* After the last stage.                                                   *)

\* No version between the tools a build started with and the present one:
\* every stage ran with the same compiler.
LEMMA SameToolsKeeps ==
  ASSUME IInv, NEW b \in Build, SameTools(b)
  PROVE  IInv'
<1> DEFINE p == proc[b]  q == [p EXCEPT !.at = "finalize"]
<1>1. p \in Proc /\ Knows(p) /\ p.at = "tools" /\ tool \in Nat /\ tool = p.tools
  BY OfBuild DEF SameTools
<1>2. proc' = [proc EXCEPT ![b] = q] /\ UNCHANGED <<source, tool, manifest, sealed, damaged, cache>> /\ UNCHANGED published
  BY DEF SameTools, environment
<1>3. /\ q \in Proc /\ q.at = "finalize" /\ q.products = p.products /\ q.snap = p.snap /\ q.out = p.out
      /\ q.plan = p.plan /\ q.planTool = p.planTool /\ q.tools = p.tools
  BY <1>1, StepNames DEF Proc
<1> HIDE DEF p, q
<1>4. \A s \in 1 .. Len(p.products) : \A t \in 1 .. s : p.products[s].runs[t].by = p.tools
  <2>1. ASSUME NEW s \in 1 .. Len(p.products), NEW t \in 1 .. s
        PROVE  p.products[s].runs[t].by = p.tools
    <3>1. p.products[s].runs[t].by \in p.tools .. tool
      BY <1>1 DEF Knows, Dated
    <3> QED
      BY <1>1, <3>1
  <2> QED
    BY <2>1
<1>5. Dated(q, tool)
  BY <1>1, <1>3, <1>4 DEF Knows, Dated, Early, Keyed, Closing, Sealed, Owning
<1>6. /\ Filled(q) /\ Chained(q) /\ Worked(q) /\ Bound(q, sealed) /\ Assembled(q)
      /\ Placed(q, releases, damaged) /\ Held(q, cache, damaged)
  BY <1>1, <1>3 DEF Knows, Filled, Chained, Worked, Bound, Assembled, Placed, Held,
                    Early, Keyed, Closing, Sealed, Owning
<1> QED
  BY <1>2, <1>3, <1>5, <1>6, PrivateKeeps DEF Private

LEMMA FinalizeKeeps ==
  ASSUME IInv, NEW b \in Build, Finalize(b)
  PROVE  IInv'
<1> DEFINE p == proc[b]
           release == [inputs |-> p.snap, products |-> p.products,
                       tool |-> IF p.out \in Bundle THEN p.planTool ELSE tool]
           q == [p EXCEPT !.at = "recheck", !.release = release]
<1>1. p \in Proc /\ Knows(p) /\ p.at = "finalize" /\ tool \in Nat
  BY OfBuild DEF Finalize
<1>2. proc' = [proc EXCEPT ![b] = q] /\ UNCHANGED <<source, tool, manifest, sealed, damaged, cache>> /\ UNCHANGED published
  BY DEF Finalize, environment
<1>3. p.tools \in Nat /\ p.planTool \in Nat /\ p.tools <= tool /\ (p.out \in Bundle => p.planTool = p.tools)
  BY <1>1 DEF Knows, Dated, Proc, Owning, Early
<1>4. /\ release \in Release /\ release.inputs = p.snap /\ release.products = p.products
      /\ release.tool \in p.tools .. tool
  BY <1>1, <1>3 DEF Release, Proc
<1> HIDE DEF release
<1>5. /\ q \in Proc /\ q.at = "recheck" /\ q.release = release /\ q.products = p.products /\ q.snap = p.snap
      /\ q.out = p.out /\ q.plan = p.plan /\ q.planTool = p.planTool /\ q.tools = p.tools
  BY <1>1, <1>4, StepNames DEF Proc
<1> HIDE DEF p, q
<1>6. Dated(q, tool)
  BY <1>1, <1>4, <1>5 DEF Knows, Dated, Early, Keyed, Closing, Sealed, Owning
<1>7. /\ Filled(q) /\ Chained(q) /\ Worked(q) /\ Bound(q, sealed) /\ Assembled(q)
      /\ Placed(q, releases, damaged) /\ Held(q, cache, damaged)
  BY <1>1, <1>4, <1>5 DEF Knows, Filled, Chained, Worked, Bound, Assembled, Placed, Held,
                          Early, Keyed, Closing, Sealed, Owning
<1> QED
  BY <1>2, <1>5, <1>6, <1>7, PrivateKeeps DEF Private

LEMMA SameToolsAgainKeeps ==
  ASSUME IInv, NEW b \in Build, SameToolsAgain(b)
  PROVE  IInv'
<1> DEFINE p == proc[b]  q == [p EXCEPT !.at = "release"]
<1>1. p \in Proc /\ Knows(p) /\ p.at = "recheck" /\ tool \in Nat /\ tool = p.tools
  BY OfBuild DEF SameToolsAgain
<1>2. proc' = [proc EXCEPT ![b] = q] /\ UNCHANGED <<source, tool, manifest, sealed, damaged, cache>> /\ UNCHANGED published
  BY DEF SameToolsAgain, environment
<1>3. /\ q \in Proc /\ q.at = "release" /\ q.release = p.release /\ q.products = p.products /\ q.snap = p.snap
      /\ q.out = p.out /\ q.plan = p.plan /\ q.planTool = p.planTool /\ q.tools = p.tools
  BY <1>1, StepNames DEF Proc
<1> HIDE DEF p, q
<1>4. p.release.tool = p.tools
  BY <1>1 DEF Knows, Dated, Sealed
<1>5. Dated(q, tool)
  BY <1>1, <1>3, <1>4 DEF Knows, Dated, Early, Keyed, Closing, Sealed, Owning
<1>6. /\ Filled(q) /\ Chained(q) /\ Worked(q) /\ Bound(q, sealed) /\ Assembled(q)
      /\ Placed(q, releases, damaged) /\ Held(q, cache, damaged)
  BY <1>1, <1>3 DEF Knows, Filled, Chained, Worked, Bound, Assembled, Placed, Held,
                    Early, Keyed, Closing, Sealed, Owning
<1> QED
  BY <1>2, <1>3, <1>5, <1>6, PrivateKeeps DEF Private

\* What the publication of p installs.
Coherent(o, r) ==
  /\ Len(r.products) = Stages
  /\ \A s \in 1 .. Stages :
       /\ r.products[s].inputs = r.inputs
       /\ Len(r.products[s].runs) = s
       /\ \A t \in 1 .. s : r.products[s].runs[t].by = r.tool
       /\ \A t \in 1 .. (s - 1) : r.products[s].runs[t] = r.products[s - 1].runs[t]
  /\ o \in Bundle => r.inputs \in sealed[o]

LEMMA AssembledCoherent ==
  ASSUME NEW p, Knows(p), p.at \in Sealed \ {"recheck"}
  PROVE  p.out \in Output /\ p.release \in Release /\ Coherent(p.out, p.release)
<1>1. /\ p.release.inputs = p.snap /\ p.release.products = p.products /\ p.release.tool = p.tools
      /\ Len(p.products) = Stages
  BY DEF Knows, Assembled, Dated, Chained, Sealed, Closing
<1>2. \A s \in 1 .. Stages : \A t \in 1 .. s : p.products[s].runs[t].by = p.tools
  BY <1>1 DEF Knows, Dated, Sealed, Closing
<1>3. p.out \in Output /\ p.release \in Release /\ (p.out \in Bundle => p.snap \in sealed[p.out])
  BY DEF Knows, Filled, Bound, Sealed, Owning, Early
<1> QED
  BY <1>1, <1>2, <1>3 DEF Knows, Chained, Coherent

LEMMA SetReleaseAsideKeeps ==
  ASSUME IInv, NEW b \in Build, SetReleaseAside(b)
  PROVE  IInv'
<1> DEFINE p == proc[b]
<1>1. p \in Proc /\ Knows(p) /\ proc \in [Build -> Proc] /\ p.out \in Output
  BY OfBuild DEF SetReleaseAside, Knows, Filled
<1>2. /\ UNCHANGED <<source, tool, manifest, sealed, damaged, cache, releases, selected, links, report>>
      /\ proc' = [proc EXCEPT ![b] = p] /\ broken' = [broken EXCEPT ![p.out] = broken[p.out] \ {p.release}]
  BY <1>1 DEF SetReleaseAside, environment
<1>3. SharedTyped' /\ EntriesTrue' /\ OutputIsComplete' /\ ReleasesCoherent'
  BY <1>1, <1>2, Types DEF IInv, SharedTyped, EntriesTrue, OutputIsComplete, ReleasesCoherent, Checked
<1> HIDE DEF p
<1> QED
  BY <1>1, <1>2, <1>3, StepKeeps DEF Knows, Private

LEMMA InstallReleaseKeeps ==
  ASSUME IInv, NEW b \in Build, InstallRelease(b)
  PROVE  IInv'
<1> DEFINE p == proc[b]  q == [p EXCEPT !.at = "link"]
<1>1. p \in Proc /\ Knows(p) /\ p.at = "release"
  BY OfBuild DEF InstallRelease
<1>2. p.out \in Output /\ p.release \in Release /\ Coherent(p.out, p.release)
  BY <1>1, AssembledCoherent DEF Sealed
<1>3. /\ UNCHANGED <<source, tool, manifest, sealed, damaged, cache, broken, selected, links, report>>
      /\ proc' = [proc EXCEPT ![b] = q]
      /\ releases' = [releases EXCEPT ![p.out] = releases[p.out] \cup {p.release}]
  BY DEF InstallRelease, environment
<1>4. /\ q \in Proc /\ q.at = "link" /\ q.release = p.release /\ q.products = p.products /\ q.snap = p.snap
      /\ q.out = p.out /\ q.plan = p.plan /\ q.planTool = p.planTool /\ q.tools = p.tools
  BY <1>1, StepNames DEF Proc
<1> HIDE DEF p, q
<1>5. releases \in [Output -> SUBSET Release]
  BY Types DEF IInv, SharedTyped
<1>6. /\ \A o \in Output : releases[o] \subseteq releases'[o]
      /\ \A o \in Output : \A r \in releases'[o] : r \in releases[o] \/ (o = p.out /\ r = p.release)
      /\ p.release \in releases'[p.out] /\ releases' \in [Output -> SUBSET Release]
  BY <1>2, <1>3, <1>5
<1>7. SharedTyped'
  BY <1>3, <1>6, Types DEF IInv, SharedTyped
<1>8. EntriesTrue' /\ OutputIsComplete'
  BY <1>3, <1>6 DEF IInv, EntriesTrue, OutputIsComplete, Checked
<1>9. ReleasesCoherent'
  <2>1. ASSUME NEW o \in Output, NEW r \in releases'[o]
        PROVE  Coherent(o, r)
    <3>1. CASE r \in releases[o]
      BY <3>1 DEF IInv, ReleasesCoherent, Coherent
    <3> QED
      BY <1>2, <1>6, <3>1
  <2> QED
    BY <1>3, <2>1 DEF ReleasesCoherent, Coherent
<1>10. /\ Filled(q) /\ Chained(q) /\ Worked(q) /\ Bound(q, sealed) /\ Assembled(q)
       /\ Held(q, cache', damaged)
  BY <1>1, <1>3, <1>4 DEF Knows, Filled, Chained, Worked, Bound, Assembled, Held,
                          Early, Keyed, Closing, Sealed, Owning
<1>11. Dated(q, tool)
  BY <1>1, <1>4 DEF Knows, Dated, Early, Keyed, Closing, Sealed, Owning
<1>12. Placed(q, releases', damaged)
  BY <1>4, <1>6 DEF Placed
<1> QED
  BY <1>3, <1>4, <1>6, <1>7, <1>8, <1>9, <1>10, <1>11, <1>12, StepKeeps DEF Private

LEMMA MakeLinkKeeps ==
  ASSUME IInv, NEW b \in Build, MakeLink(b)
  PROVE  IInv'
<1> DEFINE p == proc[b]  q == [p EXCEPT !.at = "switch"]
<1>1. p \in Proc /\ Knows(p) /\ p.at = "link"
  BY OfBuild DEF MakeLink
<1>2. /\ UNCHANGED <<source, tool, manifest, sealed, damaged, cache, releases, broken, selected, report>>
      /\ proc' = [proc EXCEPT ![b] = q] /\ links' = [links EXCEPT ![p.out] = links[p.out] \cup {b}]
  BY DEF MakeLink, environment
<1>3. /\ q \in Proc /\ q.at = "switch" /\ q.release = p.release /\ q.products = p.products /\ q.snap = p.snap
      /\ q.out = p.out /\ q.plan = p.plan /\ q.planTool = p.planTool /\ q.tools = p.tools
  BY <1>1, StepNames DEF Proc
<1> HIDE DEF p, q
<1>4. SharedTyped' /\ EntriesTrue' /\ OutputIsComplete' /\ ReleasesCoherent'
  BY <1>2, Types DEF IInv, SharedTyped, EntriesTrue, OutputIsComplete, ReleasesCoherent, Checked
<1>5. /\ Filled(q) /\ Chained(q) /\ Worked(q) /\ Bound(q, sealed) /\ Assembled(q)
      /\ Placed(q, releases', damaged) /\ Held(q, cache', damaged)
  <2>1. Filled(q) /\ Worked(q) /\ Bound(q, sealed) /\ Assembled(q)
    BY <1>1, <1>2, <1>3 DEF Knows, Filled, Worked, Bound, Assembled, Early, Keyed, Sealed, Owning
  <2>2. Chained(q) /\ Held(q, cache, damaged)
    BY <1>1, <1>2, <1>3 DEF Knows, Chained, Held, Early, Keyed, Closing
  <2>3. Placed(q, releases, damaged)
    BY <1>1, <1>2, <1>3 DEF Knows, Placed
  <2> QED
    BY <1>2, <2>1, <2>2, <2>3
<1>6. Dated(q, tool)
  BY <1>1, <1>3 DEF Knows, Dated, Early, Keyed, Closing, Sealed, Owning
<1> QED
  BY <1>2, <1>3, <1>4, <1>5, <1>6, StepKeeps DEF Private

LEMMA SwitchKeeps ==
  ASSUME IInv, NEW b \in Build, Switch(b)
  PROVE  IInv'
<1> DEFINE p == proc[b]  q == [p EXCEPT !.at = "report"]
<1>1. p \in Proc /\ Knows(p) /\ p.at = "switch"
  BY OfBuild DEF Switch
<1>2. p.out \in Output /\ p.release \in Release /\ p.release \in releases[p.out] \cup damaged
  BY <1>1 DEF Knows, Filled, Placed, Sealed
<1>3. /\ UNCHANGED <<source, tool, manifest, sealed, damaged, cache, releases, broken, report>>
      /\ proc' = [proc EXCEPT ![b] = q] /\ links' = [links EXCEPT ![p.out] = links[p.out] \ {b}]
      /\ selected' = [selected EXCEPT ![p.out] = p.release]
  BY DEF Switch, environment
<1>4. /\ q \in Proc /\ q.at = "report" /\ q.release = p.release /\ q.products = p.products /\ q.snap = p.snap
      /\ q.out = p.out /\ q.plan = p.plan /\ q.planTool = p.planTool /\ q.tools = p.tools
  BY <1>1, StepNames DEF Proc
<1> HIDE DEF p, q
<1>5. SharedTyped'
  BY <1>2, <1>3, Types DEF IInv, SharedTyped
<1>6. OutputIsComplete'
  BY <1>2, <1>3, Types DEF IInv, SharedTyped, OutputIsComplete
<1>7. EntriesTrue' /\ ReleasesCoherent'
  BY <1>3 DEF IInv, EntriesTrue, ReleasesCoherent, Checked
<1>8. /\ Filled(q) /\ Chained(q) /\ Worked(q) /\ Bound(q, sealed) /\ Assembled(q)
      /\ Placed(q, releases', damaged) /\ Held(q, cache', damaged)
  <2>1. Filled(q) /\ Worked(q) /\ Bound(q, sealed) /\ Assembled(q)
    BY <1>1, <1>3, <1>4 DEF Knows, Filled, Worked, Bound, Assembled, Early, Keyed, Sealed, Owning
  <2>2. Chained(q) /\ Held(q, cache, damaged)
    BY <1>1, <1>3, <1>4 DEF Knows, Chained, Held, Early, Keyed, Closing
  <2>3. Placed(q, releases, damaged)
    BY <1>1, <1>3, <1>4 DEF Knows, Placed
  <2> QED
    BY <1>3, <2>1, <2>2, <2>3
<1>9. Dated(q, tool)
  BY <1>1, <1>4 DEF Knows, Dated, Early, Keyed, Closing, Sealed, Owning
<1> QED
  BY <1>3, <1>4, <1>5, <1>6, <1>7, <1>8, <1>9, StepKeeps DEF Private

LEMMA CompleteKeeps ==
  ASSUME IInv, NEW b \in Build, Complete(b)
  PROVE  IInv'
<1> DEFINE p == proc[b]
<1>1. p \in Proc /\ Knows(p) /\ p.at = "report"
  BY OfBuild DEF Complete
<1>2. p.out \in Output /\ p.before \in Release \cup {None}
  BY <1>1 DEF Knows, Filled, Proc
<1>3. /\ UNCHANGED <<source, tool, manifest, sealed, damaged, cache, releases, broken, selected, links>>
      /\ proc' = [proc EXCEPT ![b] = Idle]
      /\ report' = [report EXCEPT ![p.out] =
                      [status |-> "complete", before |-> p.before, left |-> selected[p.out]]]
  BY DEF Complete, environment
<1> HIDE DEF p
<1>4. /\ links' \in [Output -> SUBSET Build]
      /\ report' \in [Output -> [status : {"none", "complete", "failed"},
                                 before : Release \cup {None}, left : Release \cup {None}]]
  BY <1>2, <1>3, Types DEF IInv, SharedTyped
<1> QED
  BY <1>3, <1>4, EndKeeps

\* Killed, at any step: the locks go with the process, the files stay.
LEMMA CrashKeeps ==
  ASSUME IInv, NEW b \in Build, Crash(b)
  PROVE  IInv'
BY EndKeeps, Types DEF Crash, environment, published, IInv, SharedTyped

\* Every other way in which a build fails.
LEMMA FailureKeeps ==
  ASSUME IInv, NEW b \in Build,
         RejectPlan(b) \/ ChangedCompiler(b) \/ ChangedTools(b) \/ StaleLink(b) \/ Raise(b)
  PROVE  IInv'
<1>1. proc[b].at # "idle" /\ Fails(b)
  BY DEF RejectPlan, ChangedCompiler, ChangedTools, StaleLink, Raise, Owning
<1>2. UNCHANGED <<source, tool, manifest, sealed, damaged, cache, releases, broken, selected>>
  BY DEF RejectPlan, ChangedCompiler, ChangedTools, StaleLink, Raise, environment
<1>3. links \in [Output -> SUBSET Build] /\ proc[b].out \in Output
  BY <1>1, OfBuild, Types DEF IInv, SharedTyped, Knows, Filled
<1>4. links' \in [Output -> SUBSET Build]
  <2>1. CASE UNCHANGED links
    BY <1>3, <2>1
  <2>2. CASE StaleLink(b)
    BY <1>3, <2>2 DEF StaleLink
  <2>3. CASE Raise(b)
    BY <1>3, <2>3 DEF Raise
  <2> QED
    BY <2>1, <2>2, <2>3 DEF RejectPlan, ChangedCompiler, ChangedTools
<1> QED
  BY <1>1, <1>2, <1>4, FailsKeeps

-----------------------------------------------------------------------------
(* The surroundings of the builds.                                         *)

LEMMA SurroundingKeeps ==
  ASSUME IInv, UNCHANGED proc, tool' \in Nat, tool <= tool', damaged \subseteq damaged',
         \A o \in Output : sealed[o] \subseteq sealed'[o],
         \A o \in Output : releases[o] \subseteq releases'[o] \cup damaged',
         \A k \in DOMAIN cache : cache[k].whole /\ k \notin damaged' =>
            k \in DOMAIN cache' /\ cache'[k].whole /\ cache'[k].bytes = cache[k].bytes,
         SharedTyped', Manifests', EntriesTrue', OutputIsComplete', ReleasesCoherent'
  PROVE  IInv'
<1>1. proc \in [Build -> Proc] /\ tool \in Nat
  BY Types DEF IInv, SharedTyped
<1>2. TypeOK'
  BY <1>1, Types DEF TypeOK, SharedTyped, Proc
<1>3. ASSUME NEW b \in Build
      PROVE  Knows(proc[b])'
  <2> DEFINE p == proc[b]  now == tool'  seals == sealed'  installed == releases'  entries == cache'
             lost == damaged'
  <2>1. p \in Proc /\ Knows(p)
    BY OfBuild
  <2>2. /\ now \in Nat /\ tool <= now /\ damaged \subseteq lost
        /\ \A o \in Output : sealed[o] \subseteq seals[o]
        /\ \A o \in Output : releases[o] \subseteq installed[o] \cup lost
        /\ \A k \in DOMAIN cache : cache[k].whole /\ k \notin lost =>
             k \in DOMAIN entries /\ entries[k].whole /\ entries[k].bytes = cache[k].bytes
    OBVIOUS
  <2>3. proc'[b] = p
    OBVIOUS
  <2> HIDE DEF p, now, seals, installed, entries, lost
  <2>4. Dated(p, now)
    BY <1>1, <2>1, <2>2, DatedLasts DEF Knows
  <2>5. Bound(p, seals)
    BY <2>1, <2>2, BoundLasts DEF Knows
  <2>6. Placed(p, installed, lost)
    BY <2>1, <2>2, PlacedLasts DEF Knows
  <2>7. Held(p, entries, lost)
    BY <2>1, <2>2, HeldLasts DEF Knows
  <2> QED
    BY <2>1, <2>3, <2>4, <2>5, <2>6, <2>7 DEF Knows, now, seals, installed, entries, lost
<1> QED
  BY <1>2, <1>3 DEF IInv

LEMMA EditKeeps ==
  ASSUME IInv, NEW o \in Output, NEW i \in Input, Edit(o, i)
  PROVE  IInv'
<1>1. /\ UNCHANGED <<manifest, tool, sealed, damaged, cache, releases, broken, selected, links, report, proc>>
      /\ source' = [source EXCEPT ![o] = [source[o] EXCEPT ![i] = source[o][i] + 1]]
  BY DEF Edit, published
<1>2. [source[o] EXCEPT ![i] = source[o][i] + 1] \in Versions
  BY Types DEF IInv, SharedTyped, Versions
<1>3. SharedTyped' /\ Manifests' /\ EntriesTrue' /\ OutputIsComplete' /\ ReleasesCoherent'
  BY <1>1, <1>2, Types
     DEF IInv, SharedTyped, Manifests, EntriesTrue, OutputIsComplete, ReleasesCoherent, Checked
<1>4. tool \in Nat
  BY Types DEF IInv, SharedTyped
<1> QED
  BY <1>1, <1>3, <1>4, SurroundingKeeps

LEMMA SealKeeps ==
  ASSUME IInv, NEW o \in Output, Seal(o)
  PROVE  IInv'
<1>1. /\ UNCHANGED <<source, tool, damaged, cache, releases, broken, selected, links, report, proc>>
      /\ manifest' = [manifest EXCEPT ![o] = source[o]]
      /\ sealed' = [sealed EXCEPT ![o] = sealed[o] \cup {source[o]}]
  BY DEF Seal, published
<1>2. source[o] \in Versions /\ manifest \in [Output -> Versions] /\ sealed \in [Output -> SUBSET Versions]
      /\ tool \in Nat
  BY Types DEF IInv, SharedTyped, Manifests
<1>3. \A x \in Output : sealed[x] \subseteq sealed'[x]
  BY <1>1, <1>2
<1>4. SharedTyped'
  BY <1>1, <1>2, Types DEF IInv, SharedTyped
<1>5. Manifests'
  BY <1>1, <1>2 DEF IInv, Manifests
<1>6. EntriesTrue' /\ OutputIsComplete'
  BY <1>1 DEF IInv, EntriesTrue, OutputIsComplete, Checked
<1>7. ReleasesCoherent'
  BY <1>1, <1>3 DEF IInv, ReleasesCoherent
<1> QED
  BY <1>1, <1>2, <1>3, <1>4, <1>5, <1>6, <1>7, SurroundingKeeps

LEMMA UpgradeKeeps ==
  ASSUME IInv, Upgrade
  PROVE  IInv'
<1>1. /\ UNCHANGED <<source, manifest, sealed, damaged, cache, releases, broken, selected, links, report, proc>>
      /\ tool \in Nat /\ tool' = tool + 1
  BY Types DEF Upgrade, published, IInv, SharedTyped
<1>2. SharedTyped' /\ Manifests' /\ EntriesTrue' /\ OutputIsComplete' /\ ReleasesCoherent'
  BY <1>1, Types
     DEF IInv, SharedTyped, Manifests, EntriesTrue, OutputIsComplete, ReleasesCoherent, Checked
<1> QED
  BY <1>1, <1>2, SurroundingKeeps

LEMMA DamageEntryKeeps ==
  ASSUME IInv, NEW k \in DOMAIN cache, DamageEntry(k)
  PROVE  IInv'
<1> DEFINE entry == [cache[k] EXCEPT !.whole = FALSE]
<1>1. /\ UNCHANGED <<source, manifest, tool, sealed, releases, broken, selected, links, report, proc>>
      /\ damaged' = damaged \cup {k} /\ cache' = Store(k, entry)
  BY DEF DamageEntry, published
<1>2. entry \in [bytes : Lineage, whole : BOOLEAN] /\ ~entry.whole /\ tool \in Nat
  BY Types DEF IInv, SharedTyped
<1> HIDE DEF entry
<1>3. /\ DOMAIN cache' = DOMAIN cache /\ cache'[k] = entry
      /\ \A x \in DOMAIN cache \ {k} : cache'[x] = cache[x]
  BY <1>1 DEF Store
<1>4. \A x \in DOMAIN cache : cache[x].whole /\ x \notin damaged' =>
        x \in DOMAIN cache' /\ cache'[x].whole /\ cache'[x].bytes = cache[x].bytes
  BY <1>1, <1>3
<1>5. SharedTyped'
  <2>1. \A x \in DOMAIN cache' : cache'[x] \in [bytes : Lineage, whole : BOOLEAN]
    BY <1>2, <1>3, Types DEF IInv, SharedTyped
  <2> QED
    BY <1>1, <1>3, <2>1, Types DEF IInv, SharedTyped
<1>6. EntriesTrue'
  BY <1>2, <1>3 DEF IInv, EntriesTrue, Checked
<1>7. Manifests' /\ OutputIsComplete' /\ ReleasesCoherent'
  BY <1>1 DEF IInv, Manifests, OutputIsComplete, ReleasesCoherent
<1> QED
  BY <1>1, <1>2, <1>4, <1>5, <1>6, <1>7, SurroundingKeeps

LEMMA DamageReleaseKeeps ==
  ASSUME IInv, NEW o \in Output, NEW r \in releases[o], DamageRelease(o, r)
  PROVE  IInv'
<1>1. /\ UNCHANGED <<source, manifest, tool, sealed, cache, selected, links, report, proc>>
      /\ damaged' = damaged \cup {r}
      /\ releases' = [releases EXCEPT ![o] = releases[o] \ {r}]
      /\ broken' = [broken EXCEPT ![o] = broken[o] \cup {r}]
  BY DEF DamageRelease
<1>2. releases \in [Output -> SUBSET Release] /\ broken \in [Output -> SUBSET Release] /\ tool \in Nat
  BY Types DEF IInv, SharedTyped
<1>3. /\ \A x \in Output : releases[x] \subseteq releases'[x] \cup damaged'
      /\ \A x \in Output : releases'[x] \subseteq releases[x]
  BY <1>1, <1>2
<1>4. SharedTyped'
  BY <1>1, <1>2, Types DEF IInv, SharedTyped
<1>5. Manifests' /\ EntriesTrue'
  BY <1>1 DEF IInv, Manifests, EntriesTrue, Checked
<1>6. OutputIsComplete'
  BY <1>1, <1>3 DEF IInv, OutputIsComplete
<1>7. ReleasesCoherent'
  BY <1>1, <1>3 DEF IInv, ReleasesCoherent
<1> QED
  BY <1>1, <1>2, <1>3, <1>4, <1>5, <1>6, <1>7, SurroundingKeeps

-----------------------------------------------------------------------------
(* The specification.                                                      *)

LEMMA InitHolds ==
  ASSUME Init
  PROVE  IInv
<1>1. NoVersions \in Versions
  BY DEF NoVersions, Versions
<1>2. NoReport \in [status : {"none", "complete", "failed"},
                    before : Release \cup {None}, left : Release \cup {None}]
  BY DEF NoReport
<1>3. SharedTyped
  BY <1>1, <1>2 DEF Init, SharedTyped
<1>4. proc \in [Build -> Proc] /\ \A b \in Build : proc[b] = Idle
  BY IdleKnown DEF Init
<1>5. Manifests /\ EntriesTrue /\ OutputIsComplete /\ ReleasesCoherent
  BY <1>1 DEF Init, Manifests, EntriesTrue, OutputIsComplete, ReleasesCoherent, Checked
<1>6. Knows(Idle)
  BY IdleKnown DEF Knows, Bound, Owning
<1> QED
  BY <1>3, <1>4, <1>5, <1>6, Types DEF IInv

LEMMA StepsKeep ==
  ASSUME IInv, NEW b \in Build, Step(b)
  PROVE  IInv'
<1>1. CASE TakeOutput(b) \/ HashTools(b) \/ (\E i \in Input : CopyInput(b, i)) \/ Prepare(b)
  BY <1>1, TakeOutputKeeps, HashToolsKeeps, CopyInputKeeps, PrepareKeeps
<1>2. CASE Reuse(b) \/ Miss(b) \/ Launch(b) \/ (\E salt \in Salt : CompilerDone(b, salt))
  BY <1>2, ReuseKeeps, MissKeeps, LaunchKeeps, CompilerDoneKeeps
<1>3. CASE SameCompiler(b) \/ LockEntry(b) \/ Adopt(b) \/ SetAside(b) \/ Install(b)
  BY <1>3, SameCompilerKeeps, LockEntryKeeps, AdoptKeeps, SetAsideKeeps, InstallKeeps
<1>4. CASE SameTools(b) \/ Finalize(b) \/ SameToolsAgain(b) \/ SetReleaseAside(b) \/ InstallRelease(b)
  BY <1>4, SameToolsKeeps, FinalizeKeeps, SameToolsAgainKeeps, SetReleaseAsideKeeps, InstallReleaseKeeps
<1>5. CASE MakeLink(b) \/ Switch(b) \/ Complete(b)
  BY <1>5, MakeLinkKeeps, SwitchKeeps, CompleteKeeps
<1>6. CASE RejectPlan(b) \/ ChangedCompiler(b) \/ ChangedTools(b) \/ StaleLink(b)
  BY <1>6, FailureKeeps
<1> QED
  BY <1>1, <1>2, <1>3, <1>4, <1>5, <1>6 DEF Step

LEMMA NextKeeps ==
  ASSUME IInv, [Next]_vars
  PROVE  IInv'
<1>1. ASSUME NEW b \in Build, Step(b) \/ Raise(b) \/ Crash(b)
      PROVE  IInv'
  BY <1>1, StepsKeep, FailureKeeps, CrashKeeps
<1>2. ASSUME NEW b \in Build, NEW o \in Output, Plan(b, o) \/ Begin(b, o)
      PROVE  IInv'
  BY <1>2, PlanKeeps, BeginKeeps
<1>3. CASE Surroundings
  BY <1>3, EditKeeps, SealKeeps, UpgradeKeeps, DamageEntryKeeps, DamageReleaseKeeps DEF Surroundings
<1>4. CASE UNCHANGED vars
  <2>1. tool \in Nat
    BY Types DEF IInv, SharedTyped
  <2>2. SharedTyped' /\ Manifests' /\ EntriesTrue' /\ OutputIsComplete' /\ ReleasesCoherent'
    BY <1>4, Types
       DEF vars, IInv, SharedTyped, Manifests, EntriesTrue, OutputIsComplete, ReleasesCoherent, Checked
  <2> QED
    BY <1>4, <2>1, <2>2, SurroundingKeeps DEF vars
<1> QED
  BY <1>1, <1>2, <1>3, <1>4 DEF Next

\* The inductive invariant: what every running build knows, besides the
\* properties themselves.
THEOREM BuildsKnow == Spec => []IInv
<1>1. Init => IInv
  BY InitHolds
<1>2. IInv /\ [Next]_vars => IInv'
  BY NextKeeps
<1> QED
  BY <1>1, <1>2, PTL DEF Spec

\* Every state has its type: cache keys, lineages, releases and reports are
\* what stage(), finalize() and execute() write, at every step of any number
\* of builds.
THEOREM TypeCorrect == Spec => []TypeOK
<1>1. IInv => TypeOK
  BY DEF IInv
<1> QED
  BY <1>1, BuildsKnow, PTL

\* However builds are interleaved, fail or are killed, an output link names a
\* completely installed release unless that release itself was damaged
\* (execute(): pending directory, one rename, then os.replace of the link).
THEOREM OutputsAreComplete == Spec => []OutputIsComplete
<1>1. IInv => OutputIsComplete
  BY DEF IInv
<1> QED
  BY <1>1, BuildsKnow, PTL

\* Every product of every release was made by the compiler its manifest
\* names, from the release's own sources through its own chain of products,
\* for recipes of any length and any number of compiler upgrades (stage()'s
\* keys and "compiler changed during", execute()'s two tool checks, prepare()).
THEOREM ReleasesAreCoherent == Spec => []ReleasesCoherent
<1>1. IInv => ReleasesCoherent
  BY DEF IInv
<1> QED
  BY <1>1, BuildsKnow, PTL

\* An entry that checks out holds what its key says, and a build's products
\* are the bytes of the entries it went through: a loser of the publication
\* race goes on with the winner's bytes (stage()).
THEOREM CacheTellsTheTruth == Spec => []CacheIsTrue
<1>1. IInv => CacheIsTrue
  <2> SUFFICES ASSUME IInv PROVE CacheIsTrue
    OBVIOUS
  <2>1. ASSUME NEW b \in Build, NEW s \in 1 .. Len(proc[b].products)
        PROVE  LET k == KeyOf(proc[b].snap, proc[b].products, s) IN
               k \in damaged \/ (Checked(k) /\ cache[k].bytes = proc[b].products[s])
    BY DEF IInv, Knows, Held, Checked
  <2> QED
    BY <2>1 DEF IInv, EntriesTrue, CacheIsTrue
<1> QED
  BY <1>1, BuildsKnow, PTL

-----------------------------------------------------------------------------
(***************************************************************************)
(* Selection of regression cases.                                          *)
(***************************************************************************)

\* What a case reads that the selection passed over has not changed.
LEMMA PassedOver ==
  ASSUME NEW paths, NEW c \in Case, c \notin SelectCases(paths, FALSE)
  PROVE  /\ paths # {Missing}
         /\ (paths \ Prose) \cap (Fixtures[c] \cup Shared) = {}
<1>1. paths # {Missing}
  BY DEF SelectCases
<1>2. ASSUME NEW p \in paths \ Prose, p \in Fixtures[c] \cup Shared
      PROVE  FALSE
  <2> DEFINE Consumers == {d \in Case : p \in Fixtures[d]}
  <2>1. c \in IF Consumers = {} THEN Case ELSE Consumers
    <3>1. CASE p \in Fixtures[c]
      BY <3>1
    <3>2. CASE p \in Shared
      BY <3>2, SharedAssumption
    <3> QED
      BY <1>2, <3>1, <3>2
  <2> QED
    BY <1>1, <1>2, <2>1 DEF SelectCases
<1> QED
  BY <1>1, <1>2

\* If what a reader reads is unchanged, and so is all that is no mere
\* documentation, then the reader sees the same.
LEMMA SameSight ==
  ASSUME NEW old, NEW new, NEW S, S \cap Changed(old, new) = {}, S \subseteq Path,
         \A p \in Changed(old, new) \cap Prose : Passive(old, p) /\ Passive(new, p)
  PROVE  Good(old, S \cup Odd(old)) = Good(new, S \cup Odd(new))
<1>1. \A p \in S : old[p] = new[p]
  BY DEF Changed
<1>2. \A p \in Prose : p \notin Changed(old, new) => old[p] = new[p]
  BY ProseAssumption DEF Changed
<1>3. Odd(old) = Odd(new) /\ \A p \in Odd(old) : old[p] = new[p]
  BY <1>2 DEF Odd, Passive
<1> QED
  BY <1>1, <1>3 DEF Good

\* Between two commits; "paths" is what changed.
LEMMA CommitsAgree ==
  ASSUME NEW base, NEW tree, base # Missing, ChangedPaths(base, tree) # {Missing}
  PROVE  /\ ChangedPaths(base, tree) = Changed(base, tree)
         /\ \A p \in Changed(base, tree) \cap Prose : Passive(base, p) /\ Passive(tree, p)
BY DEF ChangedPaths

\* The work is compared with the base through the commit between them.
LEMMA WorkAgrees ==
  ASSUME NEW base, NEW tree, NEW work, base # Missing, PathsSince(base, tree, work) # {Missing}
  PROVE  /\ Changed(base, work) \subseteq PathsSince(base, tree, work)
         /\ \A p \in Changed(base, work) \cap Prose : Passive(base, p) /\ Passive(work, p)
<1>1. ChangedPaths(base, tree) # {Missing}
  BY DEF PathsSince
<1>2. /\ ChangedPaths(base, tree) = Changed(base, tree)
      /\ \A p \in Changed(base, tree) \cap Prose : Passive(base, p) /\ Passive(tree, p)
  BY <1>1, CommitsAgree
<1> DEFINE paths == Changed(base, tree) \cup Changed(tree, work)
<1>3. /\ PathsSince(base, tree, work) = paths
      /\ \A p \in paths \cap Prose : Passive(tree, p) /\ Passive(work, p)
  BY <1>1, <1>2 DEF PathsSince
<1>4. Changed(base, work) \subseteq paths
  BY DEF Changed
<1>5. ASSUME NEW p \in Changed(base, work) \cap Prose
      PROVE  Passive(base, p) /\ Passive(work, p)
  <2>1. p \in paths /\ p \in Prose /\ Passive(tree, p) /\ Passive(work, p)
    BY <1>3, <1>4
  <2>2. CASE p \in Changed(base, tree)
    BY <1>2, <2>1, <2>2
  <2>3. CASE p \notin Changed(base, tree)
    BY <2>1, <2>3, ProseAssumption DEF Changed, Passive
  <2> QED
    BY <2>1, <2>2, <2>3
<1> QED
  BY <1>3, <1>4, <1>5

LEMMA CommonSight ==
  ASSUME NEW one, NEW two, \A q \in Path \ Prose : one[q] = two[q],
         \A q \in Prose : q \in Odd(one) \/ q \in Odd(two) => one[q] = two[q]
  PROVE  \A c \in Case : Passes(c, one) = Passes(c, two)
<1>1. Odd(one) = Odd(two)
  BY DEF Odd, Passive
<1>2. \A c \in Case : \A q \in Fixtures[c] \cup Shared \cup Odd(one) : one[q] = two[q]
  BY SharedAssumption, InventoryAssumption, ProseAssumption DEF Odd
<1> QED
  BY <1>1, <1>2 DEF Passes, Good

\* Whatever is in the fingerprint is equal, and it holds all that a case reads.
LEMMA FingerprintsDecide ==
  ASSUME NEW one, NEW two, Fingerprint(one) = Fingerprint(two)
  PROVE  \A c \in Case : Passes(c, one) = Passes(c, two)
<1>1. ASSUME NEW q \in Path, q \notin Prose
      PROVE  one[q] = two[q]
  <2>1. one[q] # Absent => <<q, one[q]>> \in Fingerprint(one)
    BY <1>1 DEF Fingerprint
  <2>2. two[q] # Absent => <<q, two[q]>> \in Fingerprint(two)
    BY <1>1 DEF Fingerprint
  <2>3. \A r : <<q, r>> \in Fingerprint(one) => r = one[q]
    BY DEF Fingerprint
  <2>4. \A r : <<q, r>> \in Fingerprint(two) => r = two[q]
    BY DEF Fingerprint
  <2> QED
    BY <2>1, <2>2, <2>3, <2>4
<1>2. ASSUME NEW q \in Prose, q \in Odd(one) \/ q \in Odd(two)
      PROVE  one[q] = two[q]
  <2>0. q \in Path /\ Absent.mode = "absent"
    BY ProseAssumption DEF Absent
  <2>1. q \in Odd(one) => <<q, one[q]>> \in Fingerprint(one)
    BY <2>0 DEF Fingerprint, Odd, Passive
  <2>2. q \in Odd(two) => <<q, two[q]>> \in Fingerprint(two)
    BY <2>0 DEF Fingerprint, Odd, Passive
  <2>3. \A r : <<q, r>> \in Fingerprint(one) => r = one[q]
    BY DEF Fingerprint
  <2>4. \A r : <<q, r>> \in Fingerprint(two) => r = two[q]
    BY DEF Fingerprint
  <2> QED
    BY <1>2, <2>1, <2>2, <2>3, <2>4
<1> QED
  BY <1>1, <1>2, CommonSight

-----------------------------------------------------------------------------
\* What a run knows of the comparison it was planned from.
Planned ==
  /\ head = [p \in Path |-> head[p]]
  /\ run = [base |-> run.base, plan |-> run.plan, status |-> run.status]
  /\ run.base # Missing => run.plan = CiPlan(ChangedPaths(run.base, head), FALSE)
  /\ run.base = Missing /\ run.status # "none" => run.plan \in {CiPlan({Missing}, FALSE), CiPlan({}, TRUE)}
  /\ run.status = "success" => Succeeds
  /\ run.status = "nothing" => run.plan.groups = {}

LEMMA PlannedFirst == CiInit => Planned
BY DEF CiInit, NoRun, Planned

LEMMA PlannedStays == Planned /\ [CiNext]_ci => Planned'
<1> SUFFICES ASSUME Planned, [CiNext]_ci PROVE Planned'
  OBVIOUS
<1>1. ASSUME NEW p \in Path, NEW entry \in Entry, NEW known \in BOOLEAN, Push(p, entry, known)
      PROVE  Planned'
  <2> DEFINE base == IF known THEN head ELSE Missing
  <2>1. head' = [q \in Path |-> head'[q]]
    BY <1>1 DEF Push, Planned
  <2>2. run' = [base |-> base, plan |-> CiPlan(ChangedPaths(base, head'), FALSE), status |-> "planned"]
    BY <1>1 DEF Push
  <2>3. base = Missing => ChangedPaths(base, head') = {Missing}
    BY DEF ChangedPaths
  <2> HIDE DEF base
  <2> QED
    BY <2>1, <2>2, <2>3 DEF Planned
<1>2. ASSUME Dispatch
      PROVE  Planned'
  BY <1>2 DEF Dispatch, Planned
<1>3. ASSUME Skip
      PROVE  Planned'
  BY <1>3 DEF Skip, Planned
<1>4. ASSUME Jobs
      PROVE  Planned'
  BY <1>4 DEF Jobs, Planned, Succeeds
<1>5. ASSUME Evict
      PROVE  Planned'
  BY <1>5 DEF Evict, Planned, Succeeds
<1>6. ASSUME UNCHANGED ci
      PROVE  Planned'
  BY <1>6 DEF ci, Planned, Succeeds
<1> QED
  BY <1>1, <1>2, <1>3, <1>4, <1>5, <1>6 DEF CiNext

LEMMA PlanSays ==
  ASSUME NEW paths, NEW manual \in BOOLEAN
  PROVE  LET plan == CiPlan(paths, manual) IN
         /\ plan.cases = {c \in SelectCases(paths, manual) : GroupOf[c] # Missing}
         /\ \A c \in plan.cases : GroupOf[c] \in Group => GroupOf[c] \in plan.groups
         /\ manual \/ paths = {Missing} \/ paths \ Prose # {} => "test" \in plan.groups
<1> DEFINE cases == SelectCases(paths, manual)
           chosen == [g \in Group |->
                        \/ \E c \in cases : GroupOf[c] = g
                        \/ g = "test" /\ (manual \/ paths = {Missing} \/ paths \ Prose # {})]
           plan == CiPlan(paths, manual)
<1>1. plan = [groups |-> {g \in Group : chosen[g]}, cases |-> {c \in cases : GroupOf[c] # Missing},
              reusable |-> paths # {Missing} /\ ~manual]
  BY Zenon DEF CiPlan
<1>2. plan.groups = {g \in Group : chosen[g]} /\ plan.cases = {c \in cases : GroupOf[c] # Missing}
  BY <1>1
<1> HIDE DEF plan, cases
<1>3. \A c \in plan.cases : GroupOf[c] \in Group => GroupOf[c] \in plan.groups
  BY <1>2
<1>4. manual \/ paths = {Missing} \/ paths \ Prose # {} => "test" \in plan.groups
  BY <1>2, InventoryAssumption
<1> QED
  BY <1>2, <1>3, <1>4 DEF plan, cases

\* A run that compared with nothing did everything.
LEMMA EverythingRuns ==
  ASSUME NEW plan \in {CiPlan({Missing}, FALSE), CiPlan({}, TRUE)}
  PROVE  /\ "test" \in plan.groups
         /\ \A c \in Case : GroupOf[c] # Missing => c \in plan.cases /\ GroupOf[c] \in plan.groups
<1>1. SelectCases({Missing}, FALSE) = Case /\ SelectCases({}, TRUE) = Case
  BY DEF SelectCases
<1>2. \A c \in Case : GroupOf[c] # Missing => GroupOf[c] \in Group
  BY InventoryAssumption
<1>3. CASE plan = CiPlan({Missing}, FALSE)
  BY <1>1, <1>2, <1>3, PlanSays
<1>4. CASE plan = CiPlan({}, TRUE)
  BY <1>1, <1>2, <1>4, PlanSays
<1> QED
  BY <1>3, <1>4

LEMMA RunsTell ==
  ASSUME Planned, run.status \in {"success", "nothing"}, run.base # Missing => AllPass(run.base)
  PROVE  AllPass(head)
<1>1. CASE run.base = Missing
  <2>1. /\ "test" \in run.plan.groups
        /\ \A c \in Case : GroupOf[c] # Missing => c \in run.plan.cases /\ GroupOf[c] \in run.plan.groups
    BY <1>1, EverythingRuns DEF Planned
  <2> QED
    BY <2>1 DEF Planned, Succeeds, AllPass
<1>2. CASE run.base # Missing
  <2> DEFINE paths == ChangedPaths(run.base, head)
  <2>1. run.plan = CiPlan(paths, FALSE) /\ AllPass(run.base)
    BY <1>2 DEF Planned
  <2>2. CASE paths = {Missing}
    <3>1. /\ "test" \in run.plan.groups
          /\ \A c \in Case : GroupOf[c] # Missing => c \in run.plan.cases /\ GroupOf[c] \in run.plan.groups
      BY <2>1, <2>2, EverythingRuns
    <3> QED
      BY <3>1 DEF Planned, Succeeds, AllPass
  <2>3. CASE paths # {Missing}
    <3>1. /\ paths = Changed(run.base, head)
          /\ \A p \in Changed(run.base, head) \cap Prose : Passive(run.base, p) /\ Passive(head, p)
      BY <1>2, <2>3, CommitsAgree
    <3>2. /\ run.plan.cases = {c \in SelectCases(paths, FALSE) : GroupOf[c] # Missing}
          /\ \A c \in run.plan.cases : GroupOf[c] \in Group => GroupOf[c] \in run.plan.groups
          /\ paths \ Prose # {} => "test" \in run.plan.groups
      BY <2>1, PlanSays
    <3>3. BaseChecks(head)
      <4>1. CASE paths \ Prose # {}
        BY <3>2, <4>1 DEF Planned, Succeeds
      <4>2. CASE paths \ Prose = {}
        <5>1. Shared \cap Changed(run.base, head) = {} /\ Shared \subseteq Path
          BY <3>1, <4>2, SharedAssumption
        <5> QED
          BY <2>1, <3>1, <5>1, SameSight DEF AllPass, BaseChecks
      <4> QED
        BY <4>1, <4>2
    <3>4. ASSUME NEW c \in Case, GroupOf[c] # Missing
          PROVE  Passes(c, head)
      <4>1. CASE c \in SelectCases(paths, FALSE)
        <5>1. c \in run.plan.cases /\ GroupOf[c] \in run.plan.groups
          BY <3>2, <3>4, <4>1, InventoryAssumption
        <5> QED
          BY <5>1 DEF Planned, Succeeds
      <4>2. CASE c \notin SelectCases(paths, FALSE)
        <5> DEFINE S == Fixtures[c] \cup Shared
        <5>1. S \cap Changed(run.base, head) = {} /\ S \subseteq Path
          BY <3>1, <4>2, PassedOver, SharedAssumption, InventoryAssumption
        <5> HIDE DEF S
        <5>2. Good(run.base, S \cup Odd(run.base)) = Good(head, S \cup Odd(head))
          BY <3>1, <5>1, SameSight
        <5> QED
          BY <2>1, <3>4, <5>2 DEF AllPass, Passes, S
      <4> QED
        BY <4>1, <4>2
    <3> QED
      BY <3>3, <3>4 DEF AllPass
  <2> QED
    BY <2>2, <2>3
<1> QED
  BY <1>1, <1>2

\* The local selection, for any working tree.
LEMMA WorkIsTold ==
  ASSUME NEW base, NEW tree, NEW work, base # Missing,
         \A c \in Case : Passes(c, base),
         \A c \in SelectCases(PathsSince(base, tree, work), FALSE) : Passes(c, work)
  PROVE  \A c \in Case : Passes(c, work)
<1> SUFFICES ASSUME NEW c \in Case, c \notin SelectCases(PathsSince(base, tree, work), FALSE)
             PROVE  Passes(c, work)
  OBVIOUS
<1> DEFINE S == Fixtures[c] \cup Shared
<1>1. /\ PathsSince(base, tree, work) # {Missing}
      /\ (PathsSince(base, tree, work) \ Prose) \cap S = {}
  BY PassedOver
<1>2. /\ Changed(base, work) \subseteq PathsSince(base, tree, work)
      /\ \A p \in Changed(base, work) \cap Prose : Passive(base, p) /\ Passive(work, p)
  BY <1>1, WorkAgrees
<1>3. S \cap Changed(base, work) = {} /\ S \subseteq Path
  BY <1>1, <1>2, SharedAssumption, InventoryAssumption
<1> HIDE DEF S
<1>4. Good(base, S \cup Odd(base)) = Good(work, S \cup Odd(work))
  BY <1>2, <1>3, SameSight
<1> QED
  BY <1>4 DEF Passes, S

\* Narrowing loses nothing: a run that says success, or nothing to do, speaks
\* for the whole commit if the commit it was compared with was good; so does
\* the local selection for a working tree; and the fingerprint that a result is
\* recorded under decides every case (select_cases(), changed_paths(), plan(),
\* source_fingerprint()).
THEOREM SelectionIsSafe == CiSpec => []SelectionSafe
<1>1. CiSpec => []Planned
  BY PlannedFirst, PlannedStays, PTL DEF CiSpec
<1>2. ASSUME Planned
      PROVE  SelectionSafe
  <2>1. /\ run.status \in {"success", "nothing"}
        /\ run.base # Missing => AllPass(run.base)
        => AllPass(head)
    BY <1>2, RunsTell
  <2>2. ASSUME run.base # Missing, NEW p \in Path, NEW entry \in Entry
        PROVE  LET work == [head EXCEPT ![p] = entry]
                   cases == SelectCases(PathsSince(run.base, head, work), FALSE)
               IN /\ \A c \in Case : Passes(c, run.base)
                  /\ \A c \in cases : Passes(c, work)
                  => \A c \in Case : Passes(c, work)
    BY <2>2, WorkIsTold
  <2>3. run.base # Missing /\ Fingerprint(run.base) = Fingerprint(head) =>
          \A c \in Case : Passes(c, run.base) = Passes(c, head)
    BY FingerprintsDecide
  <2> QED
    BY <2>1, <2>2, <2>3 DEF SelectionSafe
<1> QED
  BY <1>1, <1>2, PTL

-----------------------------------------------------------------------------
(***************************************************************************)
(* Regression runners.                                                     *)
(***************************************************************************)

(* The shapes of the state.                                                *)

Listed == UNION {Range(Recipe[c]) : c \in Case}
ListedSteps == Listed \cup {step.each : step \in {s \in Listed : s.kind = "rows"}}
EntrySet == [step : ListedSteps, place : Nat \X Nat]
RowSet == [entry : EntrySet, status : {"running", "passed", "failed"}]
FileSet == [ran : BOOLEAN, output : Nat, ending : {Nothing} \cup Result]
ReceiptSet == [case : Case, status : {"running", "passed", "failed"}, rows : Seq(RowSet), attempt : Nat]
ProductSets == SUBSET ((Nat \X Nat) \X Nat)
StageSet == [exists : BOOLEAN, logs : BOOLEAN, products : ProductSets,
             files : Seq(FileSet), receipt : {Nothing} \cup ReceiptSet]

Working == {"steps", "run", "judge", "passed"}
Holding == Working \cup {"opened"}
RunnerSet == [at : {"idle", "check", "case", "logs"} \cup Holding, attempt : Nat, names : Seq(Case),
              next : Nat \ {0}, todo : Seq(EntrySet), rows : Seq(RowSet)]

RunnersTyped ==
  /\ disk \in [Stage -> StageSet] /\ runner \in [Runner -> RunnerSet]
  /\ starts \in Nat /\ compiled \subseteq Nat

-----------------------------------------------------------------------------
(* What a runner at work knows of its stage.                               *)

HereOf(p) == StageOf(p.names, p.names[p.next])
EntriesOf(rows) == [n \in 1 .. Len(rows) |-> rows[n].entry]
Rest(p) == IF p.at = "steps" THEN p.todo ELSE Tail(p.todo)
Course(p) == EntriesOf(p.rows) \o Rest(p)

\* The steps that are behind it, and those that may have written products.
Behind(p) == {n \in 1 .. Len(p.rows) : n < Len(p.rows) \/ p.at \in {"steps", "passed"}}
Ran(p) == {n \in 1 .. Len(p.rows) : n < Len(p.rows) \/ p.at # "run"}

Compiling(names) == {k \in DOMAIN names : Beams(names[k]) # {}}
Leads(course) == course # << >> /\ IsBeam(course[1].step)

Recorded(p, stage) ==
  /\ stage.receipt = [case |-> p.names[p.next], status |-> "running", rows |-> p.rows,
                      attempt |-> p.attempt]
  /\ Len(stage.files) = Len(p.rows)
  /\ \A n \in 1 .. Len(p.rows) : /\ p.rows[n].entry.step.kind # "rows"
                                 /\ n < Len(p.rows) \/ p.at = "steps" => p.rows[n].status = "passed"
  /\ p.at # "steps" => p.rows # << >> /\ p.todo # << >> /\ Head(p.todo) = p.rows[Len(p.rows)].entry
  /\ p.at = "judge" => p.rows[Len(p.rows)].entry.step.kind = "command"
                         /\ stage.files[Len(p.rows)].ending \in Result

Proved(p, stage, done) ==
  \A n \in Behind(p) :
    /\ Proven(p.rows[n], stage.files[n], stage.products, p.attempt)
    /\ IsBeam(p.rows[n].entry.step) => p.attempt \in done

\* A product is this attempt's, and of a step that wrote it.
Wrote(row, file, x) ==
  /\ x[1] = row.entry.place /\ ~IsBeam(row.entry.step)
  /\ row.entry.step.kind = "command" => file.ending.product

Produced(p, stage) ==
  \A x \in stage.products :
    x[2] = p.attempt /\ \E n \in Ran(p) : Wrote(p.rows[n], stage.files[n], x)

Works(p, stage, done) ==
  /\ Recorded(p, stage) /\ InRecipeOrder(p.names[p.next], Course(p))
  /\ Proved(p, stage, done) /\ Produced(p, stage)
  /\ p.next = 1 /\ Compiling(p.names) # {} => Leads(Course(p))

Knowledge(p, stage, done) ==
  /\ p.next \in 1 .. Len(p.names)
  /\ p.at = "logs" => stage.exists /\ (stage.logs \/ stage.products = {})
  /\ p.at \in Holding => stage.logs
  /\ p.at = "opened" => stage.files = << >> /\ stage.receipt = Nothing /\ stage.products = {}
  /\ p.at \in Working => Works(p, stage, done)
  /\ p.next > 1 /\ Compiling(p.names) # {} => p.attempt \in done

-----------------------------------------------------------------------------
(* The invariant.  A runner that made the logs directory owns the stage,   *)
(* and a stage without one holds no record.                                *)

StageSound(d, stage, done) ==
  /\ stage.logs => stage.exists
  /\ ~stage.logs => stage.files = << >> /\ stage.receipt = Nothing
  /\ PassedTruly(d, stage, done)

OneOwner == \A r, q \in Runner : r # q /\ Writes(r) /\ Writes(q) => Here(r) # Here(q)

RunnersInv ==
  /\ RunnersTyped /\ OneOwner
  /\ \A d \in Stage : StageSound(d, disk[d], compiled)
  /\ \A r \in Runner : runner[r].at # "idle" => Knowledge(runner[r], disk[Here(r)], compiled)
-----------------------------------------------------------------------------
(* Steps and their order.                                                  *)

LEMMA ListedFacts ==
  ASSUME NEW c \in Case
  PROVE  /\ Recipe[c] \in Seq(ListedSteps) /\ Recipe[c] \in Seq(Listed)
         /\ \A n \in DOMAIN Recipe[c] :
              /\ Recipe[c][n].kind \in {"copy", "rows", "command"}
              /\ Recipe[c][n].kind = "rows" => /\ Recipe[c][n].each \in ListedSteps
                                               /\ Recipe[c][n].each.kind = "command"
                                               /\ ~IsBeam(Recipe[c][n].each)
<1>1. Range(Recipe[c]) \subseteq Listed /\ Range(Recipe[c]) \subseteq ListedSteps
  BY DEF Listed, ListedSteps
<1>2. Recipe[c] \in Seq(Range(Recipe[c]))
  BY RecipeAssumption
<1>3. Recipe[c] \in Seq(ListedSteps) /\ Recipe[c] \in Seq(Listed)
  BY <1>1, <1>2
<1>4. ASSUME NEW n \in DOMAIN Recipe[c]
      PROVE  Recipe[c][n] \in Range(Recipe[c])
  BY DEF Range
<1>5. ASSUME NEW step \in Range(Recipe[c])
      PROVE  /\ step.kind \in {"copy", "rows", "command"}
             /\ step.kind = "rows" => step.each \in ListedSteps /\ step.each.kind = "command" /\ ~IsBeam(step.each)
  BY <1>1, <1>5, RecipeAssumption DEF ListedSteps, IsBeam
<1> QED
  BY <1>3, <1>4, <1>5

LEMMA StepFacts ==
  ASSUME NEW step \in ListedSteps, step.kind = "command"
  PROVE  /\ step.demand \in Demand
         /\ IsBeam(step) => ~step.demand.product
<1>1. CASE step \in Listed
  BY <1>1, RecipeAssumption DEF Listed
<1>2. CASE step \notin Listed
  <2>1. PICK table \in Listed : table.kind = "rows" /\ step = table.each
    BY <1>2 DEF ListedSteps
  <2>2. step.demand \in Demand /\ ~step.beam
    BY <2>1, RecipeAssumption DEF Listed
  <2> QED
    BY <2>2 DEF IsBeam
<1> QED
  BY <1>1, <1>2

\* The steps of a case as the runner keeps them.
LEMMA EntriesFacts ==
  ASSUME NEW c \in Case
  PROVE  /\ Entries(c) \in Seq(EntrySet) /\ Len(Entries(c)) = Len(Recipe[c])
         /\ \A n \in 1 .. Len(Recipe[c]) : Entries(c)[n].step = Recipe[c][n] /\ Entries(c)[n].place = <<n, 0>>
<1>1. DOMAIN Recipe[c] = 1 .. Len(Recipe[c]) /\ Len(Recipe[c]) \in Nat
      /\ \A n \in 1 .. Len(Recipe[c]) : Recipe[c][n] \in ListedSteps
  BY ListedFacts
<1>2. \A n \in 1 .. Len(Recipe[c]) : [step |-> Recipe[c][n], place |-> <<n, 0>>] \in EntrySet
  BY <1>1 DEF EntrySet
<1>3. Entries(c) = [n \in 1 .. Len(Recipe[c]) |-> [step |-> Recipe[c][n], place |-> <<n, 0>>]]
  BY <1>1 DEF Entries
<1> QED
  BY <1>1, <1>2, <1>3

LEMMA OwnStepsFacts ==
  ASSUME NEW c \in Case
  PROVE  /\ OwnSteps(c) \in Seq(EntrySet) /\ InRecipeOrder(c, OwnSteps(c))
         /\ \A n \in 1 .. Len(OwnSteps(c)) : ~IsBeam(OwnSteps(c)[n].step)
<1> DEFINE q == Entries(c)
           gone == {q[n] : n \in Beams(c)}
           own == OwnSteps(c)
<1>1. /\ q \in Seq(EntrySet) /\ Len(q) = Len(Recipe[c]) /\ Len(q) \in Nat
      /\ \A n \in 1 .. Len(q) : q[n].step = Recipe[c][n] /\ q[n].place = <<n, 0>>
      /\ DOMAIN Recipe[c] = 1 .. Len(q)
  BY EntriesFacts, ListedFacts
<1>2. own = Without(q, gone)
  BY DEF OwnSteps
<1> HIDE DEF own
<1>3. \A n \in 1 .. Len(q) : q[n] \in gone <=> IsBeam(Recipe[c][n])
  <2> TAKE n \in 1 .. Len(q)
  <2>1. IsBeam(Recipe[c][n]) => q[n] \in gone
    BY <1>1 DEF Beams
  <2>2. ASSUME q[n] \in gone
        PROVE  IsBeam(Recipe[c][n])
    <3>1. PICK m \in Beams(c) : q[n] = q[m]
      BY <2>2
    <3>2. m \in 1 .. Len(q) /\ IsBeam(Recipe[c][m])
      BY <1>1 DEF Beams
    <3>3. n = m
      BY <1>1, <3>1, <3>2
    <3> QED
      BY <3>2, <3>3
  <2> QED
    BY <2>1, <2>2
<1> HIDE DEF gone, q
<1>4. /\ own \in Seq(EntrySet)
      /\ \E place \in [1 .. Len(own) -> 1 .. Len(q)] :
           /\ \A k \in 1 .. Len(own) : own[k] = q[place[k]] /\ q[place[k]] \notin gone
           /\ \A j, k \in 1 .. Len(own) : j < k => place[j] < place[k]
           /\ \A n \in 1 .. Len(q) : q[n] \notin gone => \E k \in 1 .. Len(own) : place[k] = n
  BY <1>1, <1>2, WithoutFacts
<1>5. PICK place \in [1 .. Len(own) -> 1 .. Len(q)] :
           /\ \A k \in 1 .. Len(own) : own[k] = q[place[k]] /\ q[place[k]] \notin gone
           /\ \A j, k \in 1 .. Len(own) : j < k => place[j] < place[k]
           /\ \A n \in 1 .. Len(q) : q[n] \notin gone => \E k \in 1 .. Len(own) : place[k] = n
  BY <1>4
<1>6. \A k \in 1 .. Len(own) : /\ own[k].place = <<place[k], 0>> /\ own[k].step = Recipe[c][place[k]]
                               /\ place[k] \in DOMAIN Recipe[c] /\ ~IsBeam(own[k].step)
  BY <1>1, <1>3, <1>5
<1>7. DOMAIN own = 1 .. Len(own)
  BY <1>4
<1>8. \A k \in DOMAIN Recipe[c] : IsBeam(Recipe[c][k]) \/ \E n \in 1 .. Len(own) : own[n].place[1] = k
  <2> TAKE k \in DOMAIN Recipe[c]
  <2> SUFFICES ASSUME ~IsBeam(Recipe[c][k])
               PROVE  \E n \in 1 .. Len(own) : own[n].place[1] = k
    OBVIOUS
  <2>1. PICK n \in 1 .. Len(own) : place[n] = k
    BY <1>1, <1>3, <1>5
  <2> QED
    BY <1>6, <2>1
<1>9. {n \in DOMAIN own : ~IsBeam(own[n].step)} = 1 .. Len(own)
  BY <1>6, <1>7
<1>10. \A m, n \in 1 .. Len(own) : m < n => Earlier(own[m].place, own[n].place)
  <2> TAKE m, n \in 1 .. Len(own)
  <2> HAVE m < n
  <2>1. place[m] < place[n]
    BY <1>5
  <2> QED
    BY <1>6, <2>1 DEF Earlier
<1>11. \A n \in 1 .. Len(own) : Belongs(c, own[n]) /\ own[n].place[2] = 0
  BY <1>6 DEF Belongs
<1>12. InRecipeOrder(c, own)
  <2>1. DOMAIN own \ (1 .. Len(own)) \subseteq {1}
    BY <1>7
  <2>2. \A n \in 1 .. Len(own) : own[n].place[2] > 1 =>
          \E m \in 1 .. Len(own) : own[m].place = <<own[n].place[1], own[n].place[2] - 1>>
    BY <1>11
  <2> QED
    BY <1>8, <1>9, <1>10, <1>11, <2>1, <2>2 DEF InRecipeOrder
<1> QED
  BY <1>4, <1>6, <1>12 DEF own

\* The first of a set of positions.
LEMMA FirstIsIn ==
  ASSUME NEW S \in SUBSET Nat, S # {}
  PROVE  Min(S) \in S
BY MinimumExists DEF Min

LEMMA StepsOfFacts ==
  ASSUME NEW names \in Seq(Case), NEW c \in Case
  PROVE  /\ StepsOf(names, c) \in Seq(EntrySet) /\ InRecipeOrder(c, StepsOf(names, c))
         /\ c = names[1] /\ Compiling(names) # {} => Leads(StepsOf(names, c))
<1>1. CASE c = names[1] /\ Compiling(names) # {}
  <2> DEFINE first == names[Min(Compiling(names))]
             beam == Entries(first)[Min(Beams(first))]
             own == OwnSteps(c)
             all == <<beam>> \o own
  <2>1. StepsOf(names, c) = all
    BY <1>1 DEF StepsOf, Compiling
  <2>2. Min(Compiling(names)) \in Compiling(names)
    <3>1. Compiling(names) \in SUBSET Nat
      BY DEF Compiling
    <3> QED
      BY <1>1, <3>1, FirstIsIn
  <2>3. first \in Case /\ Beams(first) # {}
    <3> DEFINE k == Min(Compiling(names))
    <3>0. \A j \in Compiling(names) : j \in 1 .. Len(names) /\ Beams(names[j]) # {}
      BY DEF Compiling
    <3>1. k \in 1 .. Len(names) /\ Beams(names[k]) # {}
      BY <2>2, <3>0
    <3> HIDE DEF k
    <3>2. names[k] \in Case
      BY <3>1
    <3> QED
      BY <3>1, <3>2 DEF k
  <2> HIDE DEF first
  <2>4. Beams(first) \subseteq 1 .. Len(Recipe[first]) /\ Beams(first) \subseteq Nat
    BY <2>3, ListedFacts DEF Beams
  <2>5. Min(Beams(first)) \in Beams(first)
    BY <2>3, <2>4, FirstIsIn
  <2>6. beam \in EntrySet /\ IsBeam(beam.step)
    <3> DEFINE m == Min(Beams(first))
    <3>1. m \in 1 .. Len(Recipe[first]) /\ IsBeam(Recipe[first][m])
      BY <2>4, <2>5 DEF Beams
    <3> HIDE DEF m
    <3>2. Entries(first)[m] \in EntrySet /\ Entries(first)[m].step = Recipe[first][m]
      BY <2>3, <3>1, EntriesFacts
    <3> QED
      BY <3>1, <3>2 DEF m
  <2>7. own \in Seq(EntrySet) /\ InRecipeOrder(c, own) /\ \A n \in 1 .. Len(own) : ~IsBeam(own[n].step)
    BY OwnStepsFacts
  <2> HIDE DEF beam, own
  <2>8. /\ all \in Seq(EntrySet) /\ Len(all) = Len(own) + 1 /\ Len(own) \in Nat /\ all[1] = beam
        /\ \A n \in 1 .. Len(own) : all[n + 1] = own[n]
        /\ \A n \in 2 .. Len(all) : n - 1 \in 1 .. Len(own) /\ all[n] = own[n - 1]
    BY <2>6, <2>7
  <2> HIDE DEF all
  <2>9. DOMAIN own = 1 .. Len(own) /\ DOMAIN all = 1 .. Len(all)
    BY <2>7, <2>8
  <2>10. {n \in DOMAIN own : ~IsBeam(own[n].step)} = 1 .. Len(own)
    BY <2>7, <2>9
  <2>11. {n \in DOMAIN all : ~IsBeam(all[n].step)} = 2 .. Len(all)
    <3>1. \A n \in 2 .. Len(all) : ~IsBeam(all[n].step)
      BY <2>7, <2>8
    <3>2. 1 .. Len(all) = {1} \cup 2 .. Len(all) /\ 1 \notin 2 .. Len(all)
      BY <2>8
    <3> QED
      BY <2>6, <2>8, <2>9, <3>1, <3>2
  <2>12. InRecipeOrder(c, all)
    <3> USE DEF InRecipeOrder
    <3>1. DOMAIN all \ (2 .. Len(all)) \subseteq {1}
      BY <2>8, <2>9
    <3>2. \A n \in 2 .. Len(all) : Belongs(c, all[n])
      BY <2>7, <2>8, <2>10
    <3>3. \A m, n \in 2 .. Len(all) : m < n => Earlier(all[m].place, all[n].place)
      <4> TAKE m, n \in 2 .. Len(all)
      <4> HAVE m < n
      <4>1. m - 1 \in 1 .. Len(own) /\ n - 1 \in 1 .. Len(own) /\ m - 1 < n - 1
        BY <2>8
      <4> QED
        BY <2>7, <2>8, <2>10, <4>1
    <3>4. \A k \in DOMAIN Recipe[c] : IsBeam(Recipe[c][k]) \/ \E n \in 2 .. Len(all) : all[n].place[1] = k
      <4> TAKE k \in DOMAIN Recipe[c]
      <4>1. CASE \E n \in 1 .. Len(own) : own[n].place[1] = k
        <5>1. PICK n \in 1 .. Len(own) : own[n].place[1] = k
          BY <4>1
        <5>2. n + 1 \in 2 .. Len(all) /\ all[n + 1] = own[n]
          BY <2>8
        <5> QED
          BY <5>1, <5>2
      <4> QED
        BY <2>7, <2>10, <4>1
    <3>5. \A n \in 2 .. Len(all) : all[n].place[2] > 1 =>
            \E m \in 2 .. Len(all) : all[m].place = <<all[n].place[1], all[n].place[2] - 1>>
      <4> TAKE n \in 2 .. Len(all)
      <4> HAVE all[n].place[2] > 1
      <4>1. n - 1 \in 1 .. Len(own) /\ all[n] = own[n - 1]
        BY <2>8
      <4>2. PICK m \in 1 .. Len(own) : own[m].place = <<own[n - 1].place[1], own[n - 1].place[2] - 1>>
        BY <2>7, <2>10, <4>1
      <4>3. m + 1 \in 2 .. Len(all) /\ all[m + 1] = own[m]
        BY <2>8
      <4> QED
        BY <4>1, <4>2, <4>3
    <3> QED
      BY <2>11, <3>1, <3>2, <3>3, <3>4, <3>5
  <2> QED
    BY <2>1, <2>6, <2>8, <2>12 DEF Leads
<1>2. CASE ~(c = names[1] /\ Compiling(names) # {})
  BY <1>2, OwnStepsFacts DEF StepsOf, Compiling
<1> QED
  BY <1>1, <1>2

\* Joining two sequences.
LEMMA JoinFacts ==
  ASSUME NEW T, NEW a \in Seq(T), NEW b \in Seq(T)
  PROVE  /\ a \o b \in Seq(T) /\ Len(a \o b) = Len(a) + Len(b)
         /\ \A i \in 1 .. Len(a) : (a \o b)[i] = a[i]
         /\ \A i \in Len(a) + 1 .. Len(a) + Len(b) : (a \o b)[i] = b[i - Len(a)]
OBVIOUS

LEMMA TailFacts ==
  ASSUME NEW T, NEW a \in Seq(T), a # << >>
  PROVE  /\ Head(a) \in T /\ Tail(a) \in Seq(T) /\ Head(a) = a[1]
         /\ Len(a) \in Nat \ {0} /\ Len(Tail(a)) = Len(a) - 1
         /\ \A i \in 1 .. Len(a) - 1 : Tail(a)[i] = a[i + 1]
OBVIOUS

\* A table becomes its rows.
LEMMA TableExpands ==
  ASSUME NEW c \in Case, NEW done \in Seq(EntrySet), NEW todo \in Seq(EntrySet), todo # << >>,
         Head(todo).step.kind = "rows", InRecipeOrder(c, done \o todo), NEW n \in Nat \ {0}
  PROVE  /\ RowsOf(Head(todo), n) \o Tail(todo) \in Seq(EntrySet)
         /\ InRecipeOrder(c, done \o (RowsOf(Head(todo), n) \o Tail(todo)))
         /\ Leads(done \o todo) => Leads(done \o (RowsOf(Head(todo), n) \o Tail(todo)))
<1> DEFINE table == Head(todo)
           k == table.place[1]
           rows == RowsOf(table, n)
           old == done \o todo
           new == done \o (rows \o Tail(todo))
           L == Len(done) + 1
<1>1. /\ table \in EntrySet /\ old \in Seq(EntrySet) /\ Tail(todo) \in Seq(EntrySet)
      /\ Len(old) \in Nat /\ L \in 1 .. Len(old) /\ old[L] = table
      /\ Len(old) = Len(done) + Len(todo) /\ Len(done) \in Nat /\ Len(todo) \in Nat \ {0}
  OBVIOUS
<1>2. ~IsBeam(table.step)
  BY DEF IsBeam
<1>3. Belongs(c, table)
  BY <1>1, <1>2 DEF InRecipeOrder
<1>4. /\ k \in DOMAIN Recipe[c] /\ k \in Nat /\ table.place = <<k, 0>> /\ table.step = Recipe[c][k]
      /\ Recipe[c][k].kind = "rows"
  <2>1. k \in DOMAIN Recipe[c] /\ k \in Nat /\ table.place \in Nat \X Nat
    BY <1>1, <1>3 DEF Belongs, EntrySet
  <2>2. table.place[2] = 0 /\ table.step = Recipe[c][k]
    BY <1>3, <2>1, ListedFacts DEF Belongs
  <2> QED
    BY <2>1, <2>2
<1> DEFINE each == table.step.each
<1>5. each \in ListedSteps /\ each.kind = "command" /\ ~IsBeam(each)
  BY <1>4, ListedFacts
<1>6. /\ rows \in Seq(EntrySet) /\ Len(rows) = n
      /\ \A i \in 1 .. n : rows[i] = [step |-> each, place |-> <<k, i>>]
  <2>1. \A i \in 1 .. n : [step |-> each, place |-> <<k, i>>] \in EntrySet
    BY <1>4, <1>5 DEF EntrySet
  <2> HIDE DEF each, k, table
  <2> SUFFICES ASSUME rows = [i \in 1 .. n |-> [step |-> each, place |-> <<k, i>>]]
               PROVE  /\ rows \in Seq(EntrySet) /\ Len(rows) = n
                      /\ \A i \in 1 .. n : rows[i] = [step |-> each, place |-> <<k, i>>]
    BY DEF RowsOf, each, k
  <2> HIDE DEF rows
  <2> QED
    BY <2>1
<1> HIDE DEF rows, each
<1>7. rows \o Tail(todo) \in Seq(EntrySet) /\ new \in Seq(EntrySet) /\ Len(new) = Len(old) + n - 1
  <2> DEFINE rest == rows \o Tail(todo)
  <2>1. Len(Tail(todo)) = Len(todo) - 1 /\ Len(todo) \in Nat \ {0}
    BY TailFacts
  <2>2. rest \in Seq(EntrySet) /\ Len(rest) = Len(rows) + Len(Tail(todo))
    BY <1>1, <1>6, JoinFacts
  <2>3. Len(rest) = n + Len(todo) - 1
    BY <1>6, <2>1, <2>2
  <2> HIDE DEF rest, old
  <2>4. done \o rest \in Seq(EntrySet) /\ Len(done \o rest) = Len(done) + Len(rest)
    BY <2>2, JoinFacts
  <2>5. Len(done \o rest) = Len(old) + n - 1
    BY <1>1, <2>1, <2>3, <2>4
  <2> QED
    BY <2>2, <2>4, <2>5 DEF rest
<1>7a. /\ Len(done) \in Nat /\ Len(todo) \in Nat \ {0} /\ Len(old) \in Nat /\ L \in 1 .. Len(old)
       /\ Len(old) = Len(done) + Len(todo) /\ Len(new) = Len(old) + n - 1
  BY <1>1, <1>7
\* Where the entries of the one are in the other.
<1>8. /\ \A i \in 1 .. L - 1 : new[i] = old[i]
      /\ \A i \in L .. L + n - 1 : i - L + 1 \in 1 .. n /\ new[i] = rows[i - L + 1]
      /\ \A i \in L + n .. Len(new) : i - n + 1 \in L + 1 .. Len(old) /\ new[i] = old[i - n + 1]
  <2> DEFINE rest == rows \o Tail(todo)
  <2>1. Len(Tail(todo)) = Len(todo) - 1 /\ Len(todo) \in Nat
        /\ \A i \in 1 .. Len(todo) - 1 : Tail(todo)[i] = todo[i + 1]
    BY TailFacts
  <2>1a. /\ Len(rest) = n + Len(todo) - 1
         /\ \A i \in 1 .. n : rest[i] = rows[i]
         /\ \A i \in n + 1 .. n + Len(todo) - 1 : rest[i] = Tail(todo)[i - n]
    <3>1. Len(rest) = Len(rows) + Len(Tail(todo))
      BY <1>1, <1>6, JoinFacts
    <3>2. \A i \in 1 .. Len(rows) : rest[i] = rows[i]
      BY <1>1, <1>6, JoinFacts
    <3>3. \A i \in Len(rows) + 1 .. Len(rows) + Len(Tail(todo)) : rest[i] = Tail(todo)[i - Len(rows)]
      BY <1>1, <1>6, JoinFacts
    <3> HIDE DEF rest
    <3>4. Len(rest) = n + Len(todo) - 1
      BY <1>6, <2>1, <3>1
    <3>5. n + (Len(todo) - 1) = n + Len(todo) - 1
      BY <2>1
    <3> QED
      BY <1>6, <2>1, <3>2, <3>3, <3>4, <3>5
  <2>1b. /\ \A i \in 1 .. Len(done) : new[i] = done[i] /\ old[i] = done[i]
         /\ \A i \in Len(done) + 1 .. Len(done) + Len(rest) : new[i] = rest[i - Len(done)]
         /\ \A i \in Len(done) + 1 .. Len(done) + Len(todo) : old[i] = todo[i - Len(done)]
    <3>1. rest \in Seq(EntrySet) /\ new = done \o rest /\ old = done \o todo
      BY <1>7
    <3> HIDE DEF rest, old, new
    <3>2. /\ \A i \in 1 .. Len(done) : (done \o rest)[i] = done[i]
          /\ \A i \in Len(done) + 1 .. Len(done) + Len(rest) : (done \o rest)[i] = rest[i - Len(done)]
      BY <3>1, JoinFacts
    <3>3. /\ \A i \in 1 .. Len(done) : (done \o todo)[i] = done[i]
          /\ \A i \in Len(done) + 1 .. Len(done) + Len(todo) : (done \o todo)[i] = todo[i - Len(done)]
      BY JoinFacts
    <3> QED
      BY <3>1, <3>2, <3>3
  <2> HIDE DEF rest, old, new
  <2>2. \A i \in 1 .. L - 1 : new[i] = old[i]
    BY <1>1, <2>1b
  <2>3. ASSUME NEW i \in L .. L + n - 1
        PROVE  i - L + 1 \in 1 .. n /\ new[i] = rows[i - L + 1]
    BY <1>1, <2>1, <2>1a, <2>1b
  <2>4. ASSUME NEW i \in L + n .. Len(new)
        PROVE  i - n + 1 \in L + 1 .. Len(old) /\ new[i] = old[i - n + 1]
    <3>1. /\ i - n + 1 \in L + 1 .. Len(old) /\ i - Len(done) - n \in 1 .. Len(todo) - 1
      <4>1. /\ Len(done) \in Nat /\ Len(todo) \in Nat /\ Len(old) = Len(done) + Len(todo)
            /\ Len(new) = Len(old) + n - 1
        BY <1>7a
      <4>2. i \in Int /\ Len(done) + 1 + n <= i /\ i <= Len(done) + Len(todo) + n - 1
        BY <4>1
      <4> QED
        BY <4>1, <4>2
    <3>0. /\ i \in Len(done) + 1 .. Len(done) + Len(rest)
          /\ i - Len(done) \in n + 1 .. n + Len(todo) - 1
      BY <1>1, <1>7, <2>1, <2>1a
    <3>2. new[i] = rest[i - Len(done)]
      BY <2>1b, <3>0
    <3>3. rest[i - Len(done)] = Tail(todo)[i - Len(done) - n]
      BY <2>1a, <3>0
    <3>4. Tail(todo)[i - Len(done) - n] = todo[i - Len(done) - n + 1]
      BY <2>1, <3>1
    <3>5. old[i - n + 1] = todo[i - n + 1 - Len(done)]
      BY <1>1, <2>1b, <3>1
    <3>6. i - n + 1 - Len(done) = i - Len(done) - n + 1
      BY <1>1
    <3> QED
      BY <3>1, <3>2, <3>3, <3>4, <3>5, <3>6
  <2> QED
    BY <2>2, <2>3, <2>4
<1> DEFINE Own(s) == {i \in DOMAIN s : ~IsBeam(s[i].step)}
<1>9. DOMAIN old = 1 .. Len(old) /\ DOMAIN new = 1 .. Len(new)
  BY <1>7a
<1>10. /\ DOMAIN old \ Own(old) \subseteq {1}
       /\ \A i \in Own(old) : Belongs(c, old[i])
       /\ \A i, j \in Own(old) : i < j => Earlier(old[i].place, old[j].place)
       /\ \A x \in DOMAIN Recipe[c] : IsBeam(Recipe[c][x]) \/ \E i \in Own(old) : old[i].place[1] = x
       /\ \A i \in Own(old) : old[i].place[2] > 1 =>
            \E j \in Own(old) : old[j].place = <<old[i].place[1], old[i].place[2] - 1>>
  BY DEF InRecipeOrder
<1> HIDE DEF old, new, table, k
<1>11. \A i \in 1 .. Len(new) : i \in 1 .. L - 1 \/ i \in L .. L + n - 1 \/ i \in L + n .. Len(new)
  BY <1>7a
<1>12. \A i \in L .. L + n - 1 : i \in Own(new) /\ new[i].place = <<k, i - L + 1>> /\ new[i].step = each
  <2> SUFFICES ASSUME NEW i \in L .. L + n - 1
               PROVE  i \in DOMAIN new /\ ~IsBeam(new[i].step) /\ new[i].place = <<k, i - L + 1>> /\ new[i].step = each
    OBVIOUS
  <2>1. new[i] = [step |-> each, place |-> <<k, i - L + 1>>]
    BY <1>6, <1>8
  <2>2. i \in 1 .. Len(new)
    BY <1>7a
  <2> QED
    BY <1>5, <1>9, <2>1, <2>2
<1>13. /\ \A i \in 1 .. L - 1 : i \in Own(new) <=> i \in Own(old)
       /\ \A i \in L + n .. Len(new) : i \in Own(new) <=> i - n + 1 \in Own(old)
  <2>1. ASSUME NEW i \in 1 .. L - 1
        PROVE  i \in Own(new) <=> i \in Own(old)
    <3>1. i \in 1 .. Len(new) /\ i \in 1 .. Len(old)
      BY <1>7a
    <3>2. new[i] = old[i]
      BY <1>8
    <3> QED
      BY <1>9, <3>1, <3>2
  <2>2. ASSUME NEW i \in L + n .. Len(new)
        PROVE  i \in Own(new) <=> i - n + 1 \in Own(old)
    <3>1. i \in 1 .. Len(new) /\ L + 1 .. Len(old) \subseteq 1 .. Len(old)
      BY <1>7a
    <3>2. i - n + 1 \in L + 1 .. Len(old) /\ new[i] = old[i - n + 1]
      BY <1>8
    <3> QED
      BY <1>9, <3>1, <3>2
  <2> QED
    BY <2>1, <2>2
<1>14. L \in Own(old)
  BY <1>1, <1>2, <1>9
<1>14a. Own(old) \subseteq 1 .. Len(old) /\ Own(new) \subseteq 1 .. Len(new)
  BY <1>9
<1>14b. \A i \in Own(old) : old[i].place \in Nat \X Nat
  <2> SUFFICES ASSUME NEW i \in Own(old)
               PROVE  old[i].place \in Nat \X Nat
    OBVIOUS
  <2>1. old[i] \in EntrySet
    BY <1>1, <1>14a
  <2> QED
    BY <2>1 DEF EntrySet
<1> HIDE DEF Own
\* Others are before or behind the table, in another step.
<1>15. /\ \A i \in Own(old) : i < L => old[i].place[1] < k
       /\ \A i \in Own(old) : L < i => k < old[i].place[1]
  <2>1. old[L].place = <<k, 0>>
    BY <1>1, <1>4
  <2>2. \A i \in Own(old) : i < L => old[i].place[1] < k
    BY <1>4, <1>10, <1>14, <1>14b, <2>1 DEF Earlier
  <2>3. \A i \in Own(old) : L < i => k < old[i].place[1]
    BY <1>4, <1>10, <1>14, <1>14b, <2>1 DEF Earlier
  <2> QED
    BY <2>2, <2>3
<1>16. DOMAIN new \ Own(new) \subseteq {1}
  <2> SUFFICES ASSUME NEW i \in 1 .. Len(new), i \notin Own(new)
               PROVE  i = 1
    BY <1>9
  <2>1. i \notin L .. L + n - 1
    BY <1>12
  <2>2. CASE i \in 1 .. L - 1
    <3>1. i \in DOMAIN old /\ i \notin Own(old)
      BY <1>1, <1>9, <1>13, <2>2
    <3> QED
      BY <1>10, <3>1
  <2>3. CASE i \in L + n .. Len(new)
    <3>1. i - n + 1 \in L + 1 .. Len(old)
      BY <1>8, <2>3
    <3>2. i - n + 1 \in DOMAIN old /\ i - n + 1 \notin Own(old) /\ i - n + 1 # 1
      BY <1>1, <1>9, <1>13, <2>3, <3>1
    <3> QED
      BY <1>10, <3>2
  <2> QED
    BY <1>11, <2>1, <2>2, <2>3
<1>17. ASSUME NEW i \in Own(new)
       PROVE  Belongs(c, new[i])
  <2>1. CASE i \in L .. L + n - 1
    BY <1>1, <1>4, <1>12, <2>1 DEF Belongs, each
  <2>2. CASE i \notin L .. L + n - 1
    BY <1>8, <1>10, <1>11, <1>13, <1>14a, <2>2
  <2> QED
    BY <2>1, <2>2
<1>18. ASSUME NEW i \in Own(new), NEW j \in Own(new), i < j
       PROVE  Earlier(new[i].place, new[j].place)
  <2>1. CASE i \in 1 .. L - 1 /\ j \in 1 .. L - 1
    BY <1>8, <1>10, <1>13, <1>18, <2>1
  <2>2. CASE i \in 1 .. L - 1 /\ j \in L .. L + n - 1
    <3>1. i \in Own(old) /\ i < L /\ new[i] = old[i]
      BY <1>1, <1>8, <1>13, <2>2
    <3>2. new[j].place = <<k, j - L + 1>>
      BY <1>12, <2>2
    <3> QED
      BY <1>15, <3>1, <3>2 DEF Earlier
  <2>3. CASE i \in 1 .. L - 1 /\ j \in L + n .. Len(new)
    <3>0. i < j - n + 1
      BY <1>7a, <2>3
    <3>1. i \in Own(old) /\ j - n + 1 \in Own(old) /\ i < j - n + 1
      BY <1>13, <2>3, <3>0
    <3> QED
      BY <1>8, <1>10, <2>3, <3>1
  <2>4. CASE i \in L .. L + n - 1 /\ j \in L .. L + n - 1
    <3>1. new[i].place = <<k, i - L + 1>> /\ new[j].place = <<k, j - L + 1>>
      BY <1>12, <2>4
    <3>2. 0 < i - L + 1 /\ i - L + 1 < j - L + 1
      BY <1>7a, <1>18, <2>4
    <3> QED
      BY <3>1, <3>2 DEF Earlier
  <2>5. CASE i \in L .. L + n - 1 /\ j \in L + n .. Len(new)
    <3>0. L < j - n + 1
      BY <1>7a, <2>5
    <3>1. j - n + 1 \in Own(old) /\ L < j - n + 1 /\ new[j] = old[j - n + 1]
      BY <1>8, <1>13, <2>5, <3>0
    <3>2. new[i].place = <<k, i - L + 1>>
      BY <1>12, <2>5
    <3> QED
      BY <1>15, <3>1, <3>2 DEF Earlier
  <2>6. CASE i \in L + n .. Len(new) /\ j \in L + n .. Len(new)
    <3>0. i - n + 1 < j - n + 1
      BY <1>7a, <1>18, <2>6
    <3>1. i - n + 1 \in Own(old) /\ j - n + 1 \in Own(old) /\ i - n + 1 < j - n + 1
      BY <1>13, <2>6, <3>0
    <3> QED
      BY <1>8, <1>10, <2>6, <3>1
  <2>7. \/ i \in 1 .. L - 1 /\ j \in 1 .. L - 1
        \/ i \in 1 .. L - 1 /\ j \in L .. L + n - 1
        \/ i \in 1 .. L - 1 /\ j \in L + n .. Len(new)
        \/ i \in L .. L + n - 1 /\ j \in L .. L + n - 1
        \/ i \in L .. L + n - 1 /\ j \in L + n .. Len(new)
        \/ i \in L + n .. Len(new) /\ j \in L + n .. Len(new)
    BY <1>1, <1>7, <1>11, <1>14a, <1>18
  <2> QED
    BY <2>1, <2>2, <2>3, <2>4, <2>5, <2>6, <2>7
\* Whatever was in the old sequence is in the new one, but for the table.
<1>19. ASSUME NEW i \in Own(old), i # L
       PROVE  \E j \in Own(new) : new[j] = old[i]
  <2>1. CASE i < L
    <3>1. i \in 1 .. L - 1
      BY <1>1, <1>14a, <2>1
    <3> QED
      BY <1>8, <1>13, <3>1
  <2>2. CASE L < i
    <3>0. i \in Nat /\ i <= Len(old)
      BY <1>1, <1>14a
    <3>0a. Len(new) = Len(old) + n - 1 /\ Len(new) \in Nat /\ Len(old) \in Nat /\ L \in Nat
      BY <1>1, <1>7
    <3> HIDE DEF L
    <3>1. i + n - 1 \in L + n .. Len(new) /\ (i + n - 1) - n + 1 = i
      BY <2>2, <3>0, <3>0a
    <3>2. new[i + n - 1] = old[i] /\ i + n - 1 \in Own(new)
      BY <1>8, <1>13, <3>1
    <3> QED
      BY <3>2
  <2> QED
    BY <1>1, <1>14a, <1>19, <2>1, <2>2
<1>20. ASSUME NEW x \in DOMAIN Recipe[c], ~IsBeam(Recipe[c][x])
       PROVE  \E j \in Own(new) : new[j].place[1] = x
  <2>1. PICK i \in Own(old) : old[i].place[1] = x
    BY <1>10, <1>20
  <2>2. CASE i = L
    <3>1. L \in L .. L + n - 1
      BY <1>1
    <3>2. L \in Own(new) /\ new[L].place[1] = k
      BY <1>12, <3>1
    <3> QED
      BY <1>1, <1>4, <2>1, <2>2, <3>2 DEF k
  <2> QED
    BY <1>19, <2>1, <2>2
<1>21. ASSUME NEW i \in Own(new), new[i].place[2] > 1
       PROVE  \E j \in Own(new) : new[j].place = <<new[i].place[1], new[i].place[2] - 1>>
  <2>1. CASE i \in L .. L + n - 1
    <3>1. new[i].place = <<k, i - L + 1>> /\ i - 1 \in L .. L + n - 1
      BY <1>1, <1>12, <1>21, <2>1
    <3>2. i - 1 \in Own(new) /\ new[i - 1].place = <<k, i - 1 - L + 1>>
      BY <1>12, <3>1
    <3>3. new[i - 1].place = <<new[i].place[1], new[i].place[2] - 1>>
      BY <1>1, <2>1, <3>1, <3>2
    <3> QED
      BY <3>2, <3>3
  <2>2. CASE i \notin L .. L + n - 1
    <3>1. PICK m \in Own(old) : new[i] = old[m]
      BY <1>8, <1>11, <1>13, <1>14a, <2>2
    <3>2. PICK p \in Own(old) : old[p].place = <<old[m].place[1], old[m].place[2] - 1>>
      BY <1>10, <1>21, <3>1
    <3>3. p # L
      BY <1>1, <1>4, <1>14b, <1>21, <3>1, <3>2
    <3> QED
      BY <1>19, <3>1, <3>2, <3>3
  <2> QED
    BY <2>1, <2>2
<1>22. InRecipeOrder(c, new)
  <2>1. Own(new) = {i \in DOMAIN new : ~IsBeam(new[i].step)}
    BY DEF Own
  <2> QED
    BY <1>16, <1>17, <1>18, <1>20, <1>21, <2>1 DEF InRecipeOrder
<1>23. Leads(old) => Leads(new)
  <2>1. ASSUME Leads(old)
        PROVE  Leads(new)
    <3>1. L # 1
      BY <1>1, <1>2, <2>1 DEF Leads
    <3>2. 1 \in 1 .. L - 1
      BY <1>1, <3>1
    <3>3. new[1] = old[1] /\ Len(new) # 0
      BY <1>1, <1>7, <1>8, <3>2
    <3> QED
      BY <1>7, <2>1, <3>3 DEF Leads
  <2> QED
    BY <2>1
<1> QED
  BY <1>7, <1>22, <1>23 DEF old, new, rows, table

-----------------------------------------------------------------------------
(* What a step of one runner leaves of what the others know.               *)

LEMMA KnowledgeGrows ==
  ASSUME NEW p, NEW stage, NEW done, NEW more, done \subseteq more, Knowledge(p, stage, done)
  PROVE  Knowledge(p, stage, more)
<1>1. Works(p, stage, done) => Works(p, stage, more)
  BY DEF Works, Proved
<1> QED
  BY <1>1 DEF Knowledge

LEMMA SoundGrows ==
  ASSUME NEW h, NEW stage, NEW done, NEW more, done \subseteq more, StageSound(h, stage, done)
  PROVE  StageSound(h, stage, more)
BY DEF StageSound, PassedTruly

\* Where a runner works.
LEMMA HereFacts ==
  ASSUME NEW names \in Seq(Case), NEW k \in 1 .. Len(names)
  PROVE  /\ names[k] \in Case
         /\ StageOf(names, names[k]) \in Stage /\ StageOf(names, names[k]) \in {Root, names[k]}
BY DEF StageOf, Stage

LEMMA RunnerFacts ==
  ASSUME RunnersInv, NEW r \in Runner
  PROVE  /\ runner[r] \in RunnerSet
         /\ runner[r].at # "idle" => /\ Current(r) \in Case /\ Current(r) = runner[r].names[runner[r].next]
                                     /\ Here(r) \in Stage /\ Here(r) \in {Root, Current(r)}
                                     /\ Here(r) = HereOf(runner[r])
                                     /\ disk[Here(r)] \in StageSet
                                     /\ StageSound(Here(r), disk[Here(r)], compiled)
                                     /\ Knowledge(runner[r], disk[Here(r)], compiled)
         /\ Writes(r) <=> runner[r].at \in Holding
<1>1. runner[r] \in RunnerSet
  BY DEF RunnersInv, RunnersTyped
<1>2. ASSUME runner[r].at # "idle"
      PROVE  /\ Current(r) \in Case /\ Current(r) = runner[r].names[runner[r].next]
             /\ Here(r) \in Stage /\ Here(r) \in {Root, Current(r)} /\ Here(r) = HereOf(runner[r])
             /\ Knowledge(runner[r], disk[Here(r)], compiled)
  <2>1. Knowledge(runner[r], disk[Here(r)], compiled)
    BY <1>2 DEF RunnersInv
  <2>2. runner[r].next \in 1 .. Len(runner[r].names)
    BY <2>1 DEF Knowledge
  <2>3. runner[r].names \in Seq(Case)
    BY <1>1 DEF RunnerSet
  <2>4. Current(r) = runner[r].names[runner[r].next] /\ Here(r) = HereOf(runner[r])
    BY DEF Current, Here, HereOf
  <2> QED
    BY <2>1, <2>2, <2>3, <2>4, HereFacts DEF HereOf
<1>3. Writes(r) <=> runner[r].at \in Holding
  BY DEF Writes, Holding, Working
<1> QED
  BY <1>1, <1>2, <1>3 DEF RunnersInv, RunnersTyped

\* A step of runner r, whatever it changes of the stages.
LEMMA TogetherKeep ==
  ASSUME RunnersInv, NEW r \in Runner, NEW p \in RunnerSet, NEW done, done \subseteq Nat,
         disk' \in [Stage -> StageSet], runner' = [runner EXCEPT ![r] = p], compiled' = done,
         starts' \in Nat,
         \A d \in Stage : StageSound(d, disk'[d], done),
         p.at # "idle" => Knowledge(p, disk'[HereOf(p)], done),
         \A q \in Runner \ {r} : runner[q].at # "idle" => Knowledge(runner[q], disk'[Here(q)], done),
         p.at \in Holding => \A q \in Runner \ {r} : Writes(q) => Here(q) # HereOf(p)
  PROVE  RunnersInv'
<1>1. /\ runner' \in [Runner -> RunnerSet]
      /\ runner'[r] = p /\ \A q \in Runner \ {r} : runner'[q] = runner[q]
  BY DEF RunnersInv, RunnersTyped
<1>2. RunnersTyped'
  BY <1>1 DEF RunnersTyped
<1>3. Here(r)' = HereOf(p) /\ \A q \in Runner \ {r} : Here(q)' = Here(q)
  BY <1>1 DEF Here, Current, HereOf, StageOf
<1>4. (Writes(r)' <=> p.at \in Holding) /\ \A q \in Runner \ {r} : Writes(q)' = Writes(q)
  BY <1>1 DEF Writes, Holding, Working
<1>5. OneOwner'
  <2> SUFFICES ASSUME NEW q1 \in Runner, NEW q2 \in Runner, q1 # q2, Writes(q1)', Writes(q2)'
               PROVE  Here(q1)' # Here(q2)'
    BY DEF OneOwner
  <2>1. CASE q1 # r /\ q2 # r
    BY <1>3, <1>4, <2>1 DEF RunnersInv, OneOwner
  <2>2. CASE q1 = r
    BY <1>3, <1>4, <2>2
  <2>3. CASE q2 = r
    BY <1>3, <1>4, <2>3
  <2> QED
    BY <2>1, <2>2, <2>3
<1>6. ASSUME NEW q \in Runner, runner'[q].at # "idle"
      PROVE  Knowledge(runner'[q], disk'[Here(q)'], done)
  <2>1. CASE q = r
    BY <1>1, <1>3, <1>6, <2>1
  <2>2. CASE q # r
    <3>1. runner'[q] = runner[q] /\ Here(q)' = Here(q)
      BY <1>1, <1>3, <2>2
    <3> QED
      BY <1>6, <2>2, <3>1
  <2> QED
    BY <2>1, <2>2
<1>7. \A d \in Stage : StageSound(d, disk[d], compiled)'
  OBVIOUS
<1>8. \A q \in Runner : (runner[q].at # "idle" => Knowledge(runner[q], disk[Here(q)], compiled))'
  BY <1>6
<1> QED
  BY <1>2, <1>5, <1>7, <1>8 DEF RunnersInv

\* A step of runner r that changes one stage.
LEMMA OneKeeps ==
  ASSUME RunnersInv, NEW r \in Runner, NEW h \in Stage, NEW p \in RunnerSet, NEW stage \in StageSet,
         NEW done, compiled \subseteq done, done \subseteq Nat,
         disk' = [disk EXCEPT ![h] = stage], runner' = [runner EXCEPT ![r] = p], compiled' = done,
         starts' \in Nat, StageSound(h, stage, done),
         p.at # "idle" => Knowledge(p, disk'[HereOf(p)], done),
         \A q \in Runner \ {r} : runner[q].at # "idle" /\ Here(q) = h =>
           Knowledge(runner[q], stage, done),
         p.at \in Holding => \A q \in Runner \ {r} : Writes(q) => Here(q) # HereOf(p)
  PROVE  RunnersInv'
<1>1. /\ disk' \in [Stage -> StageSet]
      /\ disk'[h] = stage /\ \A d \in Stage \ {h} : disk'[d] = disk[d]
  BY DEF RunnersInv, RunnersTyped
<1>2. ASSUME NEW d \in Stage
      PROVE  StageSound(d, disk'[d], done)
  BY <1>1, SoundGrows DEF RunnersInv
<1>3. ASSUME NEW q \in Runner \ {r}, runner[q].at # "idle"
      PROVE  Knowledge(runner[q], disk'[Here(q)], done)
  <2>1. Here(q) \in Stage /\ Knowledge(runner[q], disk[Here(q)], compiled)
    BY <1>3, RunnerFacts
  <2>2. CASE Here(q) = h
    BY <1>1, <1>3, <2>2
  <2>3. CASE Here(q) # h
    <3>1. disk'[Here(q)] = disk[Here(q)]
      BY <1>1, <2>1, <2>3
    <3> QED
      BY <2>1, <3>1, KnowledgeGrows
  <2> QED
    BY <2>2, <2>3
<1> QED
  BY <1>1, <1>2, <1>3, TogetherKeep

\* A stage that may have come into being and is the same otherwise.
Raised(s, t) ==
  /\ t.logs = s.logs /\ t.products = s.products /\ t.files = s.files /\ t.receipt = s.receipt
  /\ s.exists => t.exists

LEMMA RaisedKeeps ==
  ASSUME NEW s, NEW t, Raised(s, t)
  PROVE  /\ \A d, done : StageSound(d, s, done) => StageSound(d, t, done)
         /\ \A p, done : Knowledge(p, s, done) => Knowledge(p, t, done)
<1>1. \A p, done : Works(p, s, done) => Works(p, t, done)
  BY DEF Raised, Works, Recorded, Proved, Produced
<1>2. \A p, done : Knowledge(p, s, done) => Knowledge(p, t, done)
  BY <1>1 DEF Raised, Knowledge
<1>3. \A d, done : StageSound(d, s, done) => StageSound(d, t, done)
  BY DEF Raised, StageSound, PassedTruly
<1> QED
  BY <1>2, <1>3

LEMMA MadeFacts ==
  ASSUME RunnersInv, NEW h \in Stage
  PROVE  /\ Made(h) \in [Stage -> StageSet] /\ Made(h)[h].exists
         /\ \A e \in Stage : Raised(disk[e], Made(h)[e])
<1>1. ASSUME NEW e \in Stage
      PROVE  /\ Made(h)[e] = IF h \in StagesIn(e) THEN [disk[e] EXCEPT !.exists = TRUE] ELSE disk[e]
             /\ disk[e] \in StageSet
  BY DEF Made, RunnersInv, RunnersTyped
<1>2. ASSUME NEW e \in Stage
      PROVE  /\ Made(h)[e] \in StageSet /\ Raised(disk[e], Made(h)[e])
             /\ h \in StagesIn(e) => Made(h)[e].exists
  BY <1>1 DEF StageSet, Raised
<1>3. h \in StagesIn(h)
  BY DEF StagesIn
<1>4. Made(h) \in [Stage -> StageSet]
  BY <1>2 DEF Made
<1> QED
  BY <1>2, <1>3, <1>4

\* A runner that keeps its hands off the stages.
LEMMA HandsOff ==
  ASSUME RunnersInv, NEW r \in Runner, NEW p \in RunnerSet, disk' = disk, compiled' = compiled,
         runner' = [runner EXCEPT ![r] = p], starts' \in Nat,
         p.at \in {"idle", "check", "case"},
         p.at # "idle" => /\ p.next \in 1 .. Len(p.names)
                          /\ p.next > 1 /\ Compiling(p.names) # {} => p.attempt \in compiled
  PROVE  RunnersInv'
<1>1. \A s : p.at # "idle" => Knowledge(p, s, compiled)
  BY DEF Knowledge, Holding, Working
<1>2. p.at \notin Holding
  BY DEF Holding, Working
<1>3. disk \in [Stage -> StageSet] /\ compiled \subseteq Nat
      /\ \A d \in Stage : StageSound(d, disk[d], compiled)
  BY DEF RunnersInv, RunnersTyped
<1>4. \A q \in Runner \ {r} : runner[q].at # "idle" => Knowledge(runner[q], disk[Here(q)], compiled)
  BY DEF RunnersInv
<1> QED
  BY <1>1, <1>2, <1>3, <1>4, TogetherKeep

\* The owner of a stage: nobody else is sure of anything there.
LEMMA OwnerKeeps ==
  ASSUME RunnersInv, NEW r \in Runner, Writes(r), NEW p \in RunnerSet, NEW stage \in StageSet,
         NEW done, compiled \subseteq done, done \subseteq Nat,
         disk' = [disk EXCEPT ![Here(r)] = stage], runner' = [runner EXCEPT ![r] = p], compiled' = done,
         starts' = starts,
         stage.exists = disk[Here(r)].exists, stage.logs = disk[Here(r)].logs,
         PassedTruly(Here(r), stage, done),
         \/ p.at = "idle"
         \/ /\ p.at \in Holding /\ p.names = runner[r].names /\ p.next = runner[r].next
            /\ Knowledge(p, stage, done)
         \/ /\ p.at = "case" /\ p.next \in 1 .. Len(p.names)
            /\ p.next > 1 /\ Compiling(p.names) # {} => p.attempt \in done
  PROVE  RunnersInv'
<1> DEFINE h == Here(r)
<1>1. runner[r].at \in Holding /\ runner[r].at # "idle"
  BY RunnerFacts DEF Holding, Working
<1>2. /\ h \in Stage /\ h = HereOf(runner[r])
      /\ StageSound(h, disk[h], compiled) /\ Knowledge(runner[r], disk[h], compiled)
  BY <1>1, RunnerFacts
<1>3. disk[h].logs /\ disk[h].exists
  BY <1>1, <1>2 DEF Knowledge, StageSound
<1> HIDE DEF h
<1>4. StageSound(h, stage, done)
  BY <1>3 DEF StageSound, h
<1>5. disk'[h] = stage
  BY <1>2 DEF RunnersInv, RunnersTyped, h
<1>6. p.at # "idle" => Knowledge(p, disk'[HereOf(p)], done)
  <2>1. CASE p.at \in Holding /\ p.names = runner[r].names /\ p.next = runner[r].next /\ Knowledge(p, stage, done)
    <3>1. HereOf(p) = h
      BY <1>2, <2>1 DEF HereOf
    <3> QED
      BY <1>5, <2>1, <3>1
  <2>2. CASE p.at = "case"
    BY <2>2 DEF Knowledge, Holding, Working
  <2> QED
    BY <2>1, <2>2
<1>7. ASSUME NEW q \in Runner \ {r}, runner[q].at # "idle", Here(q) = h
      PROVE  Knowledge(runner[q], stage, done)
  <2>1. ~Writes(q)
    BY <1>7 DEF RunnersInv, OneOwner, h
  <2>2. runner[q].at \notin Holding /\ Knowledge(runner[q], disk[h], compiled)
    BY <1>7, <2>1, RunnerFacts
  <2> QED
    BY <1>3, <2>2 DEF Knowledge, Holding, h
<1>8. p.at \in Holding => \A q \in Runner \ {r} : Writes(q) => Here(q) # HereOf(p)
  <2>1. \A q \in Runner \ {r} : Writes(q) => Here(q) # h
    BY DEF RunnersInv, OneOwner, h
  <2> QED
    BY <1>2, <2>1 DEF HereOf, Holding, Working
<1>9. starts' \in Nat
  BY DEF RunnersInv, RunnersTyped
<1> QED
  BY <1>2, <1>4, <1>6, <1>7, <1>8, <1>9, OneKeeps DEF h

-----------------------------------------------------------------------------
(* The steps.                                                              *)

LEMMA LastRowFacts ==
  ASSUME NEW rows \in Seq(RowSet), rows # << >>, NEW status \in {"passed", "failed"}
  PROVE  /\ LastRow(rows, status) \in Seq(RowSet) /\ Len(LastRow(rows, status)) = Len(rows)
         /\ Len(rows) \in Nat \ {0}
         /\ \A n \in 1 .. Len(rows) : LastRow(rows, status)[n].entry = rows[n].entry
         /\ \A n \in 1 .. Len(rows) : n < Len(rows) => LastRow(rows, status)[n] = rows[n]
         /\ LastRow(rows, status)[Len(rows)].status = status
<1> DEFINE m == Len(rows)
           row == [rows[m] EXCEPT !.status = status]
<1>1. m \in Nat \ {0} /\ m \in 1 .. Len(rows) /\ rows[m] \in RowSet
  OBVIOUS
<1>2. row \in RowSet /\ row.entry = rows[m].entry /\ row.status = status
  BY <1>1 DEF RowSet
<1>3. LastRow(rows, status) = [rows EXCEPT ![m] = row]
  BY <1>1 DEF LastRow
<1> HIDE DEF row, m
<1>4. [rows EXCEPT ![m] = row] \in Seq(RowSet) /\ Len([rows EXCEPT ![m] = row]) = Len(rows)
      /\ \A n \in 1 .. Len(rows) : [rows EXCEPT ![m] = row][n] = IF n = m THEN row ELSE rows[n]
  BY <1>1, <1>2
<1> DEFINE last == [rows EXCEPT ![m] = row]
<1> HIDE DEF last
<1>5. /\ last \in Seq(RowSet) /\ Len(last) = m /\ last[m] = row
      /\ \A n \in 1 .. m : n # m => last[n] = rows[n]
  <2>1. /\ last \in Seq(RowSet) /\ Len(last) = Len(rows) /\ m \in 1 .. Len(rows)
        /\ \A n \in 1 .. Len(rows) : last[n] = IF n = m THEN row ELSE rows[n]
    BY <1>1, <1>4 DEF last
  <2>2. last[m] = row /\ \A n \in 1 .. Len(rows) : n # m => last[n] = rows[n]
    BY <2>1
  <2> QED
    BY <2>1, <2>2 DEF m
<1>6. \A n \in 1 .. m : last[n].entry = rows[n].entry
  BY <1>2, <1>5
<1>7. \A n \in 1 .. m : n < m => last[n] = rows[n]
  BY <1>1, <1>5
<1> QED
  BY <1>1, <1>2, <1>3, <1>5, <1>6, <1>7 DEF m, last

LEMMA WorkFacts ==
  ASSUME RunnersInv, NEW r \in Runner, runner[r].at \in Holding
  PROVE  /\ runner[r] \in RunnerSet /\ Writes(r) /\ Current(r) \in Case
         /\ Here(r) \in Stage /\ Here(r) \in {Root, Current(r)}
         /\ Current(r) = runner[r].names[runner[r].next] /\ disk[Here(r)] \in StageSet
         /\ StageSound(Here(r), disk[Here(r)], compiled)
         /\ Knowledge(runner[r], disk[Here(r)], compiled)
         /\ runner[r].at \in Working => Works(runner[r], disk[Here(r)], compiled)
         /\ disk \in [Stage -> StageSet] /\ compiled \subseteq Nat
<1>1. runner[r].at # "idle"
  BY DEF Holding, Working
<1> QED
  BY <1>1, RunnerFacts DEF Knowledge, RunnersInv, RunnersTyped

LEMMA IdleIsRunner == NotRunning \in RunnerSet /\ NotRunning.at = "idle"
BY DEF NotRunning, RunnerSet

\* A case that fails leaves a receipt that says so.
LEMMA FailKeeps ==
  ASSUME RunnersInv, NEW r \in Runner, runner[r].at \in Working, FailCase(r), UNCHANGED <<starts, compiled>>
  PROVE  RunnersInv'
<1> DEFINE p == runner[r]
           c == Current(r)
           h == Here(r)
           rows == IF p.rows # << >> /\ Last(p.rows).status = "running"
                   THEN LastRow(p.rows, "failed") ELSE p.rows
           receipt == Receipt(r, "failed", rows)
           stage == [disk[h] EXCEPT !.receipt = receipt]
<1>1. /\ p \in RunnerSet /\ Writes(r) /\ c \in Case /\ h \in Stage /\ disk[h] \in StageSet
      /\ disk \in [Stage -> StageSet] /\ compiled \subseteq Nat
  BY WorkFacts DEF Holding
<1>2. p.rows \in Seq(RowSet) /\ p.attempt \in Nat
  BY <1>1 DEF RunnerSet
<1>3. rows \in Seq(RowSet)
  BY <1>2, LastRowFacts
<1>3a. disk' = [disk EXCEPT ![h].receipt = receipt] /\ runner' = [runner EXCEPT ![r] = NotRunning]
  BY DEF FailCase
<1> HIDE DEF rows
<1>4. receipt \in ReceiptSet /\ receipt.status = "failed"
  BY <1>1, <1>2, <1>3 DEF Receipt, ReceiptSet
<1> HIDE DEF receipt, p, c, h
<1>5. /\ stage \in StageSet /\ stage.exists = disk[h].exists /\ stage.logs = disk[h].logs
      /\ stage.receipt = receipt
  BY <1>1, <1>4 DEF StageSet
<1>6. PassedTruly(h, stage, compiled)
  BY <1>4, <1>5 DEF PassedTruly
<1>7. disk' = [disk EXCEPT ![h] = stage]
  BY <1>1, <1>3a
<1> HIDE DEF stage
<1> QED
  BY <1>1, <1>3a, <1>5, <1>6, <1>7, IdleIsRunner, OwnerKeeps DEF c, h

LEMMA SelectionFacts ==
  ASSUME NEW names \in Selections
  PROVE  names \in Seq(Case) /\ Len(names) \in Nat \ {0}
<1>1. \E S \in SUBSET Case : S # {} /\ names \in SetToSeqs(S)
  <2>1. PICK T \in {SetToSeqs(S) : S \in (SUBSET Case) \ {{}}} : names \in T
    BY DEF Selections
  <2>2. PICK S \in (SUBSET Case) \ {{}} : T = SetToSeqs(S)
    BY <2>1
  <2>3. S \subseteq Case /\ S # {}
    BY <2>2
  <2>4. names \in SetToSeqs(S)
    BY <2>1, <2>2
  <2> QED
    BY <2>3, <2>4
<1>1a. PICK S \in SUBSET Case : S # {} /\ names \in SetToSeqs(S)
  BY <1>1
<1>2. names \in [1 .. Cardinality(S) -> S]
  BY <1>1a DEF SetToSeqs
<1>3. IsFiniteSet(S) /\ Cardinality(S) \in Nat /\ Cardinality(S) # 0
  BY <1>1a, CasesAssumption, FS_Subset, FS_CardinalityType, FS_EmptySet
<1> QED
  BY <1>2, <1>3

LEMMA StartKeeps ==
  ASSUME RunnersInv, NEW r \in Runner, NEW names \in Selections, Start(r, names)
  PROVE  RunnersInv'
<1> DEFINE p == [NotRunning EXCEPT !.at = "check", !.attempt = starts + 1, !.names = names]
<1>1. starts \in Nat
  BY DEF RunnersInv, RunnersTyped
<1>1a. names \in Seq(Case) /\ 1 \in 1 .. Len(names)
  BY SelectionFacts
<1>2. p \in RunnerSet /\ p.at = "check" /\ p.next = 1 /\ p.names = names
  <2> DEFINE p1 == [NotRunning EXCEPT !.at = "check"]
             p2 == [p1 EXCEPT !.attempt = starts + 1]
  <2>1. NotRunning \in RunnerSet /\ NotRunning.next = 1
    BY IdleIsRunner DEF NotRunning
  <2>2. p1 \in RunnerSet /\ p1.next = 1 /\ p1.at = "check"
    BY <2>1 DEF RunnerSet
  <2> HIDE DEF p1
  <2>3. p2 \in RunnerSet /\ p2.next = 1 /\ p2.at = "check"
    BY <1>1, <2>2 DEF RunnerSet
  <2>4. p = [p2 EXCEPT !.names = names]
    BY DEF p1
  <2> HIDE DEF p, p2
  <2> QED
    BY <1>1a, <2>3, <2>4 DEF RunnerSet
<1>4. disk' = disk /\ compiled' = compiled /\ runner' = [runner EXCEPT ![r] = p] /\ starts' \in Nat
  BY <1>1 DEF Start
<1> HIDE DEF p
<1>5. p.next \in 1 .. Len(p.names) /\ ~(p.next > 1) /\ p.at \in {"idle", "check", "case"}
  BY <1>1a, <1>2
<1> QED
  BY <1>2, <1>4, <1>5, HandsOff

LEMMA GiveUpKeeps ==
  ASSUME RunnersInv, NEW r \in Runner, runner' = [runner EXCEPT ![r] = NotRunning],
         UNCHANGED <<disk, starts, compiled>>
  PROVE  RunnersInv'
<1>1. starts' \in Nat
  BY DEF RunnersInv, RunnersTyped
<1> QED
  BY <1>1, IdleIsRunner, HandsOff

LEMMA CheckKeeps ==
  ASSUME RunnersInv, NEW r \in Runner, CheckAll(r)
  PROVE  RunnersInv'
<1> DEFINE p == [runner[r] EXCEPT !.at = "case"]
<1>1. runner[r] \in RunnerSet /\ runner[r].at = "check" /\ Knowledge(runner[r], disk[Here(r)], compiled)
      /\ runner \in [Runner -> RunnerSet]
  BY RunnerFacts DEF CheckAll, RunnersInv, RunnersTyped
<1>2. CASE runner' = [runner EXCEPT ![r] = NotRunning]
  BY <1>2, GiveUpKeeps DEF CheckAll
<1>3. CASE runner' = [runner EXCEPT ![r] = p]
  <2>1. p \in RunnerSet /\ p.at = "case" /\ p.next = runner[r].next /\ p.names = runner[r].names
        /\ p.attempt = runner[r].attempt
    BY <1>1 DEF RunnerSet
  <2>2. p.next \in 1 .. Len(p.names) /\ (p.next > 1 /\ Compiling(p.names) # {} => p.attempt \in compiled)
    BY <1>1, <2>1 DEF Knowledge
  <2>3. starts' \in Nat /\ disk' = disk /\ compiled' = compiled
    BY DEF CheckAll, RunnersInv, RunnersTyped
  <2> HIDE DEF p
  <2> QED
    BY <1>3, <2>1, <2>2, <2>3, HandsOff
<1>4. \/ runner' = [runner EXCEPT ![r] = NotRunning]
      \/ runner' = [runner EXCEPT ![r] = p]
  BY <1>1 DEF CheckAll
<1> QED
  BY <1>2, <1>3, <1>4

LEMMA OpenKeeps ==
  ASSUME RunnersInv, NEW r \in Runner, OpenCase(r)
  PROVE  RunnersInv'
<1> DEFINE h == Here(r)
           p == [runner[r] EXCEPT !.at = "logs"]
<1>1. /\ runner[r] \in RunnerSet /\ runner[r].at = "case" /\ h \in Stage
      /\ Knowledge(runner[r], disk[h], compiled) /\ h = HereOf(runner[r])
      /\ compiled \subseteq Nat
  BY RunnerFacts DEF OpenCase, RunnersInv, RunnersTyped
<1>2. CASE ~Fresh(h)
  BY <1>2, GiveUpKeeps DEF OpenCase
<1>3. CASE Fresh(h)
  <2>1. /\ p \in RunnerSet /\ p.at = "logs" /\ p.next = runner[r].next /\ p.names = runner[r].names
        /\ p.attempt = runner[r].attempt
    BY <1>1 DEF RunnerSet
  <2>2. disk' = Made(h) /\ runner' = [runner EXCEPT ![r] = p] /\ compiled' = compiled /\ starts' \in Nat
    BY <1>1, <1>3 DEF OpenCase, RunnersInv, RunnersTyped
  <2> HIDE DEF p, h
  <2>3. /\ disk' \in [Stage -> StageSet] /\ disk'[h].exists
        /\ \A e \in Stage : Raised(disk[e], disk'[e])
    BY <1>1, <2>2, MadeFacts
  <2>4. \A d \in Stage : StageSound(d, disk'[d], compiled)
    <3> SUFFICES ASSUME NEW d \in Stage PROVE StageSound(d, disk'[d], compiled)
      OBVIOUS
    <3>1. StageSound(d, disk[d], compiled)
      BY DEF RunnersInv
    <3> QED
      BY <2>3, <3>1, RaisedKeeps
  <2>5. Knowledge(p, disk'[HereOf(p)], compiled)
    <3>1. HereOf(p) = h
      BY <1>1, <2>1 DEF HereOf
    <3>2. disk[h].products = {} /\ Raised(disk[h], disk'[h])
      BY <1>1, <1>3, <2>3 DEF Fresh, h
    <3> QED
      BY <1>1, <2>1, <2>3, <3>1, <3>2 DEF Knowledge, Raised, Holding, Working
  <2>6. ASSUME NEW q \in Runner \ {r}, runner[q].at # "idle"
        PROVE  Knowledge(runner[q], disk'[Here(q)], compiled)
    <3>1. Here(q) \in Stage /\ Knowledge(runner[q], disk[Here(q)], compiled)
      BY <2>6, RunnerFacts
    <3> QED
      BY <2>3, <3>1, RaisedKeeps
  <2>7. p.at \notin Holding
    BY <2>1 DEF Holding, Working
  <2> QED
    BY <1>1, <2>1, <2>2, <2>3, <2>4, <2>5, <2>6, <2>7, TogetherKeep
<1> QED
  BY <1>2, <1>3

LEMMA LogsKeep ==
  ASSUME RunnersInv, NEW r \in Runner, MakeLogs(r)
  PROVE  RunnersInv'
<1> DEFINE h == Here(r)
           p == [runner[r] EXCEPT !.at = "opened"]
           stage == [disk[h] EXCEPT !.logs = TRUE]
<1>1. /\ runner[r] \in RunnerSet /\ runner[r].at = "logs" /\ h \in Stage /\ disk[h] \in StageSet
      /\ StageSound(h, disk[h], compiled) /\ Knowledge(runner[r], disk[h], compiled)
      /\ runner \in [Runner -> RunnerSet] /\ disk \in [Stage -> StageSet] /\ compiled \subseteq Nat
      /\ h = HereOf(runner[r])
  BY RunnerFacts DEF MakeLogs, RunnersInv, RunnersTyped
<1>2. CASE disk[h].logs
  BY <1>2, GiveUpKeeps DEF MakeLogs
<1>3. CASE ~disk[h].logs
  <2>1. /\ p \in RunnerSet /\ p.at = "opened" /\ p.next = runner[r].next /\ p.names = runner[r].names
        /\ p.attempt = runner[r].attempt
    BY <1>1 DEF RunnerSet, Holding
  <2>2. /\ stage \in StageSet /\ stage.exists = disk[h].exists /\ stage.logs /\ stage.products = disk[h].products
        /\ stage.files = disk[h].files /\ stage.receipt = disk[h].receipt
    BY <1>1 DEF StageSet
  <2>3. /\ disk' = [disk EXCEPT ![h].logs = TRUE] /\ runner' = [runner EXCEPT ![r] = p]
        /\ compiled' = compiled /\ starts' \in Nat
    BY <1>1, <1>3 DEF MakeLogs, RunnersInv, RunnersTyped
  <2> HIDE DEF p, h
  <2>4. disk' = [disk EXCEPT ![h] = stage]
    BY <1>1, <2>3
  <2> HIDE DEF stage
  <2>5. StageSound(h, stage, compiled)
    <3>1. disk[h].exists /\ disk[h].receipt = Nothing
      BY <1>1, <1>3 DEF StageSound, Knowledge
    <3> QED
      BY <2>2, <3>1 DEF StageSound, PassedTruly
  <2>6. disk'[HereOf(p)] = stage
    BY <1>1, <2>1, <2>4 DEF HereOf
  <2>7. Knowledge(p, stage, compiled)
    BY <1>1, <1>3, <2>1, <2>2 DEF Knowledge, StageSound, Holding, Working
  <2>8. ASSUME NEW q \in Runner \ {r}, runner[q].at # "idle", Here(q) = h
        PROVE  Knowledge(runner[q], stage, compiled) /\ runner[q].at \notin Holding
    <3>1. Knowledge(runner[q], disk[h], compiled)
      BY <2>8, RunnerFacts
    <3>2. runner[q].at \notin Holding
      BY <1>3, <3>1 DEF Knowledge
    <3> QED
      BY <1>1, <2>2, <3>1, <3>2 DEF Knowledge, Holding, StageSound
  <2>9. \A q \in Runner \ {r} : Writes(q) => Here(q) # HereOf(p)
    <3> SUFFICES ASSUME NEW q \in Runner \ {r}, Writes(q), Here(q) = h
                 PROVE  FALSE
      BY <1>1, <2>1 DEF HereOf
    <3>1. runner[q].at \in Holding /\ runner[q].at # "idle"
      BY RunnerFacts DEF Holding, Working
    <3> QED
      BY <2>8, <3>1
  <2> QED
    BY <1>1, <2>1, <2>2, <2>3, <2>4, <2>5, <2>6, <2>7, <2>8, <2>9, OneKeeps
<1> QED
  BY <1>2, <1>3

\* A runner and its stage after a step.
RunnerNow(p, at, todo, rows) == [p EXCEPT !.at = at, !.todo = todo, !.rows = rows]

StageNow(s, receipt, files, products) ==
  [s EXCEPT !.receipt = receipt, !.files = files, !.products = products]

LEMMA RunnerUpdated ==
  ASSUME NEW p \in RunnerSet, NEW at \in Holding, NEW todo \in Seq(EntrySet), NEW rows \in Seq(RowSet)
  PROVE  LET q == RunnerNow(p, at, todo, rows) IN
         /\ q \in RunnerSet /\ q.at = at /\ q.todo = todo /\ q.rows = rows
         /\ q.names = p.names /\ q.next = p.next /\ q.attempt = p.attempt
<1> DEFINE q == RunnerNow(p, at, todo, rows)
           q1 == [p EXCEPT !.at = at]
           q2 == [q1 EXCEPT !.todo = todo]
<1>1. q1 \in RunnerSet /\ q1.at = at /\ q1.names = p.names /\ q1.next = p.next /\ q1.attempt = p.attempt
  BY DEF RunnerSet
<1> HIDE DEF q1
<1>2. /\ q2 \in RunnerSet /\ q2.at = at /\ q2.todo = todo
      /\ q2.names = p.names /\ q2.next = p.next /\ q2.attempt = p.attempt
  BY <1>1 DEF RunnerSet
<1>2a. q = [q2 EXCEPT !.rows = rows]
  BY DEF q1, q2, RunnerNow
<1> HIDE DEF q, q2
<1>3. /\ q \in RunnerSet /\ q.at = at /\ q.todo = todo /\ q.rows = rows
      /\ q.names = p.names /\ q.next = p.next /\ q.attempt = p.attempt
  BY <1>2, <1>2a DEF RunnerSet
<1> QED
  BY <1>3 DEF q

LEMMA StageUpdated ==
  ASSUME NEW s \in StageSet, NEW receipt \in ReceiptSet, NEW files \in Seq(FileSet),
         NEW products \in ProductSets
  PROVE  LET t == StageNow(s, receipt, files, products) IN
         /\ t \in StageSet /\ t.exists = s.exists /\ t.logs = s.logs
         /\ t.receipt = receipt /\ t.files = files /\ t.products = products
<1> DEFINE t == StageNow(s, receipt, files, products)
           t1 == [s EXCEPT !.receipt = receipt]
           t2 == [t1 EXCEPT !.files = files]
<1>1. t1 \in StageSet /\ t1.exists = s.exists /\ t1.logs = s.logs /\ t1.receipt = receipt
  BY DEF StageSet
<1> HIDE DEF t1
<1>2. t2 \in StageSet /\ t2.exists = s.exists /\ t2.logs = s.logs /\ t2.receipt = receipt /\ t2.files = files
  BY <1>1 DEF StageSet
<1>2a. t = [t2 EXCEPT !.products = products]
  BY DEF t1, t2, StageNow
<1> HIDE DEF t, t2
<1>3. /\ t \in StageSet /\ t.exists = s.exists /\ t.logs = s.logs
      /\ t.receipt = receipt /\ t.files = files /\ t.products = products
  BY <1>2, <1>2a DEF StageSet
<1> QED
  BY <1>3 DEF t

LEMMA EntriesOfFacts ==
  ASSUME NEW rows \in Seq(RowSet)
  PROVE  /\ EntriesOf(rows) \in Seq(EntrySet) /\ Len(EntriesOf(rows)) = Len(rows)
         /\ \A n \in 1 .. Len(rows) : EntriesOf(rows)[n] = rows[n].entry
<1>1. \A n \in 1 .. Len(rows) : rows[n] \in RowSet
  OBVIOUS
<1>2. \A n \in 1 .. Len(rows) : rows[n].entry \in EntrySet
  BY <1>1 DEF RowSet
<1> QED
  BY <1>2 DEF EntriesOf

\* Two sequences with the same elements.
LEMMA SameSequence ==
  ASSUME NEW T, NEW a \in Seq(T), NEW b \in Seq(T), Len(a) = Len(b), \A i \in 1 .. Len(a) : a[i] = b[i]
  PROVE  a = b
<1>1. a = [i \in 1 .. Len(a) |-> a[i]] /\ b = [i \in 1 .. Len(b) |-> b[i]]
  OBVIOUS
<1> QED
  BY <1>1

\* A step goes from what is to be done to what is recorded; the course stays.
LEMMA CourseStays ==
  ASSUME NEW rows \in Seq(RowSet), NEW todo \in Seq(EntrySet), todo # << >>, NEW row \in RowSet,
         row.entry = Head(todo)
  PROVE  EntriesOf(Append(rows, row)) \o Tail(todo) = EntriesOf(rows) \o todo
<1> DEFINE more == Append(rows, row)
           a == EntriesOf(more)
           b == EntriesOf(rows)
           t == Tail(todo)
           L == Len(rows)
<1>1. /\ more \in Seq(RowSet) /\ Len(more) = L + 1 /\ L \in Nat /\ more[L + 1] = row
      /\ \A n \in 1 .. L : more[n] = rows[n]
  OBVIOUS
<1> HIDE DEF more
<1>2. /\ a \in Seq(EntrySet) /\ Len(a) = L + 1 /\ \A n \in 1 .. L + 1 : a[n] = more[n].entry
      /\ b \in Seq(EntrySet) /\ Len(b) = L /\ \A n \in 1 .. L : b[n] = rows[n].entry
  BY <1>1, EntriesOfFacts
<1> HIDE DEF a, b
<1>3. /\ t \in Seq(EntrySet) /\ Len(todo) \in Nat \ {0} /\ Len(t) = Len(todo) - 1 /\ Head(todo) = todo[1]
      /\ \A i \in 1 .. Len(todo) - 1 : t[i] = todo[i + 1]
  BY TailFacts
<1> HIDE DEF t
<1>4. /\ a \o t \in Seq(EntrySet) /\ Len(a \o t) = L + 1 + Len(t)
      /\ \A i \in 1 .. L + 1 : (a \o t)[i] = a[i]
      /\ \A i \in L + 2 .. L + 1 + Len(t) : (a \o t)[i] = t[i - (L + 1)]
      /\ b \o todo \in Seq(EntrySet) /\ Len(b \o todo) = L + Len(todo)
      /\ \A i \in 1 .. L : (b \o todo)[i] = b[i]
      /\ \A i \in L + 1 .. L + Len(todo) : (b \o todo)[i] = todo[i - L]
  <2> HIDE DEF L
  <2>1. (L + 1) + 1 = L + 2
    BY <1>1
  <2>1a. /\ a \o t \in Seq(EntrySet) /\ Len(a \o t) = Len(a) + Len(t)
         /\ \A i \in 1 .. Len(a) : (a \o t)[i] = a[i]
         /\ \A i \in Len(a) + 1 .. Len(a) + Len(t) : (a \o t)[i] = t[i - Len(a)]
    <3>1. a \in Seq(EntrySet) /\ t \in Seq(EntrySet)
      BY <1>2, <1>3
    <3> QED
      BY <3>1, JoinFacts
  <2>1b. /\ b \o todo \in Seq(EntrySet) /\ Len(b \o todo) = Len(b) + Len(todo)
         /\ \A i \in 1 .. Len(b) : (b \o todo)[i] = b[i]
         /\ \A i \in Len(b) + 1 .. Len(b) + Len(todo) : (b \o todo)[i] = todo[i - Len(b)]
    BY <1>2, JoinFacts
  <2>2. /\ a \o t \in Seq(EntrySet) /\ Len(a \o t) = L + 1 + Len(t)
        /\ \A i \in 1 .. L + 1 : (a \o t)[i] = a[i]
        /\ \A i \in L + 2 .. L + 1 + Len(t) : (a \o t)[i] = t[i - (L + 1)]
    BY <1>2, <2>1, <2>1a
  <2>3. /\ b \o todo \in Seq(EntrySet) /\ Len(b \o todo) = L + Len(todo)
        /\ \A i \in 1 .. L : (b \o todo)[i] = b[i]
        /\ \A i \in L + 1 .. L + Len(todo) : (b \o todo)[i] = todo[i - L]
    BY <1>2, <2>1b
  <2> QED
    BY <2>2, <2>3
<1> DEFINE x == a \o t
           y == b \o todo
<1> HIDE DEF x, y
<1>4a. /\ x \in Seq(EntrySet) /\ Len(x) = L + 1 + Len(t)
       /\ \A i \in 1 .. L + 1 : x[i] = a[i]
       /\ \A i \in L + 2 .. L + 1 + Len(t) : x[i] = t[i - (L + 1)]
       /\ y \in Seq(EntrySet) /\ Len(y) = L + Len(todo)
       /\ \A i \in 1 .. L : y[i] = b[i]
       /\ \A i \in L + 1 .. L + Len(todo) : y[i] = todo[i - L]
  BY <1>4 DEF x, y
<1>5. Len(x) = Len(y)
  BY <1>1, <1>3, <1>4a
<1>6. ASSUME NEW i \in 1 .. Len(x)
      PROVE  x[i] = y[i]
  <2> HIDE DEF L
  <2>1. CASE i \in 1 .. L
    <3>1. i \in 1 .. L + 1
      BY <1>1, <2>1
    <3>2. x[i] = a[i] /\ y[i] = b[i]
      BY <1>4a, <2>1, <3>1
    <3>3. a[i] = more[i].entry /\ b[i] = rows[i].entry /\ more[i] = rows[i]
      BY <1>1, <1>2, <2>1, <3>1
    <3> QED
      BY <3>2, <3>3
  <2>2. CASE i = L + 1
    <3>1. x[i] = Head(todo)
      BY <1>1, <1>2, <1>4a, <2>2
    <3>2. i \in L + 1 .. L + Len(todo) /\ i - L = 1
      BY <1>1, <1>3, <2>2
    <3> QED
      BY <1>3, <1>4a, <3>1, <3>2
  <2>3. CASE i \in L + 2 .. L + 1 + Len(t)
    <3>1. i - (L + 1) \in 1 .. Len(todo) - 1 /\ (i - (L + 1)) + 1 = i - L /\ i \in L + 1 .. L + Len(todo)
      BY <1>1, <1>3, <2>3
    <3>2. x[i] = t[i - (L + 1)] /\ t[i - (L + 1)] = todo[i - L]
      BY <1>3, <1>4a, <2>3, <3>1
    <3> QED
      BY <1>4a, <3>1, <3>2
  <2> QED
    BY <1>1, <1>3, <1>4a, <2>1, <2>2, <2>3
<1>7. x = y
  BY <1>4a, <1>5, <1>6, SameSequence
<1> QED
  BY <1>7 DEF x, y, a, b, t, more

LEMMA RecordStays ==
  ASSUME RunnersInv, NEW r \in Runner, runner[r].at \in Working
  PROVE  LET p == runner[r]  s == disk[Here(r)] IN
         /\ p.rows \in Seq(RowSet) /\ p.todo \in Seq(EntrySet) /\ p.attempt \in Nat /\ Len(p.rows) \in Nat
         /\ p.next \in 1 .. Len(p.names) /\ p.next \in Nat /\ Len(p.names) \in Nat /\ p.names \in Seq(Case)
         /\ s.files \in Seq(FileSet) /\ Len(s.files) = Len(p.rows)
         /\ s.products \in ProductSets
         /\ s.logs
         /\ \A n \in 1 .. Len(p.rows) : p.rows[n] \in RowSet /\ p.rows[n].entry \in EntrySet
         /\ p.at # "steps" => /\ p.todo # << >> /\ Head(p.todo) = p.rows[Len(p.rows)].entry
                              /\ Len(p.rows) \in 1 .. Len(p.rows)
<1> DEFINE p == runner[r]
           s == disk[Here(r)]
<1>1. p \in RunnerSet /\ s \in StageSet /\ Knowledge(p, s, compiled) /\ Works(p, s, compiled)
  BY WorkFacts DEF Holding
<1>2. /\ p.rows \in Seq(RowSet) /\ p.todo \in Seq(EntrySet) /\ p.attempt \in Nat /\ p.names \in Seq(Case)
      /\ s.files \in Seq(FileSet) /\ s.products \in ProductSets
  BY <1>1 DEF RunnerSet, StageSet
<1>3. Len(s.files) = Len(p.rows) /\ s.logs /\ p.next \in 1 .. Len(p.names)
  BY <1>1 DEF Works, Recorded, Knowledge, Holding
<1> HIDE DEF p, s
<1>4. p.at # "steps" => p.todo # << >> /\ Head(p.todo) = p.rows[Len(p.rows)].entry /\ p.rows # << >>
  BY <1>1 DEF Works, Recorded
<1>5. \A n \in 1 .. Len(p.rows) : p.rows[n] \in RowSet /\ p.rows[n].entry \in EntrySet
  <2> SUFFICES ASSUME NEW n \in 1 .. Len(p.rows)
               PROVE  p.rows[n] \in RowSet /\ p.rows[n].entry \in EntrySet
    OBVIOUS
  <2>1. p.rows[n] \in RowSet
    BY <1>2
  <2> QED
    BY <2>1 DEF RowSet
<1>6. p.rows # << >> => Len(p.rows) \in 1 .. Len(p.rows)
  BY <1>2
<1>7. Len(p.rows) \in Nat /\ Len(p.names) \in Nat /\ p.next \in Nat
  BY <1>2, <1>3
<1> QED
  BY <1>2, <1>3, <1>4, <1>5, <1>6, <1>7 DEF p, s

LEMMA SaveKeeps ==
  ASSUME RunnersInv, NEW r \in Runner, SaveFirst(r)
  PROVE  RunnersInv'
<1> DEFINE c == Current(r)
           h == Here(r)
           none == << >>
           steps == StepsOf(runner[r].names, c)
           receipt == Receipt(r, "running", << >>)
           p == RunnerNow(runner[r], "steps", steps, none)
           stage == StageNow(disk[h], receipt, none, disk[h].products)
<1>0. runner[r].at = "opened"
  BY DEF SaveFirst
<1>1. /\ runner[r] \in RunnerSet /\ Writes(r) /\ c \in Case /\ h \in Stage /\ disk[h] \in StageSet
      /\ c = runner[r].names[runner[r].next]
      /\ disk \in [Stage -> StageSet] /\ compiled \subseteq Nat
      /\ Knowledge(runner[r], disk[h], compiled)
  BY <1>0, WorkFacts DEF Holding
<1>2. runner[r].names \in Seq(Case) /\ runner[r].attempt \in Nat /\ runner[r].next \in Nat \ {0}
      /\ disk[h].products \in ProductSets
  BY <1>1 DEF RunnerSet, StageSet
<1>3. /\ disk[h].files = << >> /\ disk[h].products = {} /\ disk[h].logs
      /\ runner[r].next \in 1 .. Len(runner[r].names)
      /\ runner[r].next > 1 /\ Compiling(runner[r].names) # {} => runner[r].attempt \in compiled
  BY <1>0, <1>1 DEF Knowledge, Holding
<1>4. /\ steps \in Seq(EntrySet) /\ InRecipeOrder(c, steps)
      /\ c = runner[r].names[1] /\ Compiling(runner[r].names) # {} => Leads(steps)
  BY <1>1, <1>2, StepsOfFacts
<1>5. receipt \in ReceiptSet /\ receipt = [case |-> c, status |-> "running", rows |-> << >>, attempt |-> runner[r].attempt]
  BY <1>1, <1>2 DEF Receipt, ReceiptSet
<1>5a. none \in Seq(RowSet) /\ none \in Seq(FileSet) /\ "steps" \in Holding
  BY DEF Holding, Working
<1> HIDE DEF steps, receipt, none
<1>6. /\ p \in RunnerSet /\ p.at = "steps" /\ p.todo = steps /\ p.rows = none
      /\ p.names = runner[r].names /\ p.next = runner[r].next /\ p.attempt = runner[r].attempt
  BY <1>1, <1>4, <1>5a, RunnerUpdated
<1>7. /\ stage \in StageSet /\ stage.exists = disk[h].exists /\ stage.logs = disk[h].logs
      /\ stage.receipt = receipt /\ stage.files = none /\ stage.products = {}
  <2>1. disk[h] \in StageSet /\ receipt \in ReceiptSet /\ none \in Seq(FileSet) /\ disk[h].products \in ProductSets
    BY <1>1, <1>2, <1>5, <1>5a
  <2> HIDE DEF stage
  <2>2. /\ stage \in StageSet /\ stage.exists = disk[h].exists /\ stage.logs = disk[h].logs
        /\ stage.receipt = receipt /\ stage.files = none /\ stage.products = disk[h].products
    BY <2>1, StageUpdated DEF stage
  <2> QED
    BY <1>3, <2>2
<1>8. /\ disk' = [disk EXCEPT ![h] = stage] /\ runner' = [runner EXCEPT ![r] = p]
      /\ compiled' = compiled /\ starts' = starts
  <2>1. disk' = [disk EXCEPT ![h].receipt = receipt] /\ runner' = [runner EXCEPT ![r] = p]
        /\ compiled' = compiled /\ starts' = starts
    BY DEF SaveFirst, steps, receipt, RunnerNow, none
  <2>2. stage = [disk[h] EXCEPT !.receipt = receipt]
    BY <1>1, <1>3 DEF StageSet, StageNow, none
  <2> HIDE DEF p, stage
  <2> QED
    BY <1>1, <2>1, <2>2
<1> HIDE DEF p, stage, c, h
<1>9. Course(p) = steps
  BY <1>4, <1>6 DEF Course, Rest, EntriesOf, none
<1>10. Works(p, stage, compiled)
  <2>1. Len(p.rows) = 0 /\ 1 .. Len(p.rows) = {} /\ Len(stage.files) = 0
    BY <1>6, <1>7 DEF none
  <2>2. Recorded(p, stage) /\ Proved(p, stage, compiled) /\ Produced(p, stage)
    BY <1>1, <1>5, <1>6, <1>7, <2>1 DEF none, Recorded, Proved, Produced, Behind
  <2> QED
    BY <1>1, <1>4, <1>6, <1>9, <2>2 DEF Works
<1>11. Knowledge(p, stage, compiled)
  BY <1>3, <1>6, <1>7, <1>10 DEF Knowledge
<1>12. PassedTruly(h, stage, compiled)
  BY <1>5, <1>7 DEF PassedTruly
<1>13. p.at \in Holding
  BY <1>6 DEF Holding, Working
<1> QED
  BY <1>1, <1>6, <1>7, <1>8, <1>11, <1>12, <1>13, OwnerKeeps DEF c, h

LEMMA TableKeeps ==
  ASSUME RunnersInv, NEW r \in Runner, NEW n \in 1 .. MaxRows, ReadTable(r, n)
  PROVE  RunnersInv'
<1> DEFINE c == Current(r)
           h == Here(r)
           s == disk[h]
           o == runner[r]
           todo == RowsOf(Head(o.todo), n) \o Tail(o.todo)
           p == RunnerNow(o, "steps", todo, o.rows)
<1>0. o.at = "steps" /\ o.todo # << >> /\ Head(o.todo).step.kind = "rows"
  BY DEF ReadTable
<1>1. /\ o \in RunnerSet /\ Writes(r) /\ c \in Case /\ h \in Stage /\ s \in StageSet /\ c = o.names[o.next]
      /\ disk \in [Stage -> StageSet] /\ compiled \subseteq Nat
      /\ Knowledge(o, s, compiled) /\ Works(o, s, compiled) /\ StageSound(h, s, compiled)
  BY <1>0, WorkFacts DEF Holding, Working
<1>2. o.rows \in Seq(RowSet) /\ o.todo \in Seq(EntrySet)
  BY <1>1 DEF RunnerSet
<1>3. EntriesOf(o.rows) \in Seq(EntrySet)
  BY <1>2, EntriesOfFacts
<1>4. n \in Nat \ {0}
  BY RecipeAssumption
<1>5. Course(o) = EntriesOf(o.rows) \o o.todo /\ InRecipeOrder(c, Course(o))
  BY <1>0, <1>1 DEF Course, Rest, Works
<1> HIDE DEF c, h, o, s
<1>6. /\ todo \in Seq(EntrySet) /\ InRecipeOrder(c, EntriesOf(o.rows) \o todo)
      /\ Leads(Course(o)) => Leads(EntriesOf(o.rows) \o todo)
  BY <1>0, <1>1, <1>2, <1>3, <1>4, <1>5, TableExpands
<1> HIDE DEF todo
<1>7. /\ p \in RunnerSet /\ p.at = "steps" /\ p.todo = todo /\ p.rows = o.rows
      /\ p.names = o.names /\ p.next = o.next /\ p.attempt = o.attempt
  <2>1. "steps" \in Holding
    BY DEF Holding, Working
  <2> QED
    BY <1>1, <1>2, <1>6, <2>1, RunnerUpdated
<1>8. runner' = [runner EXCEPT ![r] = p] /\ disk' = [disk EXCEPT ![h] = s] /\ starts' = starts /\ compiled' = compiled
  <2>1. runner' = [runner EXCEPT ![r] = [@ EXCEPT !.todo = todo]] /\ disk' = disk /\ starts' = starts /\ compiled' = compiled
    BY DEF ReadTable, todo, o
  <2>2. p = [o EXCEPT !.todo = todo]
    BY <1>0, <1>1 DEF RunnerSet, RunnerNow
  <2> HIDE DEF p
  <2> QED
    BY <1>1, <2>1, <2>2 DEF RunnersInv, RunnersTyped, o, s
<1> HIDE DEF p
<1>9. Course(p) = EntriesOf(o.rows) \o todo
  BY <1>7 DEF Course, Rest
<1>10. Works(p, s, compiled)
  <2>1. Recorded(p, s) /\ Proved(p, s, compiled) /\ Produced(p, s)
    BY <1>0, <1>1, <1>7 DEF Works, Recorded, Proved, Produced, Behind, Ran
  <2> QED
    BY <1>1, <1>6, <1>7, <1>9, <2>1 DEF Works
<1>11. Knowledge(p, s, compiled) /\ PassedTruly(h, s, compiled) /\ p.at \in Holding
  BY <1>0, <1>1, <1>7, <1>10 DEF Knowledge, StageSound, Holding, Working
<1> QED
  BY <1>1, <1>7, <1>8, <1>11, OwnerKeeps DEF c, h, o, s

\* A step of the owner that leaves the course as it is.
LEMMA OwnStepKeeps ==
  ASSUME RunnersInv, NEW r \in Runner, runner[r].at \in Working,
         NEW p \in RunnerSet, p.at \in Working, p.names = runner[r].names, p.next = runner[r].next,
         p.attempt = runner[r].attempt, Course(p) = Course(runner[r]),
         NEW s \in StageSet, s.exists = disk[Here(r)].exists, s.logs = disk[Here(r)].logs,
         NEW done, compiled \subseteq done, done \subseteq Nat,
         Recorded(p, s), Proved(p, s, done), Produced(p, s),
         disk' = [disk EXCEPT ![Here(r)] = s], runner' = [runner EXCEPT ![r] = p],
         compiled' = done, starts' = starts
  PROVE  RunnersInv'
<1> DEFINE c == Current(r)
           h == Here(r)
<1>1. /\ runner[r] \in RunnerSet /\ Writes(r) /\ c = runner[r].names[runner[r].next] /\ disk[h].logs
      /\ Knowledge(runner[r], disk[h], compiled) /\ Works(runner[r], disk[h], compiled)
  BY WorkFacts, RecordStays DEF Holding
<1>2. Works(p, s, done)
  BY <1>1 DEF Works
<1>3. Knowledge(p, s, done)
  BY <1>1, <1>2 DEF Knowledge, Holding, Working
<1>4. PassedTruly(h, s, done)
  BY DEF PassedTruly, Recorded
<1>5. p.at \in Holding
  BY DEF Holding
<1> QED
  BY <1>1, <1>3, <1>4, <1>5, OwnerKeeps

LEMMA BeginStepKeeps ==
  ASSUME RunnersInv, NEW r \in Runner, BeginStep(r)
  PROVE  RunnersInv'
<1> DEFINE c == Current(r)
           h == Here(r)
           o == runner[r]
           d == disk[h]
           row == Row(Head(o.todo), "running")
           rows == Append(o.rows, row)
           files == Append(d.files, NoFiles)
           receipt == Receipt(r, "running", rows)
           p == RunnerNow(o, "run", o.todo, rows)
           s == StageNow(d, receipt, files, d.products)
           L == Len(o.rows)
<1>0. o.at = "steps" /\ o.todo # << >> /\ Head(o.todo).step.kind # "rows"
  BY DEF BeginStep
<1>0a. o.at \in Working /\ "run" \in Holding /\ "run" \in Working
  BY <1>0 DEF Holding, Working
<1>1. /\ o \in RunnerSet /\ c \in Case /\ h \in Stage /\ d \in StageSet /\ Works(o, d, compiled)
      /\ c = o.names[o.next]
      /\ compiled \subseteq Nat
  BY <1>0a, WorkFacts DEF Holding
<1>2. /\ o.rows \in Seq(RowSet) /\ o.todo \in Seq(EntrySet) /\ o.attempt \in Nat /\ L \in Nat
      /\ d.files \in Seq(FileSet) /\ Len(d.files) = L /\ d.products \in ProductSets
      /\ \A n \in 1 .. L : o.rows[n] \in RowSet
  BY <1>0a, RecordStays
<1>3. disk' = [disk EXCEPT ![h].receipt = receipt, ![h].files = files]
      /\ runner' = [runner EXCEPT ![r] = [@ EXCEPT !.at = "run", !.rows = rows]]
      /\ starts' = starts /\ compiled' = compiled
  BY <1>1 DEF BeginStep, RunnersInv, RunnersTyped
<1>4. row \in RowSet /\ row.entry = Head(o.todo)
  <2>1. Head(o.todo) \in EntrySet
    BY <1>0, <1>2, TailFacts
  <2> QED
    BY <2>1 DEF Row, RowSet
<1>5. NoFiles \in FileSet
  BY DEF NoFiles, FileSet
<1> HIDE DEF row, c, h, o, d
<1>6. /\ rows \in Seq(RowSet) /\ Len(rows) = L + 1 /\ rows[L + 1] = row
      /\ \A n \in 1 .. L : rows[n] = o.rows[n]
  BY <1>2, <1>4
<1>7. /\ files \in Seq(FileSet) /\ Len(files) = L + 1
      /\ \A n \in 1 .. L : files[n] = d.files[n]
  BY <1>2, <1>5
<1>8. receipt \in ReceiptSet /\ receipt = [case |-> c, status |-> "running", rows |-> rows, attempt |-> o.attempt]
  BY <1>1, <1>2, <1>6 DEF Receipt, ReceiptSet, o, c
<1>9. Course(o) = EntriesOf(rows) \o Tail(o.todo)
  BY <1>0, <1>2, <1>4, CourseStays DEF Course, Rest
<1> HIDE DEF rows, files, receipt
<1>10. /\ p \in RunnerSet /\ p.at = "run" /\ p.todo = o.todo /\ p.rows = rows
       /\ p.names = o.names /\ p.next = o.next /\ p.attempt = o.attempt
  BY <1>0a, <1>1, <1>2, <1>6, RunnerUpdated
<1>11. /\ s \in StageSet /\ s.exists = d.exists /\ s.logs = d.logs
       /\ s.receipt = receipt /\ s.files = files /\ s.products = d.products
  BY <1>1, <1>2, <1>7, <1>8, StageUpdated
<1>12. disk' = [disk EXCEPT ![h] = s]
  <2>1. s = [[d EXCEPT !.receipt = receipt] EXCEPT !.files = files]
    BY <1>1 DEF StageNow, StageSet
  <2>2. disk \in [Stage -> StageSet]
    BY DEF RunnersInv, RunnersTyped
  <2> HIDE DEF s
  <2> QED
    BY <1>1, <1>3, <2>1, <2>2 DEF d
<1>13. runner' = [runner EXCEPT ![r] = p]
  <2>1. p = [o EXCEPT !.at = "run", !.rows = rows]
    BY <1>1 DEF RunnerNow, RunnerSet
  <2> HIDE DEF p
  <2> QED
    BY <1>3, <2>1 DEF RunnersInv, RunnersTyped, o
<1> HIDE DEF p, s
<1>14. Course(p) = Course(o)
  BY <1>9, <1>10 DEF Course, Rest
<1> HIDE DEF L
<1>15. \A n \in 1 .. L + 1 : n < L + 1 => n \in 1 .. L
  BY <1>2
<1>16. Recorded(p, s)
  <2>1. Recorded(o, d)
    BY <1>1 DEF Works
  <2>2. \A n \in 1 .. L : o.rows[n].entry.step.kind # "rows" /\ o.rows[n].status = "passed"
    BY <1>0, <2>1 DEF Recorded, L
  <2>3. ASSUME NEW n \in 1 .. Len(rows)
        PROVE  rows[n].entry.step.kind # "rows" /\ (n < Len(rows) => rows[n].status = "passed")
    <3>1. CASE n < L + 1
      BY <1>6, <1>15, <2>2, <3>1
    <3>2. CASE n = L + 1
      BY <1>0, <1>4, <1>6, <3>2
    <3> QED
      BY <1>2, <1>6, <3>1, <3>2
  <2>4. rows # << >> /\ rows[Len(rows)].entry = Head(o.todo)
    BY <1>2, <1>4, <1>6
  <2> QED
    BY <1>0, <1>1, <1>6, <1>7, <1>8, <1>10, <1>11, <2>3, <2>4 DEF Recorded
<1>17. Behind(p) = 1 .. L /\ Behind(o) = 1 .. L /\ Ran(p) = 1 .. L /\ Ran(o) = 1 .. L
  <2>1. /\ \A n \in 1 .. L + 1 : n < L + 1 <=> n \in 1 .. L
        /\ 1 .. L \subseteq 1 .. L + 1
    BY <1>2
  <2>2. Behind(p) = 1 .. L /\ Ran(p) = 1 .. L
    BY <1>6, <1>10, <2>1 DEF Behind, Ran
  <2>3. Behind(o) = 1 .. L /\ Ran(o) = 1 .. L
    BY <1>0 DEF Behind, Ran, L
  <2> QED
    BY <2>2, <2>3
<1>18. Proved(p, s, compiled)
  BY <1>1, <1>6, <1>7, <1>10, <1>11, <1>17 DEF Works, Proved
<1>19. Produced(p, s)
  BY <1>1, <1>6, <1>7, <1>10, <1>11, <1>17 DEF Works, Produced
<1>20. o.at \in Working /\ p.at \in Working
  BY <1>0a, <1>10
<1> QED
  BY <1>1, <1>3, <1>10, <1>11, <1>12, <1>13, <1>14, <1>16, <1>18, <1>19, <1>20, OwnStepKeeps DEF c, h, o, d

LEMMA CopyKeeps ==
  ASSUME RunnersInv, NEW r \in Runner, CopyFiles(r)
  PROVE  RunnersInv'
<1> DEFINE h == Here(r)
           o == runner[r]
           d == disk[h]
           L == Len(o.rows)
           entry == Head(o.todo)
           products == d.products \cup {<<entry.place, o.attempt>>}
           p == [o EXCEPT !.at = "passed"]
           s == [d EXCEPT !.products = products]
<1>0. o.at = "run" /\ entry.step.kind = "copy"
  BY DEF CopyFiles
<1>0a. o.at \in Working /\ "passed" \in Working
  BY <1>0 DEF Holding, Working
<1>1. /\ o \in RunnerSet /\ h \in Stage /\ d \in StageSet /\ Works(o, d, compiled)
      /\ compiled \subseteq Nat /\ disk \in [Stage -> StageSet] /\ runner \in [Runner -> RunnerSet]
  BY <1>0a, WorkFacts DEF Holding, RunnersInv, RunnersTyped
<1>2. /\ o.rows \in Seq(RowSet) /\ o.attempt \in Nat /\ L \in 1 .. L
      /\ d.files \in Seq(FileSet) /\ Len(d.files) = L /\ d.products \in ProductSets
      /\ \A n \in 1 .. L : o.rows[n].entry \in EntrySet
      /\ entry = o.rows[L].entry
  BY <1>0, <1>0a, RecordStays
<1>3. /\ disk' = [disk EXCEPT ![h].products = @ \cup {<<entry.place, o.attempt>>}]
      /\ runner' = [runner EXCEPT ![r] = [@ EXCEPT !.at = "passed"]]
      /\ starts' = starts /\ compiled' = compiled
  BY DEF CopyFiles
<1>4. products \in ProductSets
  <2>1. entry.place \in Nat \X Nat
    BY <1>2 DEF EntrySet
  <2> QED
    BY <1>2, <2>1 DEF ProductSets
<1> HIDE DEF h, o, d
<1>5. disk' = [disk EXCEPT ![h] = s] /\ runner' = [runner EXCEPT ![r] = p]
  BY <1>1, <1>3 DEF d, o
<1> HIDE DEF products
<1>6. /\ p \in RunnerSet /\ p.at = "passed" /\ p.todo = o.todo /\ p.rows = o.rows
      /\ p.names = o.names /\ p.next = o.next /\ p.attempt = o.attempt
  BY <1>1 DEF RunnerSet, Holding, Working
<1>7. /\ s \in StageSet /\ s.exists = d.exists /\ s.logs = d.logs
      /\ s.receipt = d.receipt /\ s.files = d.files /\ s.products = products
  BY <1>1, <1>4 DEF StageSet
<1> HIDE DEF p, s
<1>8. Course(p) = Course(o)
  BY <1>0, <1>6 DEF Course, Rest
<1>9. Recorded(p, s)
  BY <1>0, <1>1, <1>6, <1>7 DEF Recorded, Works
<1> HIDE DEF entry
<1>10. ~IsBeam(entry.step) /\ entry.step.kind # "command"
  BY <1>0 DEF IsBeam
<1>11. Proved(p, s, compiled)
  <2> SUFFICES ASSUME NEW n \in 1 .. L
               PROVE  /\ Proven(o.rows[n], d.files[n], products, o.attempt)
                      /\ IsBeam(o.rows[n].entry.step) => o.attempt \in compiled
    BY <1>6, <1>7 DEF Proved, Behind, L
  <2>1. CASE n = L
    BY <1>2, <1>10, <2>1 DEF Proven
  <2>2. CASE n # L
    <3>1. n \in Behind(o)
      BY <1>2, <2>2 DEF Behind, L
    <3>2. Proven(o.rows[n], d.files[n], d.products, o.attempt) /\ (IsBeam(o.rows[n].entry.step) => o.attempt \in compiled)
      BY <1>1, <3>1 DEF Works, Proved
    <3> QED
      BY <3>2 DEF Proven, products
  <2> QED
    BY <2>1, <2>2
<1>12. Produced(p, s)
  <2> SUFFICES ASSUME NEW x \in products
               PROVE  x[2] = o.attempt /\ \E n \in 1 .. L : Wrote(o.rows[n], d.files[n], x)
    BY <1>6, <1>7 DEF Produced, Ran, L
  <2>1. CASE x \in d.products
    <3>1. x[2] = o.attempt /\ \E n \in Ran(o) : Wrote(o.rows[n], d.files[n], x)
      BY <1>1, <2>1 DEF Works, Produced
    <3> QED
      BY <3>1 DEF Ran, L
  <2>2. CASE x = <<entry.place, o.attempt>>
    <3>1. Wrote(o.rows[L], d.files[L], x)
      BY <1>2, <1>10, <2>2 DEF Wrote
    <3> QED
      BY <1>2, <2>2, <3>1
  <2> QED
    BY <2>1, <2>2 DEF products
<1>13. o.at \in Working /\ p.at \in Working
  BY <1>0a, <1>6
<1> QED
  BY <1>1, <1>3, <1>5, <1>6, <1>7, <1>8, <1>9, <1>11, <1>12, <1>13, OwnStepKeeps DEF h, o, d

LEMMA RunKeeps ==
  ASSUME RunnersInv, NEW r \in Runner, NEW ending \in Result, NEW output \in LogSizes,
         RunCommand(r, ending, output)
  PROVE  RunnersInv'
<1> DEFINE h == Here(r)
           o == runner[r]
           d == disk[h]
           L == Len(o.rows)
           entry == Head(o.todo)
           wrote == ending.product /\ entry.step.demand.product
           products == IF wrote THEN d.products \cup {<<entry.place, o.attempt>>} ELSE d.products
           file == [ran |-> TRUE, output |-> output, ending |-> ending]
           files == [d.files EXCEPT ![L] = file]
           p == [o EXCEPT !.at = "judge"]
           s == [[d EXCEPT !.files = files] EXCEPT !.products = products]
<1>0. o.at = "run" /\ entry.step.kind = "command"
  BY DEF RunCommand
<1>0a. o.at \in Working /\ "judge" \in Working
  BY <1>0 DEF Holding, Working
<1>1. /\ o \in RunnerSet /\ h \in Stage /\ d \in StageSet /\ Works(o, d, compiled)
      /\ compiled \subseteq Nat /\ disk \in [Stage -> StageSet] /\ runner \in [Runner -> RunnerSet]
  BY <1>0a, WorkFacts DEF Holding, RunnersInv, RunnersTyped
<1>2. /\ o.rows \in Seq(RowSet) /\ o.attempt \in Nat /\ L \in 1 .. L
      /\ d.files \in Seq(FileSet) /\ Len(d.files) = L /\ d.products \in ProductSets
      /\ \A n \in 1 .. L : o.rows[n].entry \in EntrySet
      /\ entry = o.rows[L].entry
  BY <1>0, <1>0a, RecordStays
<1>3. /\ disk' = [disk EXCEPT ![h].files[L] = file,
                              ![h].products = IF wrote THEN @ \cup {<<entry.place, o.attempt>>} ELSE @]
      /\ runner' = [runner EXCEPT ![r] = [@ EXCEPT !.at = "judge"]]
      /\ starts' = starts /\ compiled' = compiled
  BY DEF RunCommand
<1>4. products \in ProductSets
  <2>1. entry.place \in Nat \X Nat
    BY <1>2 DEF EntrySet
  <2> QED
    BY <1>2, <2>1 DEF ProductSets
<1>4a. file \in FileSet /\ file.ending = ending
  BY RecipeAssumption DEF FileSet
<1> HIDE DEF h, o, d, wrote
<1>5. disk' = [disk EXCEPT ![h] = s] /\ runner' = [runner EXCEPT ![r] = p]
  <2>1. runner' = [runner EXCEPT ![r] = p]
    BY <1>1, <1>3 DEF o
  <2> HIDE DEF file
  <2>2. disk' = [disk EXCEPT ![h] = s]
    BY <1>1, <1>3 DEF d, StageSet
  <2> QED
    BY <2>1, <2>2
<1> HIDE DEF products, file
<1>5a. /\ files \in Seq(FileSet) /\ Len(files) = L /\ files[L] = file
       /\ \A n \in 1 .. L : n # L => files[n] = d.files[n]
  BY <1>2, <1>4a
<1> HIDE DEF files
<1>6. /\ p \in RunnerSet /\ p.at = "judge" /\ p.todo = o.todo /\ p.rows = o.rows
      /\ p.names = o.names /\ p.next = o.next /\ p.attempt = o.attempt
  BY <1>1 DEF RunnerSet, Holding, Working
<1>7. /\ s \in StageSet /\ s.exists = d.exists /\ s.logs = d.logs
      /\ s.receipt = d.receipt /\ s.files = files /\ s.products = products
  BY <1>1, <1>4, <1>5a DEF StageSet
<1> HIDE DEF p, s
<1>8. Course(p) = Course(o)
  BY <1>0, <1>6 DEF Course, Rest
<1>9. Recorded(p, s)
  <2>1. Recorded(o, d)
    BY <1>1 DEF Works
  <2>2. p.rows[Len(p.rows)].entry.step.kind = "command" /\ s.files[Len(p.rows)].ending \in Result
    BY <1>0, <1>2, <1>4a, <1>5a, <1>6, <1>7
  <2>3. Len(s.files) = Len(p.rows)
    BY <1>5a, <1>6, <1>7
  <2> QED
    BY <1>0, <1>6, <1>7, <2>1, <2>2, <2>3 DEF Recorded
<1> HIDE DEF entry
<1>10. Behind(o) = Behind(p) /\ Ran(p) = 1 .. L /\ Behind(o) \subseteq 1 .. L /\ L \notin Behind(o)
       /\ Ran(o) \subseteq 1 .. L /\ L \notin Ran(o)
  BY <1>0, <1>2, <1>6 DEF Behind, Ran, L
<1>10a. d.products \subseteq products
  BY DEF products
<1>11. Proved(p, s, compiled)
  <2> SUFFICES ASSUME NEW n \in Behind(o)
               PROVE  /\ Proven(o.rows[n], files[n], products, o.attempt)
                      /\ IsBeam(o.rows[n].entry.step) => o.attempt \in compiled
    BY <1>6, <1>7, <1>10 DEF Proved
  <2>1. files[n] = d.files[n]
    BY <1>5a, <1>10
  <2>2. Proven(o.rows[n], d.files[n], d.products, o.attempt) /\ (IsBeam(o.rows[n].entry.step) => o.attempt \in compiled)
    BY <1>1 DEF Works, Proved
  <2> QED
    BY <1>10a, <2>1, <2>2 DEF Proven
<1>12. Produced(p, s)
  <2> SUFFICES ASSUME NEW x \in products
               PROVE  x[2] = o.attempt /\ \E n \in 1 .. L : Wrote(o.rows[n], files[n], x)
    BY <1>6, <1>7, <1>10 DEF Produced
  <2>1. CASE x \in d.products
    <3>1. x[2] = o.attempt /\ \E n \in Ran(o) : Wrote(o.rows[n], d.files[n], x)
      BY <1>1, <2>1 DEF Works, Produced
    <3>2. \A n \in Ran(o) : n \in 1 .. L /\ files[n] = d.files[n]
      BY <1>5a, <1>10
    <3> QED
      BY <3>1, <3>2
  <2>2. CASE x \notin d.products
    <3>1. wrote /\ x = <<entry.place, o.attempt>>
      BY <2>2 DEF products
    <3>2. ~IsBeam(o.rows[L].entry.step)
      <4>1. entry.step \in ListedSteps
        BY <1>2 DEF EntrySet
      <4> QED
        BY <1>0, <1>2, <3>1, <4>1, StepFacts DEF wrote, entry
    <3>3. Wrote(o.rows[L], files[L], x)
      BY <1>2, <1>4a, <1>5a, <3>1, <3>2 DEF Wrote, wrote
    <3> QED
      BY <1>2, <3>1, <3>3
  <2> QED
    BY <2>1, <2>2
<1>13. o.at \in Working /\ p.at \in Working
  BY <1>0a, <1>6
<1> QED
  BY <1>1, <1>3, <1>5, <1>6, <1>7, <1>8, <1>9, <1>11, <1>12, <1>13, OwnStepKeeps DEF h, o, d

LEMMA JudgeKeeps ==
  ASSUME RunnersInv, NEW r \in Runner, JudgeCommand(r)
  PROVE  RunnersInv'
<1> DEFINE c == Current(r)
           h == Here(r)
           o == runner[r]
           d == disk[h]
           L == Len(o.rows)
           entry == Head(o.todo)
           demand == entry.step.demand
           ending == d.files[L].ending
           done == IF IsBeam(entry.step) THEN compiled \cup {o.attempt} ELSE compiled
           p == [o EXCEPT !.at = "passed"]
           Right == /\ Accepts(demand, ending)
                    /\ demand.product => \E x \in d.products : x[1] = entry.place
                    /\ demand.witness => ending.witness
<1>0. o.at = "judge"
  BY DEF JudgeCommand
<1>0a. o.at \in Working /\ "passed" \in Working
  BY <1>0 DEF Holding, Working
<1>1. /\ o \in RunnerSet /\ c \in Case /\ h \in Stage /\ d \in StageSet /\ Works(o, d, compiled)
      /\ c = o.names[o.next]
      /\ compiled \subseteq Nat /\ disk \in [Stage -> StageSet] /\ runner \in [Runner -> RunnerSet]
  BY <1>0a, WorkFacts DEF Holding, RunnersInv, RunnersTyped
<1>2. /\ o.rows \in Seq(RowSet) /\ o.attempt \in Nat /\ L \in 1 .. L
      /\ d.files \in Seq(FileSet) /\ Len(d.files) = L /\ d.products \in ProductSets
      /\ \A n \in 1 .. L : o.rows[n].entry \in EntrySet
      /\ entry = o.rows[L].entry
      /\ o.todo \in Seq(EntrySet) /\ o.todo # << >>
  BY <1>0, <1>0a, RecordStays
<1>3. entry.step.kind = "command" /\ ending \in Result
  BY <1>0, <1>1, <1>2 DEF Works, Recorded
<1>4. CASE ~Right
  <2>1. FailCase(r) /\ compiled' = compiled /\ starts' = starts
    BY <1>4 DEF JudgeCommand
  <2> QED
    BY <1>0a, <2>1, FailKeeps
<1>5. CASE Right
  <2>1. disk' = disk /\ runner' = [runner EXCEPT ![r] = [@ EXCEPT !.at = "passed"]]
        /\ compiled' = done /\ starts' = starts
    BY <1>5 DEF JudgeCommand
  <2> HIDE DEF c, h, o, d
  <2>2. runner' = [runner EXCEPT ![r] = p] /\ disk' = [disk EXCEPT ![h] = d]
    BY <1>1, <2>1 DEF o, d
  <2>3. /\ p \in RunnerSet /\ p.at = "passed" /\ p.todo = o.todo /\ p.rows = o.rows
        /\ p.names = o.names /\ p.next = o.next /\ p.attempt = o.attempt
    BY <1>1 DEF RunnerSet, Holding, Working
  <2> HIDE DEF p
  <2>4. Course(p) = Course(o)
    BY <1>0, <2>3 DEF Course, Rest
  <2>5. Recorded(p, d)
    BY <1>0, <1>1, <2>3 DEF Recorded, Works
  <2> HIDE DEF entry
  <2>6. /\ Behind(o) = {n \in 1 .. L : n < L} /\ Behind(p) = 1 .. L
        /\ Ran(p) = 1 .. L /\ Ran(o) = 1 .. L
    BY <1>0, <2>3 DEF Behind, Ran, L
  \* A product at the step's place was written by the step itself.
  <2>7. demand.product => ending.product /\ <<entry.place, o.attempt>> \in d.products
    <3> SUFFICES ASSUME demand.product
                 PROVE  ending.product /\ <<entry.place, o.attempt>> \in d.products
      OBVIOUS
    <3>1. PICK x \in d.products : x[1] = entry.place
      BY <1>5
    <3>2. PICK n \in 1 .. L : x[2] = o.attempt /\ Wrote(o.rows[n], d.files[n], x)
      BY <1>1, <2>6 DEF Works, Produced
    <3>3. o.rows[n].entry.place = entry.place /\ ~IsBeam(o.rows[n].entry.step)
      BY <3>1, <3>2 DEF Wrote
    <3>4. ~IsBeam(entry.step)
      <4>1. entry.step \in ListedSteps
        BY <1>2 DEF EntrySet
      <4> QED
        BY <1>3, <4>1, StepFacts DEF demand
    <3>5. n = L
      <4> DEFINE e == EntriesOf(o.rows)
                 q == Course(o)
      <4>1. e \in Seq(EntrySet) /\ Len(e) = L /\ \A k \in 1 .. L : e[k] = o.rows[k].entry
        BY <1>2, EntriesOfFacts
      <4> HIDE DEF e
      <4>2. Rest(o) \in Seq(EntrySet)
        BY <1>2, TailFacts DEF Rest
      <4> DEFINE rest == Rest(o)
      <4> HIDE DEF L, rest
      <4>3. q \in Seq(EntrySet) /\ Len(q) = L + Len(rest) /\ \A k \in 1 .. L : q[k] = o.rows[k].entry
        <5>1. rest \in Seq(EntrySet)
          BY <4>2 DEF rest
        <5>2. e \o rest \in Seq(EntrySet) /\ Len(e \o rest) = Len(e) + Len(rest)
              /\ \A k \in 1 .. Len(e) : (e \o rest)[k] = e[k]
          BY <4>1, <5>1, JoinFacts
        <5>3. q = e \o rest
          BY DEF Course, e, rest
        <5> HIDE DEF q
        <5> QED
          BY <4>1, <5>2, <5>3
      <4>4. InRecipeOrder(c, q)
        BY <1>1 DEF Works
      <4> HIDE DEF q
      <4>5. n \in DOMAIN q /\ L \in DOMAIN q
        <5>1. 1 .. L \subseteq 1 .. Len(q)
          BY <1>2, <4>2, <4>3 DEF rest
        <5>2. DOMAIN q = 1 .. Len(q)
          BY <4>3
        <5> QED
          BY <1>2, <5>1, <5>2
      <4>6. q[n].place = q[L].place /\ ~IsBeam(q[n].step) /\ ~IsBeam(q[L].step)
        BY <1>2, <3>3, <3>4, <4>3
      <4>7. q[L].place \in Nat \X Nat
        BY <1>2, <4>3 DEF EntrySet
      <4>8. n < L => Earlier(q[n].place, q[L].place)
        BY <4>4, <4>5, <4>6 DEF InRecipeOrder
      <4>9. ~Earlier(q[L].place, q[L].place)
        BY <4>7 DEF Earlier
      <4> QED
        BY <1>2, <4>6, <4>8, <4>9
    <3>6. ending.product
      BY <1>2, <1>3, <3>2, <3>5 DEF Wrote, ending
    <3>7. x = <<entry.place, o.attempt>>
      <4>1. x \in (Nat \X Nat) \X Nat
        BY <1>2, <3>1 DEF ProductSets
      <4> QED
        BY <3>1, <3>2, <4>1
    <3> QED
      BY <3>1, <3>6, <3>7
  <2>8. Proven(o.rows[L], d.files[L], d.products, o.attempt)
    BY <1>2, <1>5, <2>7 DEF Proven, Accepts
  <2>9. compiled \subseteq done /\ done \subseteq Nat /\ (IsBeam(o.rows[L].entry.step) => o.attempt \in done)
    BY <1>1, <1>2
  <2> HIDE DEF done
  <2>10. Proved(p, d, done)
    <3> SUFFICES ASSUME NEW n \in 1 .. L
                 PROVE  /\ Proven(o.rows[n], d.files[n], d.products, o.attempt)
                        /\ IsBeam(o.rows[n].entry.step) => o.attempt \in done
      BY <2>3, <2>6 DEF Proved
    <3>1. CASE n < L
      BY <1>1, <2>6, <2>9, <3>1 DEF Works, Proved
    <3>2. CASE n = L
      BY <2>8, <2>9, <3>2
    <3> QED
      BY <1>2, <3>1, <3>2
  <2>11. Produced(p, d)
    BY <1>1, <2>3, <2>6 DEF Works, Produced
  <2>12. o.at \in Working /\ p.at \in Working
    BY <1>0a, <2>3
  <2> QED
    BY <1>1, <2>1, <2>2, <2>3, <2>4, <2>5, <2>9, <2>10, <2>11, <2>12, OwnStepKeeps DEF c, h, o, d
<1> QED
  BY <1>4, <1>5

LEMMA PassKeeps ==
  ASSUME RunnersInv, NEW r \in Runner, PassStep(r)
  PROVE  RunnersInv'
<1> DEFINE c == Current(r)
           h == Here(r)
           o == runner[r]
           d == disk[h]
           L == Len(o.rows)
           rows == LastRow(o.rows, "passed")
           todo == Tail(o.todo)
           receipt == Receipt(r, "running", rows)
           p == RunnerNow(o, "steps", todo, rows)
           s == [d EXCEPT !.receipt = receipt]
<1>0. o.at = "passed"
  BY DEF PassStep
<1>0a. o.at \in Working /\ "steps" \in Working /\ "steps" \in Holding
  BY <1>0 DEF Holding, Working
<1>1. /\ o \in RunnerSet /\ c \in Case /\ h \in Stage /\ d \in StageSet /\ Works(o, d, compiled)
      /\ c = o.names[o.next]
      /\ compiled \subseteq Nat /\ disk \in [Stage -> StageSet] /\ runner \in [Runner -> RunnerSet]
  BY <1>0a, WorkFacts DEF Holding, RunnersInv, RunnersTyped
<1>2. /\ o.rows \in Seq(RowSet) /\ o.attempt \in Nat /\ L \in 1 .. L
      /\ o.todo \in Seq(EntrySet) /\ o.todo # << >>
  BY <1>0, <1>0a, RecordStays
<1>3. /\ disk' = [disk EXCEPT ![h].receipt = receipt]
      /\ runner' = [runner EXCEPT ![r] = [@ EXCEPT !.at = "steps", !.rows = rows, !.todo = Tail(o.todo)]]
      /\ starts' = starts /\ compiled' = compiled
  BY DEF PassStep
<1> HIDE DEF c, h, o, d
<1>4. o.rows # << >>
  BY <1>2
<1>5. /\ rows \in Seq(RowSet) /\ Len(rows) = L
      /\ \A n \in 1 .. L : rows[n].entry = o.rows[n].entry
      /\ \A n \in 1 .. L : n < L => rows[n] = o.rows[n]
      /\ rows[L].status = "passed"
  BY <1>2, <1>4, LastRowFacts
<1>6. todo \in Seq(EntrySet)
  BY <1>2, TailFacts
<1>7. receipt \in ReceiptSet /\ receipt = [case |-> c, status |-> "running", rows |-> rows, attempt |-> o.attempt]
  BY <1>1, <1>2, <1>5 DEF Receipt, ReceiptSet, o, c
<1> HIDE DEF rows, receipt, todo
<1>8. disk' = [disk EXCEPT ![h] = s]
  BY <1>1, <1>3 DEF d
<1>9. runner' = [runner EXCEPT ![r] = p]
  <2>1. p = [o EXCEPT !.at = "steps", !.rows = rows, !.todo = Tail(o.todo)]
    BY <1>1 DEF RunnerNow, RunnerSet, todo
  <2> DEFINE w == [o EXCEPT !.at = "steps", !.rows = rows, !.todo = Tail(o.todo)]
  <2>2. runner' = [runner EXCEPT ![r] = w]
    BY <1>1, <1>3 DEF o
  <2> HIDE DEF p, w
  <2>3. p = w
    BY <2>1 DEF w
  <2> QED
    BY <2>2, <2>3
<1>10. /\ p \in RunnerSet /\ p.at = "steps" /\ p.todo = todo /\ p.rows = rows
       /\ p.names = o.names /\ p.next = o.next /\ p.attempt = o.attempt
  BY <1>0a, <1>1, <1>5, <1>6, RunnerUpdated
<1>11. /\ s \in StageSet /\ s.exists = d.exists /\ s.logs = d.logs
       /\ s.receipt = receipt /\ s.files = d.files /\ s.products = d.products
  BY <1>1, <1>7 DEF StageSet
<1> HIDE DEF p, s
<1>12. EntriesOf(rows) = EntriesOf(o.rows)
  <2>1. \A n \in 1 .. Len(rows) : rows[n].entry = o.rows[n].entry
    BY <1>5
  <2> QED
    BY <1>5, <2>1 DEF EntriesOf, L
<1>13. Course(p) = Course(o)
  BY <1>0, <1>10, <1>12 DEF Course, Rest, todo
<1>14. Recorded(p, s)
  <2>1. Recorded(o, d)
    BY <1>1 DEF Works
  <2>2. ASSUME NEW n \in 1 .. L
        PROVE  rows[n].entry.step.kind # "rows" /\ rows[n].status = "passed"
    <3>1. CASE n < L
      BY <1>5, <2>1, <3>1 DEF Recorded, L
    <3>2. CASE n = L
      BY <1>5, <2>1, <3>2 DEF Recorded, L
    <3> QED
      BY <1>2, <3>1, <3>2
  <2> QED
    BY <1>1, <1>5, <1>7, <1>10, <1>11, <2>1, <2>2 DEF Recorded, L
<1>15. Behind(p) = 1 .. L /\ Behind(o) = 1 .. L /\ Ran(p) = 1 .. L /\ Ran(o) = 1 .. L
  BY <1>0, <1>5, <1>10 DEF Behind, Ran, L
<1>16. Proved(p, s, compiled)
  <2>1. Proved(o, d, compiled)
    BY <1>1 DEF Works
  <2>2. ASSUME NEW n \in 1 .. L
        PROVE  /\ Proven(rows[n], s.files[n], s.products, o.attempt)
               /\ IsBeam(rows[n].entry.step) => o.attempt \in compiled
    <3>1. /\ Proven(o.rows[n], d.files[n], d.products, o.attempt)
          /\ IsBeam(o.rows[n].entry.step) => o.attempt \in compiled
      BY <1>15, <2>1 DEF Proved
    <3>2. rows[n].entry = o.rows[n].entry
      BY <1>5
    <3> QED
      BY <1>11, <3>1, <3>2 DEF Proven
  <2> QED
    BY <1>10, <1>15, <2>2 DEF Proved
<1>17. Produced(p, s)
  <2>1. Produced(o, d)
    BY <1>1 DEF Works
  <2>2. ASSUME NEW x \in s.products
        PROVE  x[2] = p.attempt /\ \E n \in Ran(p) : Wrote(p.rows[n], s.files[n], x)
    <3>1. x[2] = o.attempt /\ \E n \in 1 .. L : Wrote(o.rows[n], d.files[n], x)
      BY <1>11, <1>15, <2>1 DEF Produced
    <3>2. PICK n \in 1 .. L : Wrote(o.rows[n], d.files[n], x)
      BY <3>1
    <3>3. rows[n].entry = o.rows[n].entry
      BY <1>5
    <3>4. Wrote(rows[n], s.files[n], x)
      BY <1>11, <3>2, <3>3 DEF Wrote
    <3> QED
      BY <1>10, <1>15, <3>1, <3>4
  <2> QED
    BY <2>2 DEF Produced
<1>18. o.at \in Working /\ p.at \in Working
  BY <1>0a, <1>10
<1> QED
  BY <1>1, <1>3, <1>8, <1>9, <1>10, <1>11, <1>13, <1>14, <1>16, <1>17, <1>18, OwnStepKeeps DEF c, h, o, d

\* The last receipt of a case, and the truth of it.
LEMMA PassCaseKeeps ==
  ASSUME RunnersInv, NEW r \in Runner, PassCase(r)
  PROVE  RunnersInv'
<1> DEFINE c == Current(r)
           h == Here(r)
           o == runner[r]
           d == disk[h]
           L == Len(o.rows)
           receipt == Receipt(r, "passed", o.rows)
           p == IF o.next = Len(o.names) THEN NotRunning ELSE [o EXCEPT !.at = "case", !.next = o.next + 1]
           s == [d EXCEPT !.receipt = receipt]
<1>0. o.at = "steps" /\ o.todo = << >>
  BY DEF PassCase
<1>0a. o.at \in Working
  BY <1>0 DEF Holding, Working
<1>1. /\ o \in RunnerSet /\ c \in Case /\ h \in Stage /\ d \in StageSet /\ Works(o, d, compiled) /\ Writes(r)
      /\ Knowledge(o, d, compiled) /\ c = o.names[o.next] /\ h \in {Root, c}
      /\ compiled \subseteq Nat /\ disk \in [Stage -> StageSet] /\ runner \in [Runner -> RunnerSet]
  BY <1>0a, WorkFacts DEF Holding, RunnersInv, RunnersTyped
<1>2. /\ o.rows \in Seq(RowSet) /\ o.attempt \in Nat /\ L \in Nat
      /\ o.next \in 1 .. Len(o.names) /\ o.next \in Nat /\ Len(o.names) \in Nat /\ o.names \in Seq(Case)
      /\ Len(d.files) = L
  BY <1>0a, RecordStays
<1>3. /\ disk' = [disk EXCEPT ![h].receipt = receipt] /\ runner' = [runner EXCEPT ![r] = p]
      /\ starts' = starts /\ compiled' = compiled
  <2>1. runner' = [runner EXCEPT ![r] = IF o.next = Len(o.names) THEN NotRunning
                                        ELSE [@ EXCEPT !.at = "case", !.next = o.next + 1]]
    BY DEF PassCase
  <2>2. disk' = [disk EXCEPT ![h].receipt = receipt] /\ starts' = starts /\ compiled' = compiled
    BY DEF PassCase
  <2> QED
    BY <1>1, <2>1, <2>2
<1> HIDE DEF c, h, o, d
<1>4. receipt \in ReceiptSet /\ receipt = [case |-> c, status |-> "passed", rows |-> o.rows, attempt |-> o.attempt]
  BY <1>1, <1>2 DEF Receipt, ReceiptSet, o, c
<1> HIDE DEF receipt
<1>5. disk' = [disk EXCEPT ![h] = s]
  BY <1>1, <1>3 DEF d
<1>6. /\ s \in StageSet /\ s.exists = d.exists /\ s.logs = d.logs
      /\ s.receipt = receipt /\ s.files = d.files /\ s.products = d.products
  BY <1>1, <1>4 DEF StageSet
<1> HIDE DEF p, s
<1>7. Recorded(o, d) /\ Proved(o, d, compiled) /\ Produced(o, d) /\ InRecipeOrder(c, Course(o))
      /\ (o.next = 1 /\ Compiling(o.names) # {} => Leads(Course(o)))
  BY <1>1 DEF Works
<1>8. Course(o) = EntriesOf(o.rows)
  <2>1. EntriesOf(o.rows) \in Seq(EntrySet)
    BY <1>2, EntriesOfFacts
  <2>2. Course(o) = EntriesOf(o.rows) \o << >>
    BY <1>0 DEF Course, Rest
  <2> QED
    BY <2>1, <2>2
<1>9. Behind(o) = 1 .. L
  BY <1>0 DEF Behind, L
\* Whatever compilation the selection needs was this attempt's.
<1>10. Compiling(o.names) # {} => o.attempt \in compiled
  <2> SUFFICES ASSUME Compiling(o.names) # {}
               PROVE  o.attempt \in compiled
    OBVIOUS
  <2>1. CASE o.next > 1
    BY <1>1, <2>1 DEF Knowledge
  <2>2. CASE o.next = 1
    <3>1. EntriesOf(o.rows) # << >> /\ IsBeam(EntriesOf(o.rows)[1].step)
      BY <1>7, <1>8, <2>2 DEF Leads
    <3>2. 1 \in 1 .. L
      <4>1. EntriesOf(o.rows) \in Seq(EntrySet) /\ Len(EntriesOf(o.rows)) = L
        BY <1>2, EntriesOfFacts
      <4>2. L # 0
        BY <3>1, <4>1
      <4> QED
        BY <1>2, <4>2
    <3>3. IsBeam(o.rows[1].entry.step)
      BY <1>2, <3>1, <3>2, EntriesOfFacts
    <3> QED
      BY <1>7, <1>9, <3>2, <3>3 DEF Proved
  <2> QED
    BY <1>2, <2>1, <2>2
<1>11. Beams(c) # {} => Compiling(o.names) # {}
  <2>1. o.next \in DOMAIN o.names
    BY <1>2
  <2> QED
    BY <1>1, <2>1 DEF Compiling
<1>12. PassedTruly(h, s, compiled)
  <2>1. receipt.rows = o.rows /\ receipt.attempt = o.attempt /\ receipt.case = c
    BY <1>4
  <2>2. DOMAIN o.rows = 1 .. L
    BY <1>2
  <2>3. [n \in DOMAIN o.rows |-> o.rows[n].entry] = Course(o)
    BY <1>8, <2>2 DEF EntriesOf, L
  <2>4. \A x \in d.products : x[2] = o.attempt
    BY <1>7 DEF Produced
  <2>5. ASSUME NEW n \in 1 .. L
        PROVE  /\ o.rows[n].status = "passed" /\ o.rows[n].entry.step.kind # "rows"
               /\ Proven(o.rows[n], d.files[n], d.products, o.attempt)
    BY <1>0, <1>7, <1>9 DEF Recorded, Proved, L
  <2> QED
    BY <1>1, <1>2, <1>6, <1>7, <1>10, <1>11, <2>1, <2>2, <2>3, <2>4, <2>5 DEF PassedTruly
<1>13. /\ p \in RunnerSet
       /\ p.at = "idle" \/ /\ p.at = "case" /\ p.next \in 1 .. Len(p.names)
                           /\ p.names = o.names /\ p.attempt = o.attempt
  <2>1. CASE o.next = Len(o.names)
    BY <2>1, IdleIsRunner DEF p
  <2>2. CASE o.next # Len(o.names)
    <3>1. o.next + 1 \in 1 .. Len(o.names) /\ o.next + 1 \in Nat \ {0}
      BY <1>2, <2>2
    <3> DEFINE p1 == [o EXCEPT !.at = "case"]
               p2 == [p1 EXCEPT !.next = o.next + 1]
    <3>2. p1 \in RunnerSet /\ p1.at = "case" /\ p1.names = o.names /\ p1.attempt = o.attempt
      BY <1>1 DEF RunnerSet
    <3>3. p = p2
      BY <2>2 DEF p
    <3> HIDE DEF p1
    <3>4. p2 \in RunnerSet /\ p2.at = "case" /\ p2.names = o.names /\ p2.attempt = o.attempt /\ p2.next = o.next + 1
      BY <3>1, <3>2 DEF RunnerSet
    <3> HIDE DEF p2
    <3> QED
      BY <3>1, <3>3, <3>4
  <2> QED
    BY <2>1, <2>2
<1>14. \/ p.at = "idle"
       \/ /\ p.at = "case" /\ p.next \in 1 .. Len(p.names)
          /\ p.next > 1 /\ Compiling(p.names) # {} => p.attempt \in compiled
  BY <1>10, <1>13
<1> QED
  BY <1>1, <1>3, <1>5, <1>6, <1>12, <1>13, <1>14, OwnerKeeps DEF c, h, o, d

-----------------------------------------------------------------------------
(* Around the runners, and the theorem.                                    *)

\* A stage nobody works in may become anything without a record.
LEMMA StageTurnover ==
  ASSUME RunnersInv, disk' \in [Stage -> StageSet], UNCHANGED <<runner, starts, compiled>>,
         \A e \in Stage : \/ Raised(disk[e], disk'[e])
                          \/ /\ ~Active(e) /\ ~disk'[e].logs /\ disk'[e].files = << >>
                             /\ disk'[e].receipt = Nothing
  PROVE  RunnersInv'
<1>1. RunnersTyped'
  BY DEF RunnersInv, RunnersTyped
<1>2. OneOwner'
  BY DEF RunnersInv, OneOwner, Writes, Here, StageOf, Current
<1>3. ASSUME NEW e \in Stage
      PROVE  StageSound(e, disk'[e], compiled)
  <2>1. CASE Raised(disk[e], disk'[e])
    <3>1. StageSound(e, disk[e], compiled)
      BY DEF RunnersInv
    <3> QED
      BY <2>1, <3>1, RaisedKeeps
  <2>2. CASE ~disk'[e].logs /\ disk'[e].files = << >> /\ disk'[e].receipt = Nothing
    BY <2>2 DEF StageSound, PassedTruly
  <2> QED
    BY <2>1, <2>2
<1>4. ASSUME NEW q \in Runner, runner[q].at # "idle"
      PROVE  Knowledge(runner[q], disk'[Here(q)], compiled)
  <2>1. Here(q) \in Stage /\ Knowledge(runner[q], disk[Here(q)], compiled)
    BY <1>4, RunnerFacts
  <2>2. CASE Raised(disk[Here(q)], disk'[Here(q)])
    BY <2>1, <2>2, RaisedKeeps
  <2>3. CASE ~Active(Here(q))
    <3>1. runner[q].at = "check"
      BY <1>4, <2>3 DEF Active
    <3> QED
      BY <2>1, <3>1 DEF Knowledge, Holding, Working
  <2> QED
    BY <2>1, <2>2, <2>3
<1>5. \A e \in Stage : StageSound(e, disk[e], compiled)'
  BY <1>3
<1>6. \A q \in Runner : (runner[q].at # "idle" => Knowledge(runner[q], disk[Here(q)], compiled))'
  BY <1>4 DEF Here, StageOf, Current
<1> QED
  BY <1>1, <1>2, <1>5, <1>6 DEF RunnersInv

LEMMA RemoveKeeps ==
  ASSUME RunnersInv, NEW h \in Stage, RemoveStage(h)
  PROVE  RunnersInv'
<1>1. NoStage \in StageSet /\ ~NoStage.logs /\ NoStage.files = << >> /\ NoStage.receipt = Nothing
  BY DEF NoStage, StageSet, ProductSets
<1>2. /\ disk' = [e \in Stage |-> IF e \in StagesIn(h) THEN NoStage ELSE disk[e]]
      /\ \A e \in StagesIn(h) : ~Active(e)
      /\ UNCHANGED <<runner, starts, compiled>>
  BY DEF RemoveStage
<1>3. \A e \in Stage : disk[e] \in StageSet
  BY DEF RunnersInv, RunnersTyped
<1>4. disk' \in [Stage -> StageSet]
  BY <1>1, <1>2, <1>3
<1>5. ASSUME NEW e \in Stage
      PROVE  \/ Raised(disk[e], disk'[e])
             \/ /\ ~Active(e) /\ ~disk'[e].logs /\ disk'[e].files = << >> /\ disk'[e].receipt = Nothing
  <2>1. CASE e \in StagesIn(h)
    BY <1>1, <1>2, <2>1
  <2>2. CASE e \notin StagesIn(h)
    <3>1. disk'[e] = disk[e]
      BY <1>2, <2>2
    <3> QED
      BY <3>1 DEF Raised
  <2> QED
    BY <2>1, <2>2
<1> QED
  BY <1>2, <1>4, <1>5, StageTurnover

LEMMA LeaveKeeps ==
  ASSUME RunnersInv, NEW h \in Stage, NEW place \in Places(h), Leave(h, place)
  PROVE  RunnersInv'
<1> DEFINE m == Made(h)
           s == [m[h] EXCEPT !.products = {<<place, 0>>}]
<1>1. StageSound(h, disk[h], compiled) /\ ~disk[h].exists /\ ~Active(h)
  BY DEF RunnersInv, Leave
<1>2. place \in Nat \X Nat
  <2>1. PICK c \in Case : \E n \in DOMAIN Recipe[c] : place = <<n, 0>>
    BY DEF Places, StagesIn, Stage
  <2>2. PICK n \in DOMAIN Recipe[c] : place = <<n, 0>>
    BY <2>1
  <2>3. n \in Nat
    BY ListedFacts
  <2> QED
    BY <2>2, <2>3
<1>3. {<<place, 0>>} \in ProductSets
  BY <1>2 DEF ProductSets
<1>4. disk' = [m EXCEPT ![h].products = {<<place, 0>>}] /\ UNCHANGED <<runner, starts, compiled>>
  BY DEF Leave
<1>5. m \in [Stage -> StageSet] /\ \A e \in Stage : Raised(disk[e], m[e])
  BY MadeFacts
<1> HIDE DEF m
<1>6. disk' = [m EXCEPT ![h] = s]
  BY <1>4, <1>5
<1>7. s \in StageSet /\ s.logs = m[h].logs /\ s.files = m[h].files /\ s.receipt = m[h].receipt
  BY <1>3, <1>5 DEF StageSet
<1>8. ~m[h].logs /\ m[h].files = << >> /\ m[h].receipt = Nothing
  BY <1>1, <1>5 DEF Raised, StageSound
<1> HIDE DEF s
<1>9. disk' \in [Stage -> StageSet] /\ disk'[h] = s /\ \A e \in Stage \ {h} : disk'[e] = m[e]
  BY <1>5, <1>6, <1>7
<1>10. ASSUME NEW e \in Stage
       PROVE  \/ Raised(disk[e], disk'[e])
              \/ /\ ~Active(e) /\ ~disk'[e].logs /\ disk'[e].files = << >> /\ disk'[e].receipt = Nothing
  <2>1. CASE e = h
    BY <1>1, <1>7, <1>8, <1>9, <2>1
  <2>2. CASE e # h
    BY <1>5, <1>9, <2>2
  <2> QED
    BY <2>1, <2>2
<1> QED
  BY <1>4, <1>9, <1>10, StageTurnover

LEMMA RunnersStart == RunnerInit => RunnersInv
<1> SUFFICES ASSUME RunnerInit PROVE RunnersInv
  OBVIOUS
<1>1. NoStage \in StageSet /\ ~NoStage.logs /\ NoStage.files = << >> /\ NoStage.receipt = Nothing
  BY DEF NoStage, StageSet, ProductSets
<1>2. \A r \in Runner : runner[r] = NotRunning
  BY DEF RunnerInit
<1>3. RunnersTyped
  BY <1>1, IdleIsRunner DEF RunnerInit, RunnersTyped
<1>4. OneOwner
  BY <1>2, IdleIsRunner DEF OneOwner, Writes
<1>5. \A h \in Stage : StageSound(h, disk[h], compiled)
  BY <1>1 DEF RunnerInit, StageSound, PassedTruly
<1> QED
  BY <1>2, <1>3, <1>4, <1>5, IdleIsRunner DEF RunnersInv

LEMMA RunnersKeep == RunnersInv /\ [RunnerNext]_regression => RunnersInv'
<1> SUFFICES ASSUME RunnersInv, [RunnerNext]_regression
             PROVE  RunnersInv'
  OBVIOUS
<1>1. ASSUME NEW r \in Runner, NEW names \in Selections, Start(r, names)
      PROVE  RunnersInv'
  BY <1>1, StartKeeps
<1>2. ASSUME NEW r \in Runner, CheckAll(r) \/ OpenCase(r) \/ MakeLogs(r) \/ SaveFirst(r)
      PROVE  RunnersInv'
  BY <1>2, CheckKeeps, OpenKeeps, LogsKeep, SaveKeeps
<1>3. ASSUME NEW r \in Runner, NEW n \in 1 .. MaxRows, ReadTable(r, n)
      PROVE  RunnersInv'
  BY <1>3, TableKeeps
<1>4. ASSUME NEW r \in Runner, BadTable(r) \/ BadStep(r) \/ Interrupt(r)
      PROVE  RunnersInv'
  <2>1. runner[r].at \in Working /\ FailCase(r) /\ UNCHANGED <<starts, compiled>>
    BY <1>4 DEF BadTable, BadStep, Interrupt, Working
  <2> QED
    BY <2>1, FailKeeps
<1>5. ASSUME NEW r \in Runner, BeginStep(r) \/ CopyFiles(r) \/ JudgeCommand(r) \/ PassStep(r) \/ PassCase(r)
      PROVE  RunnersInv'
  BY <1>5, BeginStepKeeps, CopyKeeps, JudgeKeeps, PassKeeps, PassCaseKeeps
<1>6. ASSUME NEW r \in Runner, NEW ending \in Result, NEW output \in LogSizes, RunCommand(r, ending, output)
      PROVE  RunnersInv'
  BY <1>6, RunKeeps
<1>7. ASSUME NEW r \in Runner, Kill(r)
      PROVE  RunnersInv'
  BY <1>7, GiveUpKeeps DEF Kill
<1>8. ASSUME NEW h \in Stage, RemoveStage(h) \/ \E place \in Places(h) : Leave(h, place)
      PROVE  RunnersInv'
  BY <1>8, RemoveKeeps, LeaveKeeps
<1>9. CASE UNCHANGED regression
  <2>1. disk' = disk /\ runner' = runner /\ starts' = starts /\ compiled' = compiled
    BY <1>9 DEF regression
  <2> QED
    BY <2>1 DEF RunnersInv, RunnersTyped, OneOwner, Writes, Here, StageOf, Current, StageSound, PassedTruly
<1>10. CASE RunnerNext
  BY <1>1, <1>2, <1>3, <1>4, <1>5, <1>6, <1>7, <1>8, <1>10 DEF RunnerNext
<1> QED
  BY <1>9, <1>10

\* A receipt of tools/run_regression.py that says "passed" is the truth about
\* one attempt at the case it names, and no two runners write one stage,
\* whatever the cases and their recipes are, however many runners of one case
\* or of several are started with one STAGE (the former in STAGE itself, the
\* latter in STAGE/<case>), killed or interrupted, and whatever somebody leaves
\* in a stage or removes.
THEOREM ReceiptsAreTruthful == RunnerSpec => []ReceiptsTruthful
<1>1. RunnersInv => ReceiptsTruthful
  BY DEF RunnersInv, StageSound, OneOwner, ReceiptsTruthful
<1> QED
  BY <1>1, RunnersStart, RunnersKeep, PTL DEF RunnerSpec

=============================================================================

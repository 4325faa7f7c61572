-------------------------- MODULE FilePipelineProofs --------------------------
(***************************************************************************)
(* Proofs about FilePipeline, for every set of contents, configurations,   *)
(* run options and access rights.                                          *)
(*                                                                         *)
(* With other programs interfering and I/O failing at will: the order of   *)
(* the steps, what a change rests on and what is reported of it (IInv,     *)
(* ReportInv), and that a write keeps the user's text as it was read       *)
(* (TextInv).  When nobody touches the file during a run: what is excluded *)
(* is never written, a BOM survives, there is never a second header, a     *)
(* second run finds nothing to do and a dry run predicts what is applied   *)
(* (QuietInv and what stands on it).                                       *)
(***************************************************************************)
EXTENDS FilePipeline, SequenceTheorems, TLAPS

(***************************************************************************)
(* The inductive invariant.                                                *)
(***************************************************************************)

\* Position of a step in every pipeline that has it.
Rank(step) ==
  CASE step \in {"prober", "resolver"} -> 1
    [] step = "sniffer"  -> 2
    [] step = "reader"   -> 3
    [] step = "scanner"  -> 4
    [] step = "builder"  -> 5
    [] step = "renderer" -> 6
    [] step = "stripper" -> 7
    [] step = "comparer" -> 8
    [] step = "planner"  -> 9
    [] step = "patcher"  -> 10
    [] step = "writer"   -> 11

\* No two steps are called in the wrong order, none is called twice.
InOrder(steps) ==
  \A i, j \in 1..Len(steps) : i < j => Rank(steps[i]) < Rank(steps[j])

\* Between runs nothing is left of the last one.
FreshBetweenRuns ==
  mode = None => todo = <<>> /\ st = AllPending /\ halt = None /\ views = NoViews

\* What is still to do is part of the pipeline, in its order; a halt comes after discovery.
TodoOfPipeline ==
  /\ InOrder(todo)
  /\ mode # None => ToSet(todo) \subseteq ToSet(Pipeline)
  /\ halt # None => ToSet(todo) \cap {"resolver", "prober"} = {}

\* Views that steps still to come declare to read are there as the last step left them.
ConsumedViewsKept ==
  mode # None =>
    LET Needed(slot) == slot \in RemainingConsumers(todo) IN
    /\ st.content = "OK" /\ Needed("image") => views.image # None
    /\ st.render = "RENDERED" /\ Needed("render") => views.render \in RenderedKinds
    /\ (st.strip = "READY" \/ st.plan \in ConcretePlans) /\ Needed("updated")
         => views.updated # None

\* A header the scanner found is one the image has.
HeaderIsInImage ==
  views.image # None /\ (st.header \in {"DETECTED", "EMPTY"} \/ views.header # None)
    => views.image.headers # <<>>

\* How far a run must have come for an axis to have the value it has.
DecidedFromBelow ==
  /\ st.header # "PENDING" \/ views.header # None => st.content = "OK"
  /\ st.header = "MALFORMED" => halt # None
  /\ st.generation # "PENDING" =>
       mode.cmd = "check" /\ st.header \notin {"PENDING", "MALFORMED"}
  /\ st.generation \in {"GENERATED", "NO_FIELDS"} => PermittedByPolicy(st, policy)
  /\ st.render # "PENDING" => st.generation \in {"GENERATED", "NO_FIELDS"}
  /\ st.strip # "PENDING" => mode.cmd = "strip" /\ st.header # "PENDING"
  /\ views.updated # None => st.strip = "READY" \/ st.plan # "PENDING"
  /\ st.comparison # "PENDING" => st.strip = "READY" \/ st.render = "RENDERED"
  /\ st.comparison = "SKIPPED" => halt # None
  /\ st.comparison \in {"CHANGED", "UNCHANGED"} =>
       st.header \notin {"MALFORMED_ALL_FIELDS", "MALFORMED_SOME_FIELDS"}
  /\ st.plan # "PENDING" => st.strip = "READY" \/ st.render = "RENDERED"

\* What a plan to change the file rests on.
PlanRestsOnDecisions ==
  /\ st.plan \in ConcretePlans => mode.apply
  /\ st.plan = "REMOVED" => st.strip = "READY"
  /\ st.plan \in {"INSERTED", "REPLACED"} =>
       mode.cmd = "check" /\ st.comparison = "CHANGED"
  /\ st.plan \in ConcretePlans \cup {"PREVIEWED"} /\ mode.cmd = "check" =>
       st.comparison \in {"CHANGED", "UNCHANGED"}

\* Type correctness and the invariants of a run, each of which the others rest on.
IInv ==
  /\ TypeOK
  /\ FreshBetweenRuns
  /\ TodoOfPipeline
  /\ AxesDecidedInOrder
  /\ ConsumedViewsKept
  /\ HeaderIsInImage
  /\ DecidedFromBelow
  /\ PlanRestsOnDecisions

------------------------------------------------------------------------------
(***************************************************************************)
(* The pipelines.                                                          *)
(***************************************************************************)

\* Resolving comes first.
LEMMA RankOfSteps ==
  /\ \A step \in Steps : Rank(step) \in 1..11
  /\ Rank("resolver") = 1 /\ Rank("prober") = 1
BY DEF Rank, Steps

\* Sequence P holds the steps S, each once, in order.
Shaped(P, S) == P \in Seq(Steps) /\ InOrder(P) /\ ToSet(P) = S

\* Two pieces joined are in order if all of the second piece ranks higher.
LEMMA JoinInOrder ==
  ASSUME NEW s, NEW t, NEW S, NEW T, Shaped(s, S), Shaped(t, T),
         \A x \in S, y \in T : Rank(x) < Rank(y)
  PROVE  Shaped(s \o t, S \cup T)
<1>1. /\ s \o t \in Seq(Steps)
      /\ Len(s \o t) = Len(s) + Len(t)
      /\ \A i \in 1 .. Len(s) + Len(t) :
           (s \o t)[i] = IF i <= Len(s) THEN s[i] ELSE t[i - Len(s)]
  BY ConcatProperties DEF Shaped
<1>2. InOrder(s \o t)
  <2> SUFFICES ASSUME NEW i \in 1..Len(s \o t), NEW j \in 1..Len(s \o t), i < j
               PROVE  Rank((s \o t)[i]) < Rank((s \o t)[j])
    BY DEF InOrder
  <2>1. CASE j <= Len(s)
    BY <2>1, <1>1 DEF InOrder, Shaped
  <2>2. CASE i > Len(s)
    <3>1. i - Len(s) \in 1..Len(t) /\ j - Len(s) \in 1..Len(t) /\ i - Len(s) < j - Len(s)
      BY <2>2, <1>1
    <3> QED BY <2>2, <3>1, <1>1 DEF InOrder, Shaped
  <2>3. CASE i <= Len(s) /\ j > Len(s)
    <3>1. i \in 1..Len(s) /\ j - Len(s) \in 1..Len(t)
      BY <2>3, <1>1
    <3>2. s[i] \in S /\ t[j - Len(s)] \in T
      BY <3>1 DEF Shaped, ToSet
    <3> QED BY <2>3, <3>1, <3>2, <1>1
  <2> QED BY <2>1, <2>2, <2>3, <1>1
<1>3. ASSUME NEW x PROVE x \in ToSet(s \o t) <=> x \in ToSet(s) \cup ToSet(t)
  <2>1. ASSUME x \in ToSet(s \o t) PROVE x \in ToSet(s) \cup ToSet(t)
    <3>1. PICK i \in 1..Len(s \o t) : x = (s \o t)[i]
      BY <2>1, <1>1 DEF ToSet
    <3>2. CASE i <= Len(s)
      BY <3>1, <3>2, <1>1 DEF ToSet
    <3>3. CASE i > Len(s)
      BY <3>1, <3>3, <1>1 DEF ToSet
    <3> QED BY <3>2, <3>3
  <2>2. ASSUME x \in ToSet(s) PROVE x \in ToSet(s \o t)
    BY <2>2, <1>1 DEF ToSet
  <2>3. ASSUME x \in ToSet(t) PROVE x \in ToSet(s \o t)
    <3>1. PICK j \in 1..Len(t) : x = t[j]
      BY <2>3 DEF ToSet
    <3>2. Len(s) + j \in 1..Len(s \o t) /\ (s \o t)[Len(s) + j] = x
      BY <3>1, <1>1
    <3> QED BY <3>2, <1>1 DEF ToSet
  <2> QED BY <2>1, <2>2, <2>3
<1> QED BY <1>1, <1>2, <1>3 DEF Shaped

\* The steps of each pipeline.
ScanSteps == {"resolver", "sniffer", "reader", "scanner"}
CheckSteps == ScanSteps \cup {"builder", "renderer", "comparer"}
StripSteps == ScanSteps \cup {"stripper"}

\* The pieces of the pipeline definitions are in order.
LEMMA PieceShapes ==
  /\ Shaped(ScanPipeline, ScanSteps)
  /\ Shaped(<<"prober">>, {"prober"})
  /\ Shaped(<<"stripper">>, {"stripper"})
  /\ Shaped(<<"builder", "renderer", "comparer">>, {"builder", "renderer", "comparer"})
  /\ Shaped(<<"planner", "writer">>, {"planner", "writer"})
  /\ Shaped(<<"planner", "patcher">>, {"planner", "patcher"})
  /\ Shaped(<<"comparer", "planner", "patcher">>, {"comparer", "planner", "patcher"})
BY DEF Shaped, ScanPipeline, ScanSteps, InOrder, Rank, Steps, ToSet

\* Every pipeline a command selects is in order; which steps it has, by command.
PipelineSteps(m) ==
  CASE m.cmd = "probe" -> {"prober"}
    [] m.cmd = "check" /\ m.apply -> CheckSteps \cup {"planner", "writer"}
    [] m.cmd = "check" /\ ~m.apply /\ m.diff -> CheckSteps \cup {"planner", "patcher"}
    [] m.cmd = "check" /\ ~m.apply /\ ~m.diff -> CheckSteps
    [] m.cmd = "strip" /\ m.apply -> StripSteps \cup {"planner", "writer"}
    [] m.cmd = "strip" /\ ~m.apply /\ m.diff -> StripSteps \cup {"comparer", "planner", "patcher"}
    [] m.cmd = "strip" /\ ~m.apply /\ ~m.diff -> StripSteps

\* Every pipeline of select_pipeline has the steps of its command, in order.
LEMMA PipelineShape ==
  ASSUME NEW m \in RunOptions
  PROVE  Shaped(SelectPipeline(m.cmd, m.apply, m.diff), PipelineSteps(m))
<1>1. Shaped(CheckPipeline, CheckSteps)
  <2>1. \A x \in ScanSteps, y \in {"builder", "renderer", "comparer"} : Rank(x) < Rank(y)
    BY DEF ScanSteps, Rank
  <2> QED BY <2>1, PieceShapes, JoinInOrder DEF CheckPipeline, CheckSteps
<1>2. Shaped(StripPipeline, StripSteps)
  <2>1. \A x \in ScanSteps, y \in {"stripper"} : Rank(x) < Rank(y)
    BY DEF ScanSteps, Rank
  <2> QED BY <2>1, PieceShapes, JoinInOrder DEF StripPipeline, StripSteps
<1>3. /\ Shaped(CheckPipeline \o <<"planner", "writer">>, CheckSteps \cup {"planner", "writer"})
      /\ Shaped(CheckPipeline \o <<"planner", "patcher">>, CheckSteps \cup {"planner", "patcher"})
  <2>1. \A x \in CheckSteps, y \in {"planner", "writer", "patcher"} : Rank(x) < Rank(y)
    BY DEF ScanSteps, CheckSteps, Rank
  <2> QED BY <1>1, <2>1, PieceShapes, JoinInOrder
<1>4. /\ Shaped(StripPipeline \o <<"planner", "writer">>, StripSteps \cup {"planner", "writer"})
      /\ Shaped(StripPipeline \o <<"comparer", "planner", "patcher">>,
                StripSteps \cup {"comparer", "planner", "patcher"})
  <2>1. \A x \in StripSteps, y \in {"comparer", "planner", "writer", "patcher"} :
          Rank(x) < Rank(y)
    BY DEF ScanSteps, StripSteps, Rank
  <2> QED BY <1>2, <2>1, PieceShapes, JoinInOrder
<1>5. CASE m.cmd = "probe"
  BY <1>5, PieceShapes DEF SelectPipeline, PipelineSteps
<1>6. CASE m.cmd = "check"
  BY <1>6, <1>1, <1>3 DEF SelectPipeline, PipelineSteps, RunOptions
<1>7. CASE m.cmd = "strip"
  BY <1>7, <1>2, <1>4 DEF SelectPipeline, PipelineSteps, RunOptions
<1> QED BY <1>5, <1>6, <1>7 DEF RunOptions

\* Taking the first step off.
LEMMA TakeFirst ==
  ASSUME NEW s \in Seq(Steps), s # <<>>, InOrder(s)
  PROVE  /\ s[1] \in Steps
         /\ Tail(s) \in Seq(Steps)
         /\ InOrder(Tail(s))
         /\ ToSet(s) = {s[1]} \cup ToSet(Tail(s))
         /\ \A step \in ToSet(Tail(s)) : Rank(s[1]) < Rank(step)
<1>1. /\ Tail(s) \in Seq(Steps)
      /\ Len(s) \in Nat \ {0} /\ Len(Tail(s)) = Len(s) - 1
      /\ \A i \in 1 .. Len(Tail(s)) : Tail(s)[i] = s[i+1]
  BY HeadTailProperties, EmptySeq
<1>2. InOrder(Tail(s))
  BY <1>1 DEF InOrder
<1>3. ASSUME NEW step \in ToSet(Tail(s))
      PROVE  step \in ToSet(s) /\ Rank(s[1]) < Rank(step)
  <2>1. PICK i \in 1..Len(Tail(s)) : step = Tail(s)[i]
    BY <1>1, <1>3 DEF ToSet
  <2>2. step = s[i+1] /\ i+1 \in 1..Len(s) /\ 1 < i+1
    BY <1>1, <2>1
  <2> QED BY <1>1, <2>2 DEF InOrder, ToSet
<1>4. ASSUME NEW step \in ToSet(s)
      PROVE  step = s[1] \/ step \in ToSet(Tail(s))
  <2>1. PICK i \in 1..Len(s) : step = s[i]
    BY <1>1, <1>4 DEF ToSet
  <2>2. CASE i # 1
    <3>1. i - 1 \in 1..Len(Tail(s)) /\ step = Tail(s)[i - 1]
      BY <1>1, <2>1, <2>2
    <3>2. DOMAIN Tail(s) = 1..Len(Tail(s))
      BY <1>1, LenProperties
    <3> HIDE DEF InOrder
    <3> QED BY <3>1, <3>2 DEF ToSet
  <2> QED BY <2>1, <2>2
<1>5. s[1] \in ToSet(s)
  BY <1>1 DEF ToSet
<1> QED BY <1>1, <1>2, <1>3, <1>4, <1>5, ElementOfSeq
------------------------------------------------------------------------------
(***************************************************************************)
(* One step settles.                                                       *)
(***************************************************************************)

\* Releasing views keeps those a later step consumes and drops or keeps the others.
LEMMA ReleaseKeeps ==
  ASSUME NEW v \in Views, NEW R
  PROVE  /\ Release(v, R) \in Views
         /\ "image" \in R => Release(v, R).image = v.image
         /\ "render" \in R => Release(v, R).render = v.render
         /\ "updated" \in R => Release(v, R).updated = v.updated
         /\ Release(v, R).image \in {v.image, None}
         /\ Release(v, R).header \in {v.header, None}
         /\ Release(v, R).updated \in {v.updated, None}
BY DEF Release, Views

\* What the steps still to come consume only shrinks.
LEMMA ConsumersShrink ==
  ASSUME NEW s, NEW t, ToSet(t) \subseteq ToSet(s)
  PROVE  RemainingConsumers(t) \subseteq RemainingConsumers(s)
BY DEF RemainingConsumers

\* The views the step at hand consumes are among those still needed.
LEMMA HeadConsumes ==
  ASSUME NEW s, NEW step \in ToSet(s)
  PROVE  ConsumesViews(step) \subseteq RemainingConsumers(s)
BY DEF RemainingConsumers

\* The axis each step is responsible for.
LEMMA AxisOfStep ==
  \A s : /\ PrimaryStatus("prober", s) = s.resolve
        /\ PrimaryStatus("resolver", s) = s.resolve
        /\ PrimaryStatus("sniffer", s) = s.fs
        /\ PrimaryStatus("reader", s) = s.content
        /\ PrimaryStatus("scanner", s) = s.header
        /\ PrimaryStatus("builder", s) = s.generation
        /\ PrimaryStatus("renderer", s) = s.render
        /\ PrimaryStatus("comparer", s) = s.comparison
        /\ PrimaryStatus("stripper", s) = s.strip
        /\ PrimaryStatus("planner", s) = s.plan
        /\ PrimaryStatus("patcher", s) = s.patch
        /\ PrimaryStatus("writer", s) = s.write
BY DEF PrimaryStatus

\* The step at hand: it is part of the pipeline, its axis is still undecided, and unless
\* the run is halted every earlier step of the pipeline has decided its own.
LEMMA StepAtHand ==
  ASSUME IInv, mode # None, todo # <<>>
  PROVE  /\ todo[1] \in Steps /\ todo[1] \in PipelineSteps(mode)
         /\ todo[1] \in ToSet(todo)
         /\ PrimaryStatus(todo[1], st) = "PENDING"
         /\ halt = None =>
              \A step \in PipelineSteps(mode) :
                Rank(step) < Rank(todo[1]) => PrimaryStatus(step, st) # "PENDING"
<1>1. /\ todo \in Seq(Steps) /\ InOrder(todo) /\ mode \in RunOptions
      /\ ToSet(todo) \subseteq ToSet(Pipeline)
  BY DEF IInv, TypeOK, TodoOfPipeline
<1>2. ToSet(Pipeline) = PipelineSteps(mode)
  BY <1>1, PipelineShape DEF Shaped, Pipeline
<1>3. \A step \in Steps : Rank(step) \in Nat
  BY RankOfSteps
<1>4. ASSUME NEW step \in PipelineSteps(mode), Rank(step) < Rank(todo[1]), halt = None
      PROVE  PrimaryStatus(step, st) # "PENDING"
  <2>1. PipelineSteps(mode) \subseteq Steps
    BY <1>1, PipelineShape, ElementOfSeq DEF Shaped, ToSet
  <2>2. step \notin ToSet(todo)
    BY <1>1, <1>3, <1>4, <2>1, TakeFirst
  <2> QED BY <1>2, <1>4, <2>2 DEF IInv, AxesDecidedInOrder
<1> QED BY <1>1, <1>2, <1>4, TakeFirst DEF IInv, AxesDecidedInOrder

\* A step has settled with status s and views v, and the part of the invariant that is
\* about the order of steps holds again.
Settled(s, stop, v) ==
  /\ st' = s /\ mode' = mode /\ setup' = setup /\ last' = last
  /\ todo' \in Seq(Steps) /\ halt' \in Steps \cup {None, "exception"} /\ views' \in Views
  /\ halt # None \/ stop => halt' # None
  /\ FreshBetweenRuns' /\ TodoOfPipeline' /\ AxesDecidedInOrder'
  /\ "image" \in RemainingConsumers(todo') =>
       "image" \in RemainingConsumers(todo) /\ views'.image = v.image
  /\ "render" \in RemainingConsumers(todo') =>
       "render" \in RemainingConsumers(todo) /\ views'.render = v.render
  /\ "updated" \in RemainingConsumers(todo') =>
       "updated" \in RemainingConsumers(todo) /\ views'.updated = v.updated
  /\ views'.image \in {v.image, None}
  /\ views'.header \in {v.header, None}
  /\ views'.updated \in {v.updated, None}

\* What settling does to the run, whatever the step: the part of the invariant about the
\* order of steps is kept when the step leaves the axes of later steps alone and reopens
\* none, and views that are still needed stay as the step left them.
LEMMA Settles ==
  ASSUME IInv, mode # None, todo # <<>>,
         NEW s \in ProcessingStatus, NEW stop \in BOOLEAN, NEW v \in Views,
         Settle(s, stop, v),
         \A step \in Steps : Rank(todo[1]) < Rank(step) =>
                             PrimaryStatus(step, s) = PrimaryStatus(step, st),
         \A step \in Steps : PrimaryStatus(step, st) # "PENDING" =>
                             PrimaryStatus(step, s) # "PENDING"
  PROVE  Settled(s, stop, v)
<1>1. /\ todo \in Seq(Steps) /\ InOrder(todo) /\ mode \in RunOptions
      /\ ToSet(todo) \subseteq ToSet(Pipeline) /\ halt \in Steps \cup {None, "exception"}
  BY DEF IInv, TypeOK, TodoOfPipeline
<1>2. /\ todo[1] \in Steps /\ Tail(todo) \in Seq(Steps) /\ InOrder(Tail(todo))
      /\ ToSet(todo) = {todo[1]} \cup ToSet(Tail(todo))
      /\ \A step \in ToSet(Tail(todo)) : Rank(todo[1]) < Rank(step)
  BY <1>1, TakeFirst
<1>3. /\ st' = s /\ mode' = mode /\ setup' = setup /\ last' = last /\ todo' = Tail(todo)
      /\ halt' = IF halt = None /\ (stop \/ PrimaryStatus(todo[1], s) = "PENDING")
                 THEN todo[1] ELSE halt
      /\ views' = Release(v, RemainingConsumers(Tail(todo)))
  BY DEF Settle
<1>4. halt' \in Steps \cup {None, "exception"}
  BY <1>1, <1>2, <1>3
<1>5. halt # None \/ stop \/ PrimaryStatus(todo[1], s) = "PENDING" => halt' # None
  BY <1>2, <1>3, NoneAssumption
<1>6. FreshBetweenRuns'
  BY <1>3 DEF FreshBetweenRuns
<1>7. TodoOfPipeline'
  <2>1. Pipeline' = Pipeline
    BY <1>3 DEF Pipeline
  <2>2. ASSUME NEW step \in ToSet(Tail(todo))
        PROVE  step \notin {"resolver", "prober"}
    BY <1>2, <2>2, RankOfSteps
  <2> QED BY <1>1, <1>2, <1>3, <2>1, <2>2 DEF TodoOfPipeline
<1>8. AxesDecidedInOrder'
  <2>1. Pipeline' = Pipeline
    BY <1>3 DEF Pipeline
  <2>2. ASSUME NEW step \in ToSet(todo')
        PROVE  PrimaryStatus(step, st') = "PENDING"
    <3>1. step \in Steps /\ Rank(todo[1]) < Rank(step) /\ step \in ToSet(todo)
      BY <1>2, <1>3, <2>2, ElementOfSeq DEF ToSet
    <3> QED BY <1>3, <3>1 DEF IInv, AxesDecidedInOrder
  <2>3. ASSUME halt' = None, NEW step \in ToSet(Pipeline') \ ToSet(todo')
        PROVE  PrimaryStatus(step, st') # "PENDING"
    <3>1. halt = None /\ PrimaryStatus(todo[1], s) # "PENDING"
      BY <1>5, <2>3
    <3>2. CASE step = todo[1]
      BY <1>3, <3>1, <3>2
    <3>3. CASE step # todo[1]
      <4>1. step \in ToSet(Pipeline) \ ToSet(todo)
        BY <1>2, <1>3, <2>1, <2>3, <3>3
      <4>2. step \in Steps
        BY <1>1, <4>1, PipelineShape, ElementOfSeq DEF Shaped, Pipeline, ToSet
      <4> QED BY <1>3, <3>1, <4>1, <4>2 DEF IInv, AxesDecidedInOrder
    <3> QED BY <3>2, <3>3
  <2> QED BY <2>2, <2>3 DEF AxesDecidedInOrder
<1>9. RemainingConsumers(todo') \subseteq RemainingConsumers(todo)
  BY <1>2, <1>3, ConsumersShrink
<1> QED BY <1>2, <1>3, <1>4, <1>5, <1>6, <1>7, <1>8, <1>9, ReleaseKeeps DEF Settled

\* The same for a step that writes no axis but its own.
LEMMA WritesOwnAxis ==
  ASSUME IInv, mode # None, todo # <<>>,
         NEW s \in ProcessingStatus, NEW stop \in BOOLEAN, NEW v \in Views,
         Settle(s, stop, v),
         \A step \in Steps \ {todo[1]} : PrimaryStatus(step, s) = PrimaryStatus(step, st)
  PROVE  Settled(s, stop, v)
<1>1. \A step \in Steps : Rank(todo[1]) < Rank(step) =>
                         PrimaryStatus(step, s) = PrimaryStatus(step, st)
  BY StepAtHand, RankOfSteps
<1>2. \A step \in Steps : PrimaryStatus(step, st) # "PENDING" =>
                         PrimaryStatus(step, s) # "PENDING"
  BY StepAtHand
<1> QED BY <1>1, <1>2, Settles

------------------------------------------------------------------------------
(***************************************************************************)
(* Every action keeps the inductive invariant.                             *)
(***************************************************************************)

\* A step whose gate is closed runs nothing, but passes through __call__.
LEMMA PassKeeps ==
  ASSUME IInv, Pass
  PROVE  IInv'
<1>1. /\ mode # None /\ todo # <<>> /\ Settle(st, FALSE, views)
      /\ UNCHANGED <<disk, access, facts, read>>
  BY DEF Pass
<1>2. st \in ProcessingStatus /\ views \in Views
  BY DEF IInv, TypeOK
<1>3. Settled(st, FALSE, views)
  BY <1>1, <1>2, Settles
<1>4. TypeOK'
  BY <1>1, <1>2, <1>3 DEF Settled, IInv, TypeOK
<1>5. ConsumedViewsKept' /\ HeaderIsInImage'
  BY <1>1, <1>2, <1>3 DEF Settled, IInv, ConsumedViewsKept, HeaderIsInImage
<1>6. DecidedFromBelow' /\ PlanRestsOnDecisions'
  BY <1>1, <1>2, <1>3 DEF Settled, IInv, DecidedFromBelow, PermittedByPolicy, policy,
                          PlanRestsOnDecisions
<1> QED BY <1>3, <1>4, <1>5, <1>6 DEF Settled, IInv

\* Resolver and prober only write the resolve axis.
LEMMA ResolvingKeeps ==
  ASSUME IInv, Resolver \/ Prober
  PROVE  IInv'
<1> DEFINE s == [st EXCEPT !.resolve = ftype.resolve]
<1>1. PICK stop \in BOOLEAN : /\ mode # None /\ todo # <<>> /\ Settle(s, stop, views)
                             /\ UNCHANGED <<disk, access, facts, read>>
  BY DEF Resolver, Prober, Running
<1>2. st \in ProcessingStatus /\ views \in Views /\ s \in ProcessingStatus
  <2>1. ftype.resolve \in ResolveStatus
    BY SetupsAssumption DEF IInv, TypeOK, ftype, FileType
  <2> QED BY <2>1 DEF IInv, TypeOK, ProcessingStatus
<1>3. s.resolve # "PENDING"
  BY <1>2, SetupsAssumption DEF IInv, TypeOK, ftype, FileType, ProcessingStatus
<1>4. Settled(s, stop, views)
  <2>1. \A step \in Steps : \/ step \in {"resolver", "prober"}
                           \/ PrimaryStatus(step, s) = PrimaryStatus(step, st)
    BY <1>2, AxisOfStep DEF Steps, ProcessingStatus
  <2>2. \A step \in Steps : Rank(todo[1]) < Rank(step) =>
                             PrimaryStatus(step, s) = PrimaryStatus(step, st)
    BY <1>1, <2>1, StepAtHand, RankOfSteps
  <2>3. \A step \in Steps : PrimaryStatus(step, st) # "PENDING" =>
                             PrimaryStatus(step, s) # "PENDING"
    BY <1>3, <2>1, AxisOfStep
  <2> HIDE DEF s
  <2> QED BY <1>1, <1>2, <2>2, <2>3, Settles
<1>5. TypeOK'
  BY <1>1, <1>2, <1>4 DEF Settled, IInv, TypeOK
<1>6. ConsumedViewsKept' /\ HeaderIsInImage'
  BY <1>1, <1>2, <1>4 DEF Settled, IInv, ConsumedViewsKept, HeaderIsInImage, ProcessingStatus
<1>7. DecidedFromBelow' /\ PlanRestsOnDecisions'
  BY <1>1, <1>2, <1>4 DEF Settled, IInv, DecidedFromBelow, PermittedByPolicy, policy,
                          PlanRestsOnDecisions, ProcessingStatus
<1> QED BY <1>4, <1>5, <1>6, <1>7 DEF Settled, IInv

\* The sniffer only writes the file system axis, and what it saw of the first line.
LEMMA SniffingKeeps ==
  ASSUME IInv, Sniffer
  PROVE  IInv'
<1>1. PICK fs \in FsStatus \ {"PENDING"}, stop \in BOOLEAN :
        /\ mode # None /\ todo # <<>> /\ todo[1] = "sniffer"
        /\ Settle([st EXCEPT !.fs = fs], stop, views)
        /\ facts' \in Facts
        /\ UNCHANGED <<disk, access, read>>
  <2>1. PICK fs \in {IF SnifferStat = "open" THEN SniffStream ELSE SnifferStat}
                     \cup (IF SnifferStat = "open" /\ IOMayFail THEN {"UNREADABLE"} ELSE {}) :
       /\ Settle([st EXCEPT !.fs = fs],
                 fs \notin {"OK", "EMPTY", "BOM_BEFORE_SHEBANG", "MIXED_LINE_ENDINGS"}, views)
       /\ facts' = IF fs \in {"OK", "BOM_BEFORE_SHEBANG", "UNICODE_DECODE_ERROR",
                              "MIXED_LINE_ENDINGS"}
                   THEN [facts EXCEPT !.bom = disk.bom, !.shebang = disk.shebang] ELSE facts
    BY DEF Sniffer
  <2>2. fs \in FsStatus \ {"PENDING"}
    BY <2>1 DEF SnifferStat, SniffStream, FsStatus
  <2>3. fs \in {"OK", "BOM_BEFORE_SHEBANG", "UNICODE_DECODE_ERROR", "MIXED_LINE_ENDINGS"}
          => disk \in FileContent
    BY <2>1 DEF SnifferStat, SniffStream, IInv, TypeOK
  <2>4. facts' \in Facts
    BY <2>1, <2>3 DEF IInv, TypeOK, Facts, FileContent
  <2> QED BY <2>1, <2>2, <2>4 DEF Sniffer, Running
<1> DEFINE s == [st EXCEPT !.fs = fs]
<1>2. /\ st \in ProcessingStatus /\ views \in Views /\ s \in ProcessingStatus
      /\ Settle(s, stop, views)
  BY <1>1 DEF IInv, TypeOK, ProcessingStatus
<1>3. Settled(s, stop, views)
  <2>1. \A step \in Steps \ {"sniffer"} : PrimaryStatus(step, s) = PrimaryStatus(step, st)
    BY <1>2, AxisOfStep DEF Steps, ProcessingStatus
  <2> HIDE DEF s
  <2> QED BY <1>1, <1>2, <2>1, WritesOwnAxis
<1>4. TypeOK'
  BY <1>1, <1>2, <1>3 DEF Settled, IInv, TypeOK
<1>5. ConsumedViewsKept' /\ HeaderIsInImage'
  BY <1>1, <1>2, <1>3 DEF Settled, IInv, ConsumedViewsKept, HeaderIsInImage, DecidedFromBelow,
                          ProcessingStatus, Views
<1>6. DecidedFromBelow' /\ PlanRestsOnDecisions'
  BY <1>1, <1>2, <1>3 DEF Settled, IInv, DecidedFromBelow, PermittedByPolicy, policy,
                          PlanRestsOnDecisions, ProcessingStatus, Views
<1> QED BY <1>3, <1>4, <1>5, <1>6 DEF Settled, IInv


\* A reader that refuses or fails leaves no content.
LEMMA NotReadingKeeps ==
  ASSUME IInv, ReaderRefuses \/ ReaderFails
  PROVE  IInv'
<1>1. PICK content \in ContentStatus \ {"PENDING", "OK"}, stop \in {TRUE} :
        /\ mode # None /\ todo # <<>> /\ todo[1] = "reader"
        /\ Settle([st EXCEPT !.content = content], stop, views)
        /\ facts' \in Facts
        /\ UNCHANGED <<disk, access, read>>
  <2>1. CASE ReaderRefuses
    BY <2>1 DEF ReaderRefuses, Running, ReaderGate, ContentStatus, IInv, TypeOK
  <2>2. CASE ReaderFails
    BY <2>2 DEF ReaderFails, Running, ContentStatus, IInv, TypeOK, Facts
  <2> QED BY <2>1, <2>2
<1> DEFINE s == [st EXCEPT !.content = content]
<1>2. /\ st \in ProcessingStatus /\ views \in Views /\ s \in ProcessingStatus
      /\ Settle(s, stop, views) /\ st.content = "PENDING"
  BY <1>1, StepAtHand, AxisOfStep DEF IInv, TypeOK, ProcessingStatus
<1>3. Settled(s, stop, views)
  <2>1. \A step \in Steps \ {"reader"} : PrimaryStatus(step, s) = PrimaryStatus(step, st)
    BY <1>2, AxisOfStep DEF Steps, ProcessingStatus
  <2> HIDE DEF s
  <2> QED BY <1>1, <1>2, <2>1, WritesOwnAxis
<1>4. TypeOK'
  BY <1>1, <1>2, <1>3 DEF Settled, IInv, TypeOK
<1>5. ConsumedViewsKept' /\ HeaderIsInImage'
  BY <1>1, <1>2, <1>3 DEF Settled, IInv, ConsumedViewsKept, HeaderIsInImage, DecidedFromBelow,
                          ProcessingStatus, Views
<1>6. DecidedFromBelow' /\ PlanRestsOnDecisions'
  BY <1>1, <1>2, <1>3 DEF Settled, IInv, DecidedFromBelow, PermittedByPolicy, policy,
                          PlanRestsOnDecisions, ProcessingStatus, Views
<1> QED BY <1>3, <1>4, <1>5, <1>6 DEF Settled, IInv


\* When the reader runs the sniffer has had its say.
LEMMA ReaderAtHand ==
  ASSUME IInv, Running("reader")
  PROVE  /\ mode # None /\ todo # <<>> /\ todo[1] = "reader" /\ halt = None
         /\ st.fs # "PENDING"
<1>1. mode # None /\ todo # <<>> /\ todo[1] = "reader" /\ halt = None
  BY DEF Running, MayProceed, Gate
<1>2. "sniffer" \in PipelineSteps(mode)
  BY <1>1, StepAtHand DEF IInv, TypeOK, RunOptions, PipelineSteps, CheckSteps, StripSteps, ScanSteps
<1>3. PrimaryStatus("sniffer", st) # "PENDING"
  BY <1>1, <1>2, StepAtHand DEF Rank
<1> QED BY <1>1, <1>3, AxisOfStep

\* A reader that read the file has its image.
LEMMA ReadingKeeps ==
  ASSUME IInv, ReaderFindsEmpty \/ ReaderLoads
  PROVE  IInv'
<1>1. PICK fs \in FsStatus \ {"PENDING"}, content \in ContentStatus \ {"PENDING"},
           stop \in BOOLEAN, image \in FileContent :
        /\ mode # None /\ todo # <<>> /\ todo[1] = "reader"
        /\ Settle([st EXCEPT !.fs = fs, !.content = content], stop, [views EXCEPT !.image = image])
        /\ facts' \in Facts
        /\ read' \in FileContent
        /\ UNCHANGED <<disk, access>>
  <2>1. CASE ReaderFindsEmpty
    <3>1. /\ Settle([st EXCEPT !.fs = "EMPTY", !.content = "OK"], FALSE, [views EXCEPT !.image = disk])
          /\ disk \in FileContent
      BY <2>1 DEF ReaderFindsEmpty, IInv, TypeOK
    <3> QED BY <2>1, <3>1
            DEF ReaderFindsEmpty, Running, FsStatus, ContentStatus, IInv, TypeOK, Facts
  <2>2. CASE ReaderLoads
    <3> DEFINE text == Decoded(disk)
               refused == MixedEol(text) /\ policy.mixed = "reject"
               cap == IF ftype.checker /\ ~refused THEN Capability(text) ELSE facts.cap
               reflow == ftype.checker /\ cap = "REFLOW" /\ ~policy.reflow
               content == IF refused THEN "SKIPPED_MIXED_LINE_ENDINGS"
                          ELSE IF reflow THEN "SKIPPED_REFLOW" ELSE "OK"
               fs == IF MixedEol(text) /\ ~refused THEN "MIXED_LINE_ENDINGS" ELSE st.fs
    <3>1. /\ Settle([st EXCEPT !.content = content, !.fs = fs], refused \/ reflow,
                    [views EXCEPT !.image = text])
          /\ facts' = [facts EXCEPT !.bom = @ \/ disk.bom, !.cap = cap,
                                    !.leff = EffectivelyEmpty(text), !.llog = LogicallyEmpty(text)]
          /\ read' = disk /\ disk \in FileContent
      BY <2>2 DEF ReaderLoads, IInv, TypeOK
    <3>2. text \in FileContent
      BY <3>1 DEF Decoded, FileContent, Encodings, Undecodable
    <3>3. cap \in Capabilities \cup {"UNEVALUATED"}
      BY <3>2 DEF Capability, FileContent, Capabilities, IInv, TypeOK, Facts
    <3>4. facts' \in Facts
      <4>1. EffectivelyEmpty(text) \in BOOLEAN /\ LogicallyEmpty(text) \in BOOLEAN
        BY <3>2 DEF FileContent, EffectivelyEmpty, LogicallyEmpty
      <4>2. (facts.bom \/ disk.bom) \in BOOLEAN
        OBVIOUS
      <4> HIDE DEF text, cap
      <4> QED BY <3>1, <3>3, <4>1, <4>2 DEF IInv, TypeOK, Facts
    <3>5. fs \in FsStatus \ {"PENDING"}
      <4>1. st.fs # "PENDING"
        BY <2>2, ReaderAtHand DEF ReaderLoads
      <4> QED BY <4>1 DEF IInv, TypeOK, ProcessingStatus, FsStatus
    <3>6. /\ mode # None /\ todo # <<>> /\ todo[1] = "reader"
          /\ UNCHANGED <<disk, access>>
      BY <2>2 DEF ReaderLoads, Running
    <3>7. content \in ContentStatus \ {"PENDING"} /\ (refused \/ reflow) \in BOOLEAN
      BY DEF ContentStatus
    <3>8. [st EXCEPT !.content = content, !.fs = fs] = [st EXCEPT !.fs = fs, !.content = content]
      BY DEF IInv, TypeOK, ProcessingStatus
    <3> HIDE DEF text, refused, cap, reflow, content, fs
    <3> QED BY <3>1, <3>2, <3>4, <3>5, <3>6, <3>7, <3>8
  <2> QED BY <2>1, <2>2
<1> DEFINE s == [st EXCEPT !.fs = fs, !.content = content]
           v == [views EXCEPT !.image = image]
<1>2. /\ st \in ProcessingStatus /\ v \in Views /\ s \in ProcessingStatus
      /\ Settle(s, stop, v) /\ st.content = "PENDING"
      /\ v.image = image /\ image # None
  BY <1>1, StepAtHand, AxisOfStep, NoneAssumption DEF IInv, TypeOK, ProcessingStatus, Views
<1>3. Settled(s, stop, v)
  <2>0. /\ s.resolve = st.resolve /\ s.header = st.header /\ s.generation = st.generation
        /\ s.render = st.render /\ s.comparison = st.comparison /\ s.strip = st.strip
        /\ s.plan = st.plan /\ s.patch = st.patch /\ s.write = st.write
        /\ s.content = content /\ s.fs = fs
    BY <1>2 DEF ProcessingStatus
  <2> HIDE DEF s, v
  <2>1. \A step \in Steps \ {"reader", "sniffer"} : PrimaryStatus(step, s) = PrimaryStatus(step, st)
    BY <2>0, AxisOfStep DEF Steps
  <2>2. \A step \in Steps : Rank(todo[1]) < Rank(step) =>
                             PrimaryStatus(step, s) = PrimaryStatus(step, st)
    BY <1>1, <2>1 DEF Rank, Steps
  <2>3. PrimaryStatus("reader", s) # "PENDING" /\ PrimaryStatus("sniffer", s) # "PENDING"
    BY <1>1, <2>0, AxisOfStep
  <2>4. \A step \in Steps : PrimaryStatus(step, st) # "PENDING" =>
                             PrimaryStatus(step, s) # "PENDING"
    BY <2>1, <2>3
  <2> QED BY <1>1, <1>2, <2>2, <2>4, Settles
<1>4. TypeOK'
  BY <1>1, <1>2, <1>3 DEF Settled, IInv, TypeOK
<1>5. ConsumedViewsKept' /\ HeaderIsInImage'
  BY <1>1, <1>2, <1>3 DEF Settled, IInv, ConsumedViewsKept, HeaderIsInImage, DecidedFromBelow,
                          ProcessingStatus, Views
<1>6. DecidedFromBelow' /\ PlanRestsOnDecisions'
  BY <1>1, <1>2, <1>3 DEF Settled, IInv, DecidedFromBelow, PermittedByPolicy, policy,
                          PlanRestsOnDecisions, ProcessingStatus, Views
<1> QED BY <1>3, <1>4, <1>5, <1>6 DEF Settled, IInv


\* The view slots a step consumes are still there when its turn comes.
LEMMA InputsAtHand ==
  ASSUME IInv, mode # None, todo # <<>>
  PROVE  /\ st.content = "OK" /\ todo[1] \in {"scanner", "stripper", "planner"}
              => views.image \in FileContent
         /\ st.render = "RENDERED" /\ todo[1] = "planner" => views.render \in RenderedKinds
         /\ st.strip = "READY" /\ todo[1] = "planner" => views.updated \in FileContent
<1>1. ConsumesViews(todo[1]) \subseteq RemainingConsumers(todo)
  BY StepAtHand, HeadConsumes
<1>2. views \in Views
  BY DEF IInv, TypeOK
<1>3. CASE todo[1] = "scanner"
  BY <1>1, <1>2, <1>3 DEF ConsumesViews, IInv, ConsumedViewsKept, Views
<1>4. CASE todo[1] = "stripper"
  BY <1>1, <1>2, <1>4 DEF ConsumesViews, IInv, ConsumedViewsKept, Views
<1>5. CASE todo[1] = "planner"
  BY <1>1, <1>2, <1>5 DEF ConsumesViews, IInv, ConsumedViewsKept, Views
<1> QED BY <1>3, <1>4, <1>5

\* Which command a step belongs to, and what has been decided when its turn comes.
LEMMA WhoseStep ==
  ASSUME IInv, mode # None, todo # <<>>
  PROVE  /\ todo[1] \in {"builder", "renderer"} => mode.cmd = "check"
         /\ todo[1] = "stripper" => mode.cmd = "strip"
         /\ todo[1] = "patcher" => ~mode.apply
         /\ todo[1] \in {"builder", "renderer", "stripper", "planner"} /\ halt = None
              => st.header \notin {"PENDING", "MALFORMED"}
         /\ todo[1] = "planner" /\ mode.cmd = "check" /\ halt = None
              => st.comparison \in {"CHANGED", "UNCHANGED"}
<1>1. mode \in RunOptions /\ st \in ProcessingStatus
  BY DEF IInv, TypeOK
<1>2. todo[1] \in PipelineSteps(mode)
  BY StepAtHand
<1>3. /\ todo[1] \in {"builder", "renderer"} => mode.cmd = "check"
      /\ todo[1] = "stripper" => mode.cmd = "strip"
      /\ todo[1] = "patcher" => ~mode.apply
      /\ todo[1] \in {"builder", "renderer", "stripper", "planner"}
           => "scanner" \in PipelineSteps(mode)
      /\ todo[1] = "planner" /\ mode.cmd = "check" => "comparer" \in PipelineSteps(mode)
  BY <1>1, <1>2 DEF RunOptions, PipelineSteps, CheckSteps, StripSteps, ScanSteps
<1>4. /\ Rank("scanner") = 4 /\ Rank("comparer") = 8 /\ Rank("planner") = 9
      /\ Rank("builder") = 5 /\ Rank("renderer") = 6 /\ Rank("stripper") = 7
  BY DEF Rank
<1>5. todo[1] \in {"builder", "renderer", "stripper", "planner"} /\ halt = None
        => st.header \notin {"PENDING", "MALFORMED"}
  BY <1>3, <1>4, StepAtHand, AxisOfStep DEF IInv, DecidedFromBelow
<1>6. todo[1] = "planner" /\ mode.cmd = "check" /\ halt = None
        => st.comparison \in {"CHANGED", "UNCHANGED"}
  BY <1>1, <1>3, <1>4, StepAtHand, AxisOfStep
     DEF IInv, DecidedFromBelow, ProcessingStatus, ComparisonStatus
<1> QED BY <1>3, <1>5, <1>6

\* What the scanner finds is a block of the image.
LEMMA ScanningKeeps ==
  ASSUME IInv, Scanner
  PROVE  IInv'
<1> DEFINE s == [st EXCEPT !.header = ScannedStatus]
           v == [views EXCEPT !.header = IF ScannedHeader = "missing" THEN None ELSE ScannedHeader]
<1>1. PICK stop \in BOOLEAN :
        /\ mode # None /\ todo # <<>> /\ todo[1] = "scanner" /\ st.content = "OK"
        /\ Settle(s, stop, v)
        /\ ScannedStatus = "MALFORMED" => stop
        /\ UNCHANGED <<disk, access, facts, read>>
  BY DEF Scanner, Running, MayProceed, Gate
<1>0. /\ ScannedHeader \in HeaderKinds \cup {"missing"}
      /\ ScannedHeader # "missing" => views.image.headers # <<>>
      /\ views.image \in FileContent
  <2>1. views.image \in FileContent
    BY <1>1, InputsAtHand
  <2> QED BY <2>1, ElementOfSeq, EmptySeq DEF ScannedHeader, TopHeader, FileContent, HeaderKinds
<1>2. /\ st \in ProcessingStatus /\ v \in Views /\ s \in ProcessingStatus
      /\ Settle(s, stop, v) /\ st.header = "PENDING"
      /\ ScannedHeader = "missing" <=> ScannedStatus = "MISSING"
      /\ v.header # None \/ ScannedStatus # "MISSING" => views.image.headers # <<>>
      /\ v.image = views.image
  BY <1>1, <1>0, StepAtHand, AxisOfStep
     DEF IInv, TypeOK, ProcessingStatus, Views, ScannedStatus, HeaderStatus, HeaderKinds
<1>3. Settled(s, stop, v)
  <2>1. \A step \in Steps \ {"scanner"} : PrimaryStatus(step, s) = PrimaryStatus(step, st)
    BY <1>2, AxisOfStep DEF Steps, ProcessingStatus
  <2> HIDE DEF s, v
  <2> QED BY <1>1, <1>2, <2>1, WritesOwnAxis
<1>4. TypeOK'
  BY <1>1, <1>2, <1>3 DEF Settled, IInv, TypeOK
<1>5. ConsumedViewsKept' /\ HeaderIsInImage'
  BY <1>1, <1>2, <1>3 DEF Settled, IInv, ConsumedViewsKept, HeaderIsInImage, DecidedFromBelow,
                          ProcessingStatus, Views
<1>6. DecidedFromBelow' /\ PlanRestsOnDecisions'
  BY <1>1, <1>2, <1>3 DEF Settled, IInv, DecidedFromBelow, PermittedByPolicy, policy,
                          PlanRestsOnDecisions, ProcessingStatus, Views
<1> QED BY <1>3, <1>4, <1>5, <1>6 DEF Settled, IInv


\* The builder runs for check only, after the scanner, when the policy permits.
LEMMA BuildingKeeps ==
  ASSUME IInv, Builder
  PROVE  IInv'
<1>1. PICK generation \in GenerationStatus \ {"PENDING"}, stop \in BOOLEAN, v \in Views :
        /\ mode # None /\ todo # <<>> /\ todo[1] = "builder" /\ st.content = "OK"
        /\ halt = None
        /\ Settle([st EXCEPT !.generation = generation], stop, v)
        /\ generation \in {"GENERATED", "NO_FIELDS"} => PermittedByPolicy(st, policy)
        /\ v.image = views.image /\ v.header = views.header /\ v.updated = views.updated
        /\ v.render = views.render
        /\ UNCHANGED <<disk, access, facts, read>>
  <2> DEFINE generation == IF ~PermittedByPolicy(st, policy) THEN "SKIPPED"
                           ELSE IF setup.fields = "none" THEN "NO_FIELDS" ELSE "GENERATED"
             v == IF generation = "GENERATED" THEN [views EXCEPT !.build = Selected] ELSE views
  <2>1. generation \in GenerationStatus \ {"PENDING"}
    BY DEF GenerationStatus
  <2>2. /\ v \in Views /\ v.image = views.image /\ v.header = views.header
        /\ v.updated = views.updated /\ v.render = views.render
    BY DEF Views, Selected, RenderedKinds, IInv, TypeOK
  <2>3. /\ Settle([st EXCEPT !.generation = generation], generation = "SKIPPED", v)
        /\ UNCHANGED <<disk, access, facts, read>>
        /\ mode # None /\ todo # <<>> /\ todo[1] = "builder" /\ st.content = "OK"
        /\ halt = None
    BY DEF Builder, Running, MayProceed, Gate
  <2>4. generation \in {"GENERATED", "NO_FIELDS"} => PermittedByPolicy(st, policy)
    OBVIOUS
  <2>5. (generation = "SKIPPED") \in BOOLEAN
    OBVIOUS
  <2> HIDE DEF generation, v
  <2> QED BY <2>1, <2>2, <2>3, <2>4, <2>5
<1> DEFINE s == [st EXCEPT !.generation = generation]
<1>2. /\ st \in ProcessingStatus /\ s \in ProcessingStatus
      /\ Settle(s, stop, v) /\ st.generation = "PENDING"
      /\ mode.cmd = "check" /\ st.header \notin {"PENDING", "MALFORMED"}
  BY <1>1, StepAtHand, AxisOfStep, WhoseStep DEF IInv, TypeOK, ProcessingStatus
<1>3. Settled(s, stop, v)
  <2>1. \A step \in Steps \ {"builder"} : PrimaryStatus(step, s) = PrimaryStatus(step, st)
    BY <1>2, AxisOfStep DEF Steps, ProcessingStatus
  <2> HIDE DEF s
  <2> QED BY <1>1, <1>2, <2>1, WritesOwnAxis
<1>4. TypeOK'
  BY <1>1, <1>2, <1>3 DEF Settled, IInv, TypeOK
<1>5. ConsumedViewsKept' /\ HeaderIsInImage'
  BY <1>1, <1>2, <1>3 DEF Settled, IInv, ConsumedViewsKept, HeaderIsInImage, DecidedFromBelow,
                          ProcessingStatus, Views
<1>6. DecidedFromBelow' /\ PlanRestsOnDecisions'
  BY <1>1, <1>2, <1>3 DEF Settled, IInv, DecidedFromBelow, PermittedByPolicy, policy,
                          PlanRestsOnDecisions, ProcessingStatus, Views
<1> QED BY <1>3, <1>4, <1>5, <1>6 DEF Settled, IInv


\* An uncaught exception ends the run; nothing is left to do.
LEMMA RaisingKeeps ==
  ASSUME IInv, BuilderRaises
  PROVE  IInv'
<1>1. /\ mode # None /\ halt' = "exception" /\ todo' = <<>>
      /\ UNCHANGED <<setup, disk, access, mode, st, facts, views, read, last>>
  BY DEF BuilderRaises, Running
<1>2. ToSet(todo') = {} /\ InOrder(todo') /\ todo' \in Seq(Steps) /\ RemainingConsumers(todo') = {}
  BY <1>1 DEF ToSet, InOrder, RemainingConsumers
<1>3. halt' # None
  BY <1>1, NoneAssumption
<1>4. TypeOK' /\ FreshBetweenRuns' /\ TodoOfPipeline' /\ AxesDecidedInOrder'
  BY <1>1, <1>2, <1>3 DEF IInv, TypeOK, FreshBetweenRuns, TodoOfPipeline, AxesDecidedInOrder
<1>5. ConsumedViewsKept' /\ HeaderIsInImage' /\ DecidedFromBelow' /\ PlanRestsOnDecisions'
  BY <1>1, <1>2, <1>3 DEF IInv, ConsumedViewsKept, HeaderIsInImage, DecidedFromBelow,
                          PermittedByPolicy, policy, PlanRestsOnDecisions
<1> QED BY <1>4, <1>5 DEF IInv

\* The renderer leaves lines whenever it reports success.
LEMMA RenderingKeeps ==
  ASSUME IInv, Renderer
  PROVE  IInv'
<1>1. PICK render \in RenderStatus \ {"PENDING"}, stop \in BOOLEAN, v \in Views :
        /\ mode # None /\ todo # <<>> /\ todo[1] = "renderer"
        /\ st.generation \in {"GENERATED", "NO_FIELDS"}
        /\ Settle([st EXCEPT !.render = render], stop, v)
        /\ render = "RENDERED" => v.render \in RenderedKinds
        /\ v.image = views.image /\ v.header = views.header /\ v.updated = views.updated
        /\ UNCHANGED <<disk, access, facts, read>>
  <2> DEFINE noFields == st.generation = "NO_FIELDS"
             result == IF noFields THEN (IF policy.renderEmpty THEN "empty" ELSE "nolines")
                       ELSE IF setup.fields = "invalid" THEN "failed"
                       ELSE IF views.build = None THEN "missing" ELSE views.build
             status == CASE result = "nolines" -> "SKIPPED"
                         [] result = "failed" -> "FAILED"
                         [] OTHER -> "RENDERED"
             v == IF result = "failed" THEN views ELSE [views EXCEPT !.render = result]
  <2>1. result \in RenderedKinds \cup {"nolines", "failed"}
    BY DEF IInv, TypeOK, Views, RenderedKinds
  <2>2. /\ status \in RenderStatus \ {"PENDING"}
        /\ status = "RENDERED" => result \in RenderedKinds
    BY <2>1 DEF RenderStatus, RenderedKinds
  <2>3. /\ v \in Views /\ v.image = views.image /\ v.header = views.header
        /\ v.updated = views.updated
        /\ status = "RENDERED" => v.render \in RenderedKinds
    BY <2>1, <2>2 DEF IInv, TypeOK, Views, RenderedKinds
  <2>4. /\ Settle([st EXCEPT !.render = status], status # "RENDERED", v)
        /\ UNCHANGED <<disk, access, facts, read>>
        /\ mode # None /\ todo # <<>> /\ todo[1] = "renderer"
        /\ st.generation \in {"GENERATED", "NO_FIELDS"}
    BY DEF Renderer, Running, MayProceed, Gate
  <2>5. (status # "RENDERED") \in BOOLEAN
    OBVIOUS
  <2> HIDE DEF noFields, result, status, v
  <2> QED BY <2>2, <2>3, <2>4, <2>5
<1> DEFINE s == [st EXCEPT !.render = render]
<1>2. /\ st \in ProcessingStatus /\ s \in ProcessingStatus
      /\ Settle(s, stop, v) /\ st.render = "PENDING" /\ mode.cmd = "check"
  BY <1>1, StepAtHand, AxisOfStep, WhoseStep DEF IInv, TypeOK, ProcessingStatus
<1>3. Settled(s, stop, v)
  <2>1. \A step \in Steps \ {"renderer"} : PrimaryStatus(step, s) = PrimaryStatus(step, st)
    BY <1>2, AxisOfStep DEF Steps, ProcessingStatus
  <2> HIDE DEF s
  <2> QED BY <1>1, <1>2, <2>1, WritesOwnAxis
<1>4. TypeOK'
  BY <1>1, <1>2, <1>3 DEF Settled, IInv, TypeOK
<1>5. ConsumedViewsKept' /\ HeaderIsInImage'
  BY <1>1, <1>2, <1>3 DEF Settled, IInv, ConsumedViewsKept, HeaderIsInImage, DecidedFromBelow,
                          ProcessingStatus, Views
<1>6. DecidedFromBelow' /\ PlanRestsOnDecisions'
  BY <1>1, <1>2, <1>3 DEF Settled, IInv, DecidedFromBelow, PermittedByPolicy, policy,
                          PlanRestsOnDecisions, ProcessingStatus, Views
<1> QED BY <1>3, <1>4, <1>5, <1>6 DEF Settled, IInv


\* The comparer compares well-formed headers only.
LEMMA ComparingKeeps ==
  ASSUME IInv, Comparer
  PROVE  IInv'
<1>1. PICK comparison \in ComparisonStatus \ {"PENDING"}, stop \in BOOLEAN :
        /\ mode # None /\ todo # <<>> /\ todo[1] = "comparer"
        /\ st.render = "RENDERED" \/ views.updated # None
        /\ Settle([st EXCEPT !.comparison = comparison], stop, views)
        /\ IF st.header \in {"MALFORMED_ALL_FIELDS", "MALFORMED_SOME_FIELDS"}
           THEN comparison = "SKIPPED" /\ stop
           ELSE comparison \in {"CHANGED", "UNCHANGED"}
        /\ UNCHANGED <<disk, access, facts, read>>
  <2> DEFINE malformed == st.header \in {"MALFORMED_ALL_FIELDS", "MALFORMED_SOME_FIELDS"}
             changed == \/ views.edit = "single"
                        \/ views.updated # None /\ views.updated # views.image
                        \/ views.updated = None /\ ExistingHeader # views.render
                        \/ views.updated = None /\ ShouldRemoveBom(st, policy, facts)
             comparison == IF malformed THEN "SKIPPED"
                           ELSE IF changed THEN "CHANGED" ELSE "UNCHANGED"
  <2>1. /\ mode # None /\ todo # <<>> /\ todo[1] = "comparer"
        /\ st.render = "RENDERED" \/ views.updated # None
        /\ Settle([st EXCEPT !.comparison = comparison], malformed, views)
        /\ UNCHANGED <<disk, access, facts, read>>
    BY DEF Comparer, Running, MayProceed, Gate
  <2>2. /\ IF malformed THEN comparison = "SKIPPED" ELSE comparison \in {"CHANGED", "UNCHANGED"}
        /\ malformed \in BOOLEAN /\ comparison \in ComparisonStatus \ {"PENDING"}
    BY DEF ComparisonStatus
  <2> HIDE DEF changed, comparison
  <2> QED BY <2>1, <2>2
<1> DEFINE s == [st EXCEPT !.comparison = comparison]
<1>2. /\ st \in ProcessingStatus /\ s \in ProcessingStatus /\ views \in Views
      /\ Settle(s, stop, views) /\ st.comparison = "PENDING"
  BY <1>1, StepAtHand, AxisOfStep DEF IInv, TypeOK, ProcessingStatus
<1>3. Settled(s, stop, views)
  <2>1. \A step \in Steps \ {"comparer"} : PrimaryStatus(step, s) = PrimaryStatus(step, st)
    BY <1>2, AxisOfStep DEF Steps, ProcessingStatus
  <2> HIDE DEF s
  <2> QED BY <1>1, <1>2, <2>1, WritesOwnAxis
<1>4. TypeOK'
  BY <1>1, <1>2, <1>3 DEF Settled, IInv, TypeOK
<1>5. ConsumedViewsKept' /\ HeaderIsInImage'
  BY <1>1, <1>2, <1>3 DEF Settled, IInv, ConsumedViewsKept, HeaderIsInImage, DecidedFromBelow,
                          ProcessingStatus, Views
<1>6. DecidedFromBelow' /\ PlanRestsOnDecisions'
  BY <1>1, <1>2, <1>3 DEF Settled, IInv, DecidedFromBelow, PermittedByPolicy, policy,
                          PlanRestsOnDecisions, ProcessingStatus, Views
<1> QED BY <1>3, <1>4, <1>5, <1>6 DEF Settled, IInv


\* The BOM put in front of an updated text is one the sniffer or the reader saw.
LEMMA BomIsBoolean == IInv => KeptBom \in BOOLEAN
BY DEF IInv, TypeOK, Facts, KeptBom

\* A text made ready by the stripper is there until the planner has used it.
LEMMA StrippingKeeps ==
  ASSUME IInv, Stripper
  PROVE  IInv'
<1>1. PICK strip \in StripStatus \ {"PENDING"}, stop \in BOOLEAN, v \in Views :
        /\ mode # None /\ todo # <<>> /\ todo[1] = "stripper" /\ halt = None
        /\ st.content = "OK"
        /\ Settle([st EXCEPT !.strip = strip], stop, v)
        /\ v.image = views.image /\ v.header = views.header /\ v.render = views.render
        /\ IF strip = "READY" THEN v.updated # None ELSE v.updated = views.updated
        /\ UNCHANGED <<disk, access, facts, read>>
  <2> DEFINE found == st.header \in {"DETECTED", "EMPTY"}
             nothing == st.header = "MISSING" /\ ~ShouldRemoveBom(st, policy, facts)
             status == IF nothing THEN "NOT_NEEDED"
                       ELSE IF found \/ st.header = "MISSING" THEN "READY" ELSE "FAILED"
             stripped == IF found THEN [Stripped(views.image) EXCEPT !.bom = KeptBom]
                         ELSE views.image
             v == IF status = "READY"
                  THEN [views EXCEPT !.updated = stripped, !.edit = "single"] ELSE views
  <2>1. /\ mode # None /\ todo # <<>> /\ todo[1] = "stripper" /\ halt = None
        /\ st.content = "OK"
        /\ Settle([st EXCEPT !.strip = status], status = "FAILED", v)
        /\ UNCHANGED <<disk, access, facts, read>>
    BY DEF Stripper, Running, MayProceed, Gate
  <2>2. views.image \in FileContent
    BY <2>1, InputsAtHand
  <2>3. stripped \in FileContent
    <3>1. CASE found
      <4>1. views.image.headers # <<>> /\ views.image.headers \in Seq(HeaderKinds)
        BY <2>2, <3>1, NoneAssumption DEF IInv, HeaderIsInImage, FileContent
      <4>2. Tail(views.image.headers) \in Seq(HeaderKinds)
        BY <4>1, HeadTailProperties
      <4>3. Stripped(views.image) \in FileContent
        BY <2>2, <4>2 DEF Stripped, FileContent, Bodies
      <4> QED BY <3>1, <4>3, BomIsBoolean DEF FileContent
    <3> QED BY <2>2, <3>1
  <2>4. status \in StripStatus \ {"PENDING"} /\ (status = "FAILED") \in BOOLEAN
    BY DEF StripStatus
  <2>5. /\ v \in Views /\ v.image = views.image /\ v.header = views.header
        /\ v.render = views.render
        /\ IF status = "READY" THEN v.updated # None ELSE v.updated = views.updated
    <3> HIDE DEF status, stripped
    <3> QED BY <2>3, NoneAssumption DEF IInv, TypeOK, Views
  <2> HIDE DEF found, nothing, status, stripped, v
  <2> QED BY <2>1, <2>4, <2>5
<1> DEFINE s == [st EXCEPT !.strip = strip]
<1>2. /\ st \in ProcessingStatus /\ s \in ProcessingStatus
      /\ Settle(s, stop, v) /\ st.strip = "PENDING"
      /\ mode.cmd = "strip" /\ st.header # "PENDING"
  BY <1>1, StepAtHand, AxisOfStep, WhoseStep DEF IInv, TypeOK, ProcessingStatus
<1>3. Settled(s, stop, v)
  <2>1. \A step \in Steps \ {"stripper"} : PrimaryStatus(step, s) = PrimaryStatus(step, st)
    BY <1>2, AxisOfStep DEF Steps, ProcessingStatus
  <2> HIDE DEF s
  <2> QED BY <1>1, <1>2, <2>1, WritesOwnAxis
<1>4. TypeOK'
  BY <1>1, <1>2, <1>3 DEF Settled, IInv, TypeOK
<1>5. ConsumedViewsKept' /\ HeaderIsInImage'
  BY <1>1, <1>2, <1>3 DEF Settled, IInv, ConsumedViewsKept, HeaderIsInImage, DecidedFromBelow,
                          ProcessingStatus, Views
<1>6. DecidedFromBelow' /\ PlanRestsOnDecisions'
  BY <1>1, <1>2, <1>3 DEF Settled, IInv, DecidedFromBelow, PermittedByPolicy, policy,
                          PlanRestsOnDecisions, ProcessingStatus, Views
<1> QED BY <1>3, <1>4, <1>5, <1>6 DEF Settled, IInv


\* What a planning step may do: the plan it makes rests on what the steps before decided, and
\* a concrete one has its text.
Planned(plan, stop, v) ==
  /\ mode # None /\ todo # <<>> /\ todo[1] = "planner" /\ halt = None
  /\ plan \in PlanStatus \ {"PENDING"} /\ stop \in BOOLEAN /\ v \in Views
  /\ st.strip = "READY" \/ st.render = "RENDERED"
  /\ Settle([st EXCEPT !.plan = plan], stop, v)
  /\ plan \in ConcretePlans => mode.apply /\ v.updated # None
  /\ plan = "REMOVED" => st.strip = "READY"
  /\ plan \in {"INSERTED", "REPLACED"} => mode.cmd = "check" /\ st.comparison = "CHANGED"
  /\ st.strip = "READY" => v.updated # None
  /\ v.image = views.image /\ v.header = views.header /\ v.render = views.render
  /\ facts' \in Facts
  /\ UNCHANGED <<disk, access, read>>

\* Whatever the planner decides, the axes below it and the image stay as they are.
LEMMA PlannedKeeps ==
  ASSUME IInv, NEW plan, NEW stop, NEW v, Planned(plan, stop, v)
  PROVE  IInv'
<1>1. Planned(plan, stop, v)
  OBVIOUS
<1> DEFINE s == [st EXCEPT !.plan = plan]
<1>2. /\ st \in ProcessingStatus /\ s \in ProcessingStatus /\ v \in Views /\ stop \in BOOLEAN
      /\ mode # None /\ todo # <<>> /\ todo[1] = "planner"
      /\ Settle(s, stop, v) /\ st.plan = "PENDING"
      /\ mode.cmd = "check" => st.comparison \in {"CHANGED", "UNCHANGED"}
  BY StepAtHand, AxisOfStep, WhoseStep DEF Planned, IInv, TypeOK, ProcessingStatus
<1>3. Settled(s, stop, v)
  <2>1. \A step \in Steps \ {"planner"} : PrimaryStatus(step, s) = PrimaryStatus(step, st)
    BY <1>2, AxisOfStep DEF Steps, ProcessingStatus
  <2> HIDE DEF s
  <2> QED BY <1>2, <2>1, WritesOwnAxis
<1>4. TypeOK'
  BY <1>1, <1>2, <1>3 DEF Planned, Settled, IInv, TypeOK
<1>5. ConsumedViewsKept' /\ HeaderIsInImage'
  BY <1>1, <1>2, <1>3 DEF Planned, Settled, IInv, ConsumedViewsKept, HeaderIsInImage,
                          DecidedFromBelow, ProcessingStatus, Views
<1>6. DecidedFromBelow' /\ PlanRestsOnDecisions'
  BY <1>1, <1>2, <1>3 DEF Planned, Settled, IInv, DecidedFromBelow, PermittedByPolicy, policy,
                          PlanRestsOnDecisions, ProcessingStatus, Views
<1> QED BY <1>3, <1>4, <1>5, <1>6 DEF Settled, IInv

\* What holds whenever the planner runs.
LEMMA PlannerAtHand ==
  ASSUME IInv, Running("planner")
  PROVE  /\ mode # None /\ mode \in RunOptions /\ todo # <<>> /\ todo[1] = "planner"
         /\ halt = None /\ views \in Views
         /\ st.strip = "READY" \/ st.render = "RENDERED"
         /\ views.image \in FileContent
         /\ st.render = "RENDERED" => views.render \in RenderedKinds /\ mode.cmd = "check"
         /\ st.strip = "READY" => views.updated \in FileContent
         /\ st.strip # "READY" /\ st.comparison # "UNCHANGED" => st.comparison = "CHANGED"
         /\ views.header # None => views.image.headers # <<>>
<1>1. /\ mode # None /\ todo # <<>> /\ todo[1] = "planner" /\ halt = None
      /\ st.strip = "READY" \/ st.render = "RENDERED"
  BY DEF Running, MayProceed, Gate, IInv, DecidedFromBelow
<1>2. st.content = "OK"
  BY <1>1 DEF IInv, DecidedFromBelow
<1>3. st.render = "RENDERED" => mode.cmd = "check"
  BY DEF IInv, DecidedFromBelow
<1>4. views.image \in FileContent
  BY <1>1, <1>2, InputsAtHand
<1> QED BY <1>1, <1>3, <1>4, InputsAtHand, WhoseStep, NoneAssumption
        DEF IInv, TypeOK, HeaderIsInImage

\* PlannerStep: the text the stripper made ready is planned.
LEMMA PlanStripKeeps ==
  ASSUME IInv, PlanStrip
  PROVE  IInv'
<1>1. /\ Running("planner") /\ st.strip = "READY"
      /\ Settle([st EXCEPT !.plan = PlanKind("REMOVED")], FALSE,
                [views EXCEPT !.updated = PrependBom(@)])
      /\ UNCHANGED <<disk, access, facts, read>>
  BY DEF PlanStrip
<1>2. PrependBom(views.updated) \in FileContent
  BY <1>1, PlannerAtHand DEF PrependBom, FileContent, Sized, IInv, TypeOK, Facts
<1>3. [views EXCEPT !.updated = PrependBom(views.updated)] \in Views
  BY <1>2 DEF IInv, TypeOK, Views
<1>4. Planned(PlanKind("REMOVED"), FALSE, [views EXCEPT !.updated = PrependBom(views.updated)])
  <2> HIDE DEF PrependBom
  <2> QED BY <1>1, <1>2, <1>3, PlannerAtHand, NoneAssumption
          DEF Planned, PlanKind, PlanStatus, ConcretePlans, IInv, TypeOK, Views
<1> QED BY <1>4, PlannedKeeps

\* PlannerStep: nothing to do for a file the comparer found unchanged.
LEMMA PlanUnchangedKeeps ==
  ASSUME IInv, PlanUnchanged
  PROVE  IInv'
<1>1. [views EXCEPT !.updated = views.image] \in Views
  BY DEF IInv, TypeOK, Views
<1>2. Planned("SKIPPED", FALSE, [views EXCEPT !.updated = views.image])
  BY <1>1, PlannerAtHand DEF PlanUnchanged, Planned, PlanStatus, ConcretePlans, IInv, TypeOK, Views
<1> QED BY <1>2, PlannedKeeps

\* The pre-insert capability is asked of an image, which is there.
LEMMA CapabilityKnown ==
  ASSUME IInv, Running("planner")
  PROVE  [facts EXCEPT !.cap = PlannerCapability] \in Facts
BY PlannerAtHand DEF PlannerCapability, Capability, Capabilities, FileContent, IInv, TypeOK, Facts

\* PlannerStep: refused by the insert checker, or no line to insert at.
LEMMA PlanGivenUpKeeps ==
  ASSUME IInv, PlanRefused \/ PlanNoAnchor
  PROVE  IInv'
<1>1. Updating
  BY DEF PlanRefused, PlanNoAnchor
<1>2. [views EXCEPT !.updated = views.image] \in Views
  BY DEF IInv, TypeOK, Views
<1>3. CASE PlanRefused
  <2>1. Planned("SKIPPED", TRUE, [views EXCEPT !.updated = views.image])
    BY <1>1, <1>2, <1>3, PlannerAtHand, CapabilityKnown
       DEF PlanRefused, Updating, Planned, PlanStatus, ConcretePlans, IInv, TypeOK, Views
  <2> QED BY <2>1, PlannedKeeps
<1>4. CASE PlanNoAnchor
  <2>1. Planned("FAILED", TRUE, views)
    BY <1>1, <1>4, PlannerAtHand, CapabilityKnown
       DEF PlanNoAnchor, Updating, Planned, PlanStatus, ConcretePlans, IInv, TypeOK, Views
  <2> QED BY <2>1, PlannedKeeps
<1> QED BY <1>3, <1>4

\* Planning a text: it is either what the file has, and skipped, or planned.
LEMMA PlanTextKeeps ==
  ASSUME IInv, Updating, NEW new \in FileContent, NEW concrete \in {"INSERTED", "REPLACED"},
         PlanText(new, concrete)
  PROVE  IInv'
<1>1. Running("planner") /\ st.strip # "READY" /\ st.comparison # "UNCHANGED"
  BY DEF Updating
<1>2. CASE new = SourceText
  <2>1. [views EXCEPT !.updated = views.image] \in Views
    BY DEF IInv, TypeOK, Views
  <2>2. Planned("SKIPPED", FALSE, [views EXCEPT !.updated = views.image])
    BY <1>1, <1>2, <2>1, PlannerAtHand, CapabilityKnown
       DEF PlanText, Planned, PlanStatus, ConcretePlans, IInv, TypeOK, Views
  <2> QED BY <2>2, PlannedKeeps
<1>3. CASE new # SourceText
  <2> DEFINE v == [views EXCEPT !.updated = new, !.edit = "single"]
  <2>1. v \in Views /\ v.updated = new /\ v.image = views.image /\ v.header = views.header
        /\ v.render = views.render
    BY DEF IInv, TypeOK, Views
  <2>2. /\ Settle([st EXCEPT !.plan = PlanKind(concrete)], FALSE, v)
        /\ facts' \in Facts
        /\ UNCHANGED <<disk, access, read>>
    BY <1>1, <1>3, CapabilityKnown DEF PlanText
  <2> HIDE DEF v
  <2>3. Planned(PlanKind(concrete), FALSE, v)
    BY <1>1, <2>1, <2>2, PlannerAtHand, NoneAssumption
       DEF Planned, PlanKind, PlanStatus, ConcretePlans
  <2> QED BY <2>3, PlannedKeeps
<1> QED BY <1>2, <1>3

\* A header put in front of headers.
LEMMA PrependType ==
  ASSUME NEW kind \in RenderedKinds, NEW headers \in Seq(HeaderKinds)
  PROVE  Prepend(kind, headers) \in Seq(HeaderKinds)
<1>1. CASE kind # "missing"
  <2>1. <<kind>> \in Seq(HeaderKinds)
    BY <1>1 DEF RenderedKinds, HeaderKinds
  <2> QED BY <1>1, <2>1, ConcatProperties DEF Prepend
<1> QED BY <1>1 DEF Prepend

\* PlannerStep: a header is replaced or inserted.
LEMMA PlanUpdateKeeps ==
  ASSUME IInv, PlanReplace \/ PlanInsert
  PROVE  IInv'
<1>1. Updating /\ Running("planner")
  BY DEF PlanReplace, PlanInsert, Updating
<1>2. /\ views.image \in FileContent /\ views.render \in RenderedKinds
      /\ views.header # None => views.image.headers # <<>>
  BY <1>1, PlannerAtHand DEF Updating
<1>3. ASSUME NEW c \in FileContent
      PROVE  PrependBom(c) \in FileContent
  BY DEF PrependBom, FileContent, Sized, IInv, TypeOK, Facts
<1>4. CASE PlanReplace
  <2> DEFINE new == [views.image EXCEPT !.headers = Prepend(views.render, Tail(@))]
  <2>1. new \in FileContent
    <3>1. Tail(views.image.headers) \in Seq(HeaderKinds)
      BY <1>2, <1>4, HeadTailProperties DEF PlanReplace, FileContent
    <3>2. Prepend(views.render, Tail(views.image.headers)) \in Seq(HeaderKinds)
      BY <1>2, <3>1, PrependType
    <3> QED BY <1>2, <3>2 DEF FileContent
  <2>2. PlanText(PrependBom(new), "REPLACED")
    BY <1>4 DEF PlanReplace, Replaced
  <2> HIDE DEF new
  <2> QED BY <1>1, <1>3, <2>1, <2>2, PlanTextKeeps
<1>5. CASE PlanInsert
  <2>1. Inserted \in FileContent
    <3>1. Prepend(views.render, views.image.headers) \in Seq(HeaderKinds)
      BY <1>2, PrependType DEF FileContent
    <3> QED BY <1>2, <3>1 DEF Inserted, FileContent, Bodies
  <2>2. [Inserted EXCEPT !.bom = KeptBom] \in FileContent
    BY <2>1, BomIsBoolean DEF FileContent
  <2>3. PlanText(IF ftype.insert = "text" THEN [Inserted EXCEPT !.bom = KeptBom]
                 ELSE PrependBom(Inserted), "INSERTED")
    BY <1>5 DEF PlanInsert
  <2> QED BY <1>1, <1>3, <2>1, <2>2, <2>3, PlanTextKeeps
<1> QED BY <1>4, <1>5

\* The patcher may find that nothing changed after all; it never runs with --apply.
LEMMA PatchingKeeps ==
  ASSUME IInv, Patcher
  PROVE  IInv'
<1>1. PICK patch \in PatchStatus \ {"PENDING"}, comparison \in {"CHANGED", "UNCHANGED"}, v \in Views :
        /\ mode # None /\ todo # <<>> /\ todo[1] = "patcher" /\ halt = None
        /\ st.comparison \in {"CHANGED", "UNCHANGED"}
        /\ Settle([st EXCEPT !.patch = patch, !.comparison = comparison], FALSE, v)
        /\ v.image = views.image /\ v.header = views.header /\ v.render = views.render
        /\ v.updated = views.updated
        /\ UNCHANGED <<disk, access, facts, read>>
  <2> DEFINE same == \/ st.comparison = "UNCHANGED"
                     \/ views.edit = None /\ views.updated = SourceText
             patch == IF same THEN "SKIPPED" ELSE "GENERATED"
             comparison == IF same THEN "UNCHANGED" ELSE st.comparison
             v == IF same THEN views ELSE [views EXCEPT !.diff = "text"]
  <2>1. /\ mode # None /\ todo # <<>> /\ todo[1] = "patcher" /\ halt = None
        /\ st.comparison \in {"CHANGED", "UNCHANGED"}
        /\ Settle([st EXCEPT !.patch = patch, !.comparison = comparison], FALSE, v)
        /\ UNCHANGED <<disk, access, facts, read>>
    BY DEF Patcher, Running, MayProceed, Gate
  <2>2. patch \in PatchStatus \ {"PENDING"} /\ comparison \in {"CHANGED", "UNCHANGED"}
    BY <2>1 DEF PatchStatus
  <2>3. /\ v \in Views /\ v.image = views.image /\ v.header = views.header
        /\ v.render = views.render /\ v.updated = views.updated
    BY DEF IInv, TypeOK, Views
  <2> HIDE DEF same, patch, comparison, v
  <2> QED BY <2>1, <2>2, <2>3
<1> DEFINE s == [st EXCEPT !.patch = patch, !.comparison = comparison]
<1>2. /\ st \in ProcessingStatus /\ s \in ProcessingStatus
      /\ Settle(s, FALSE, v) /\ st.plan \notin ConcretePlans
  BY <1>1, WhoseStep
     DEF IInv, TypeOK, PlanRestsOnDecisions, ProcessingStatus, ComparisonStatus
<1>3. Settled(s, FALSE, v)
  <2>1. /\ s.resolve = st.resolve /\ s.header = st.header /\ s.generation = st.generation
        /\ s.render = st.render /\ s.content = st.content /\ s.strip = st.strip
        /\ s.plan = st.plan /\ s.fs = st.fs /\ s.write = st.write
        /\ s.comparison = comparison /\ s.patch = patch
    BY <1>2 DEF ProcessingStatus
  <2> HIDE DEF s
  <2>2. \A step \in Steps \ {"patcher", "comparer"} :
          PrimaryStatus(step, s) = PrimaryStatus(step, st)
    BY <2>1, AxisOfStep DEF Steps
  <2>3. \A step \in Steps : Rank(todo[1]) < Rank(step) =>
                             PrimaryStatus(step, s) = PrimaryStatus(step, st)
    BY <1>1, <2>2 DEF Rank, Steps
  <2>4. PrimaryStatus("patcher", s) # "PENDING" /\ PrimaryStatus("comparer", s) # "PENDING"
    BY <1>1, <2>1, AxisOfStep
  <2>5. \A step \in Steps : PrimaryStatus(step, st) # "PENDING" =>
                             PrimaryStatus(step, s) # "PENDING"
    BY <2>2, <2>4
  <2> QED BY <1>1, <1>2, <2>3, <2>5, Settles
<1>4. TypeOK'
  BY <1>1, <1>2, <1>3 DEF Settled, IInv, TypeOK
<1>5. ConsumedViewsKept' /\ HeaderIsInImage'
  BY <1>1, <1>2, <1>3 DEF Settled, IInv, ConsumedViewsKept, HeaderIsInImage, DecidedFromBelow,
                          ProcessingStatus, Views
<1>6. DecidedFromBelow'
  BY <1>1, <1>2, <1>3 DEF Settled, IInv, DecidedFromBelow, PermittedByPolicy, policy,
                          ProcessingStatus, Views
<1>7. PlanRestsOnDecisions'
  BY <1>1, <1>2, <1>3 DEF Settled, IInv, PlanRestsOnDecisions, ConcretePlans,
                          ProcessingStatus, Views
<1> QED BY <1>3, <1>4, <1>5, <1>6, <1>7 DEF Settled, IInv

\* The writer has a text to write, whatever the write then leaves in the file.
LEMMA WritingKeeps ==
  ASSUME IInv, Writer
  PROVE  IInv'
<1>1. PICK result \in WriteResults :
        /\ mode # None /\ todo # <<>> /\ todo[1] = "writer" /\ views.updated # None
        /\ disk' \in Left(result)
        /\ Settle([st EXCEPT !.write = result], FALSE, views)
        /\ UNCHANGED <<access, facts, read>>
  BY DEF Writer, Running, MayProceed, Gate
<1> DEFINE s == [st EXCEPT !.write = result]
<1>2. /\ st \in ProcessingStatus /\ s \in ProcessingStatus /\ views \in Views
      /\ Settle(s, FALSE, views) /\ result \in WriteStatus
  BY <1>1 DEF IInv, TypeOK, ProcessingStatus, WriteResults, WriteStatus
<1>3. Settled(s, FALSE, views)
  <2>1. \A step \in Steps \ {"writer"} : PrimaryStatus(step, s) = PrimaryStatus(step, st)
    BY <1>2, AxisOfStep DEF Steps, ProcessingStatus
  <2> HIDE DEF s
  <2> QED BY <1>1, <1>2, <2>1, WritesOwnAxis
<1>4. disk' \in FileContent \cup {None}
  <2>1. views.updated \in FileContent /\ disk \in FileContent \cup {None}
    BY <1>1 DEF IInv, TypeOK, Views
  <2>2. NoBytes \in FileContent
    BY DEF NoBytes, FileContent, Encodings, Bodies, Eols, Capabilities
  <2>3. Torn(views.updated) \subseteq FileContent
    BY <2>1, <2>2 DEF Torn, FileContent, Bodies
  <2>4. LeftByFailure \subseteq FileContent \cup {None}
    BY <2>1, <2>3 DEF LeftByFailure
  <2> QED BY <1>1, <2>1, <2>4 DEF Left
<1>5. TypeOK'
  BY <1>1, <1>2, <1>3, <1>4 DEF Settled, IInv, TypeOK
<1>6. ConsumedViewsKept' /\ HeaderIsInImage'
  BY <1>1, <1>2, <1>3 DEF Settled, IInv, ConsumedViewsKept, HeaderIsInImage, DecidedFromBelow,
                          ProcessingStatus, Views
<1>7. DecidedFromBelow' /\ PlanRestsOnDecisions'
  BY <1>1, <1>2, <1>3 DEF Settled, IInv, DecidedFromBelow, PermittedByPolicy, policy,
                          PlanRestsOnDecisions, ProcessingStatus, Views
<1> QED BY <1>3, <1>5, <1>6, <1>7 DEF Settled, IInv

\* A step of the pipeline, whichever it is.
LEMMA StepKeeps ==
  ASSUME IInv, Step
  PROVE  IInv'
BY PassKeeps, ResolvingKeeps, SniffingKeeps, NotReadingKeeps, ReadingKeeps, ScanningKeeps,
   BuildingKeeps, RaisingKeeps, RenderingKeeps, ComparingKeeps, StrippingKeeps, PlanStripKeeps,
   PlanUnchangedKeeps, PlanGivenUpKeeps, PlanUpdateKeeps, PatchingKeeps, WritingKeeps DEF Step

\* The state a run starts in, and the one it leaves behind, satisfy what is said of runs.
LEMMA FreshKeeps ==
  ASSUME IInv, mode' = None, todo' = <<>>, st' = AllPending, halt' = None, views' = NoViews,
         TypeOK'
  PROVE  IInv'
<1>1. /\ st'.header = "PENDING" /\ st'.generation = "PENDING" /\ st'.render = "PENDING"
      /\ st'.strip = "PENDING" /\ st'.comparison = "PENDING" /\ st'.plan = "PENDING"
      /\ views'.image = None /\ views'.header = None /\ views'.updated = None
  BY DEF AllPending, NoViews
<1>2. FreshBetweenRuns' /\ AxesDecidedInOrder' /\ ConsumedViewsKept'
  BY DEF FreshBetweenRuns, AxesDecidedInOrder, ConsumedViewsKept
<1>3. TodoOfPipeline'
  BY DEF TodoOfPipeline, InOrder
<1>4. HeaderIsInImage' /\ DecidedFromBelow' /\ PlanRestsOnDecisions'
  BY <1>1 DEF HeaderIsInImage, DecidedFromBelow, PlanRestsOnDecisions, ConcretePlans
<1> QED BY <1>2, <1>3, <1>4 DEF IInv

\* select_pipeline: a run starts with every step of its pipeline still to come.
LEMMA StartKeeps ==
  ASSUME IInv, StartRun
  PROVE  IInv'
<1>1. PICK m \in Modes :
        /\ mode = None /\ mode' = m /\ todo' = SelectPipeline(m.cmd, m.apply, m.diff)
        /\ UNCHANGED <<setup, disk, access, st, halt, facts, views, read, last>>
  BY DEF StartRun
<1>2. m \in RunOptions /\ m # None
  BY ModesAssumption, NoneAssumption
<1>3. Shaped(todo', PipelineSteps(m)) /\ Pipeline' = todo'
  BY <1>1, <1>2, PipelineShape DEF Pipeline
<1>4. st' = AllPending /\ halt' = None /\ views' = NoViews
  BY <1>1 DEF IInv, FreshBetweenRuns
<1>5. /\ st'.header = "PENDING" /\ st'.generation = "PENDING" /\ st'.render = "PENDING"
      /\ st'.strip = "PENDING" /\ st'.comparison = "PENDING" /\ st'.plan = "PENDING"
      /\ st'.content = "PENDING"
      /\ views'.image = None /\ views'.header = None /\ views'.updated = None
  BY <1>4 DEF AllPending, NoViews
<1>6. TypeOK' /\ FreshBetweenRuns' /\ TodoOfPipeline'
  BY <1>1, <1>2, <1>3, <1>4
     DEF IInv, TypeOK, Shaped, FreshBetweenRuns, TodoOfPipeline
<1>7. AxesDecidedInOrder'
  <2>1. \A step \in Steps : PrimaryStatus(step, st') = "PENDING"
    BY <1>4, AxisOfStep DEF AllPending, Steps
  <2>2. ToSet(todo') \subseteq Steps
    BY <1>3, ElementOfSeq DEF Shaped, ToSet
  <2> QED BY <1>3, <2>1, <2>2 DEF AxesDecidedInOrder
<1>8. ConsumedViewsKept' /\ HeaderIsInImage' /\ DecidedFromBelow' /\ PlanRestsOnDecisions'
  BY <1>5 DEF ConsumedViewsKept, HeaderIsInImage, DecidedFromBelow, PlanRestsOnDecisions, ConcretePlans
<1> QED BY <1>6, <1>7, <1>8 DEF IInv

\* The outcome a run is reported under is one of the outcomes.
LEMMA OutcomeType ==
  ASSUME NEW s, NEW p, NEW f, NEW apply
  PROVE  MapBucket(s, p, f, apply) \in Outcomes
<1>1. StripOutcome(s, apply) \in Outcomes
  BY DEF StripOutcome, Outcomes
<1>2. ChangedOutcome(s, apply) \in Outcomes
  BY DEF ChangedOutcome, Outcomes
<1>3. HeaderOutcome(s, p, apply) \in Outcomes
  BY <1>2 DEF HeaderOutcome, Outcomes
<1> QED BY <1>1, <1>3 DEF MapBucket, Outcomes

\* The engine reports the context and forgets it.
LEMMA EndKeeps ==
  ASSUME IInv, EndRun
  PROVE  IInv'
<1>1. /\ mode # None /\ todo = <<>> /\ mode' = None /\ st' = AllPending /\ halt' = None
      /\ views' = NoViews /\ facts' = NoFacts /\ read' = None
      /\ UNCHANGED <<setup, disk, access, todo>>
      /\ last' = IF halt = "exception" THEN None
                 ELSE [cmd |-> mode.cmd, apply |-> mode.apply, outcome |-> Outcome,
                       wrote |-> st.write = "WRITTEN" /\ mode.sink # "stdout"]
  BY DEF EndRun, Finished
<1>2. last' \in CompletedRun \cup {None}
  <2>1. Outcome \in Outcomes
    BY OutcomeType DEF Outcome
  <2>2. mode \in RunOptions
    BY <1>1 DEF IInv, TypeOK
  <2> QED BY <1>1, <2>1, <2>2 DEF CompletedRun, RunOptions
<1>3. st' \in ProcessingStatus /\ facts' \in Facts /\ views' \in Views
  BY <1>1 DEF AllPending, NoFacts, NoViews, ProcessingStatus, Facts, Views, ResolveStatus, FsStatus,
              ContentStatus, HeaderStatus, GenerationStatus, RenderStatus, ComparisonStatus,
              StripStatus, PlanStatus, PatchStatus, WriteStatus
<1>4. TypeOK'
  BY <1>1, <1>2, <1>3 DEF IInv, TypeOK
<1> QED BY <1>1, <1>4, FreshKeeps

\* A vanished file makes the builder raise; other programs touch only the file.
LEMMA OthersKeep ==
  ASSUME IInv, ExternalEdit \/ ExternalChmod
  PROVE  IInv'
<1>1. /\ disk' \in FileContent \cup {None} /\ access' \in Accesses /\ last' = None
      /\ UNCHANGED <<setup, mode, todo, st, halt, facts, views, read>>
  BY ContentsAssumption DEF ExternalEdit, ExternalChmod, run, IInv, TypeOK
<1>2. TypeOK' /\ FreshBetweenRuns' /\ TodoOfPipeline' /\ AxesDecidedInOrder'
  BY <1>1 DEF IInv, TypeOK, FreshBetweenRuns, TodoOfPipeline, AxesDecidedInOrder, Pipeline
<1>3. ConsumedViewsKept' /\ HeaderIsInImage' /\ DecidedFromBelow' /\ PlanRestsOnDecisions'
  BY <1>1 DEF IInv, ConsumedViewsKept, HeaderIsInImage, DecidedFromBelow, PermittedByPolicy, policy,
              PlanRestsOnDecisions
<1> QED BY <1>2, <1>3 DEF IInv

\* Nothing happens.
LEMMA StutterKeeps ==
  ASSUME IInv, UNCHANGED vars
  PROVE  IInv'
<1>1. UNCHANGED <<setup, disk, access, mode, todo, st, halt, facts, views, read, last>>
  BY DEF vars, run
<1>2. TypeOK' /\ FreshBetweenRuns' /\ TodoOfPipeline' /\ AxesDecidedInOrder'
  BY <1>1 DEF IInv, TypeOK, FreshBetweenRuns, TodoOfPipeline, AxesDecidedInOrder, Pipeline
<1>3. ConsumedViewsKept' /\ HeaderIsInImage' /\ DecidedFromBelow' /\ PlanRestsOnDecisions'
  BY <1>1 DEF IInv, ConsumedViewsKept, HeaderIsInImage, DecidedFromBelow, PermittedByPolicy, policy,
              PlanRestsOnDecisions
<1> QED BY <1>2, <1>3 DEF IInv

\* No run has started yet.
LEMMA InitEstablishes == Init => IInv
<1> SUFFICES ASSUME Init PROVE IInv
  OBVIOUS
<1>1. TypeOK
  BY ContentsAssumption
     DEF Init, TypeOK, AllPending, NoFacts, NoViews, ProcessingStatus, Facts, Views, ResolveStatus,
         FsStatus, ContentStatus, HeaderStatus, GenerationStatus, RenderStatus,
         ComparisonStatus, StripStatus, PlanStatus, PatchStatus, WriteStatus
<1>2. FreshBetweenRuns /\ AxesDecidedInOrder /\ ConsumedViewsKept /\ TodoOfPipeline
  BY DEF Init, FreshBetweenRuns, AxesDecidedInOrder, ConsumedViewsKept, TodoOfPipeline, InOrder
<1>3. HeaderIsInImage /\ DecidedFromBelow /\ PlanRestsOnDecisions
  BY DEF Init, AllPending, NoViews, HeaderIsInImage, DecidedFromBelow, PlanRestsOnDecisions,
         ConcretePlans
<1> QED BY <1>1, <1>2, <1>3 DEF IInv

\* Every step keeps the inductive invariant.
LEMMA NextKeeps ==
  ASSUME IInv, [Next]_vars
  PROVE  IInv'
BY StepKeeps, StartKeeps, EndKeeps, OthersKeep, StutterKeeps DEF Next

\* The invariant holds throughout, for all values of the constants.
THEOREM Invariance == Spec => []IInv
<1>1. IInv /\ [Next]_vars => IInv'
  BY NextKeeps
<1> QED BY <1>1, InitEstablishes, PTL DEF Spec

------------------------------------------------------------------------------
(***************************************************************************)
(* What follows from it.                                                   *)
(***************************************************************************)

\* Every variable stays within the values the code's types give it, although views are
\* dropped as soon as no step is thought to need them.
THEOREM TypeCorrect == Spec => []TypeOK
BY Invariance, PTL DEF IInv

\* Every step of a pipeline decides its own axis exactly once (BaseStep.__call__).
THEOREM AxesAreDecidedInOrder == Spec => []AxesDecidedInOrder
BY Invariance, PTL DEF IInv

\* release_consumed never drops a view a later step works on.
THEOREM NoViewIsReleasedTooEarly == Spec => []ViewsAtHand
<1>1. ASSUME IInv, mode # None, NEW step \in ToSet(todo)
      PROVE  /\ st.content = "OK" /\ step \in {"scanner", "renderer", "stripper", "planner", "patcher"}
                  => views.image # None
             /\ st.render = "RENDERED" /\ step \in {"comparer", "planner"}
                  => views.render \in RenderedKinds
             /\ st.strip = "READY" /\ step \in {"comparer", "planner", "writer"}
                  => views.updated # None
             /\ st.plan \in ConcretePlans /\ step = "writer" => views.updated # None
  <2>1. ConsumesViews(step) \subseteq RemainingConsumers(todo)
    BY <1>1, HeadConsumes
  <2>2. /\ step \in {"scanner", "renderer", "stripper", "planner", "patcher"}
             => "image" \in ConsumesViews(step)
        /\ step \in {"comparer", "planner"} => "render" \in ConsumesViews(step)
        /\ step \in {"comparer", "planner", "writer"} => "updated" \in ConsumesViews(step)
    BY DEF ConsumesViews
  <2> QED BY <1>1, <2>1, <2>2 DEF IInv, ConsumedViewsKept
<1>2. IInv => ViewsAtHand
  BY <1>1 DEF ViewsAtHand
<1> QED BY <1>2, Invariance, PTL

\* request_halt is terminal: whatever the runner still calls does nothing.
THEOREM HaltingIsFinal == Spec => HaltIsFinal
<1>1. ASSUME IInv, Step, halt # None
      PROVE  UNCHANGED <<st, halt, facts, read, disk>>
  <2>1. CASE Pass
    BY <1>1, <2>1 DEF Pass, Settle
  <2>2. ASSUME NEW step \in Steps, Running(step)
        PROVE  FALSE
    <3>1. step \notin {"resolver", "prober"}
      <4>1. mode # None /\ todo # <<>> /\ todo[1] = step
        BY <2>2 DEF Running
      <4> QED BY <1>1, <4>1, StepAtHand DEF IInv, TodoOfPipeline
    <3> QED BY <1>1, <2>2, <3>1 DEF Running, MayProceed, Gate, Steps
  <2>3. CASE ~Pass
    <3>1. \E step \in Steps : Running(step)
      BY <1>1, <2>3 DEF Step, Resolver, Prober, Sniffer, ReaderRefuses, ReaderFails,
            ReaderFindsEmpty, ReaderLoads, Scanner, Builder, BuilderRaises, Renderer, Comparer,
            Stripper, PlanStrip, PlanUnchanged, PlanRefused, PlanReplace, PlanInsert,
            PlanNoAnchor, Updating, Patcher, Writer, Steps
    <3> QED BY <2>2, <3>1
  <2> QED BY <2>1, <2>3
<1>2. IInv /\ [Next]_vars =>
        [Step /\ halt # None => UNCHANGED <<st, halt, facts, read, disk>>]_vars
  BY <1>1
<1> QED BY <1>2, Invariance, PTL DEF Spec, HaltIsFinal

\* Of all steps only the writer touches the file.
LEMMA OnlyWriterWrites ==
  ASSUME Step, disk' # disk
  PROVE  Writer
BY DEF Step, Pass, Resolver, Prober, Sniffer, ReaderRefuses, ReaderFails, ReaderFindsEmpty,
       ReaderLoads, Scanner, Builder, BuilderRaises, Renderer, Comparer, Stripper, PlanStrip,
       PlanUnchanged, PlanRefused, PlanReplace, PlanInsert, PlanNoAnchor, PlanText, Patcher

\* The permission a check plan rests on was given by the builder and still holds.
LEMMA CheckPlanIsPermitted ==
  ASSUME IInv, mode # None, mode.cmd = "check", st.plan \in ConcretePlans \cup {"PREVIEWED"}
  PROVE  /\ st.strip = "PENDING"
         /\ st.header \notin {"PENDING", "MALFORMED", "MALFORMED_ALL_FIELDS",
                              "MALFORMED_SOME_FIELDS"}
         /\ PermittedByPolicy(st, policy)
<1>1. st.strip = "PENDING" /\ st.comparison \in {"CHANGED", "UNCHANGED"}
  BY DEF IInv, DecidedFromBelow, PlanRestsOnDecisions
<1>2. st.generation \in {"GENERATED", "NO_FIELDS"}
  BY <1>1 DEF IInv, DecidedFromBelow
<1> QED BY <1>1, <1>2 DEF IInv, DecidedFromBelow

\* The file changes only to carry out what the earlier steps decided (WriterStep).
THEOREM OnlyDecisionsAreWritten == Spec => OnlyDecidedChangesAreWritten
<1> DEFINE Decided ==
      /\ mode.apply /\ mode.sink # "stdout" /\ st.content = "OK"
      /\ \/ mode.cmd = "strip" /\ st.strip = "READY" /\ st.plan = "REMOVED"
         \/ /\ mode.cmd = "check" /\ st.comparison = "CHANGED"
            /\ st.plan \in {"INSERTED", "REPLACED"} /\ PermittedByPolicy(st, policy)
<1>1. ASSUME IInv, Step, disk' # disk
      PROVE  Decided
  <2>1. PICK result \in WriteResults : Running("writer") /\ disk' \in Left(result)
    BY <1>1, OnlyWriterWrites DEF Writer
  <2>2. mode # None /\ mode.sink # "stdout"
    BY <1>1, <2>1 DEF Running, Left, LeftByFailure
  <2>3. mode.apply /\ st.plan \in ConcretePlans
    BY <2>1, <2>2 DEF Running, MayProceed, Gate
  <2>4. st.content = "OK"
    BY <1>1, <2>3 DEF ConcretePlans, IInv, DecidedFromBelow
  <2>5. CASE st.plan = "REMOVED"
    BY <1>1, <2>2, <2>3, <2>4, <2>5 DEF IInv, DecidedFromBelow, PlanRestsOnDecisions
  <2>6. CASE st.plan \in {"INSERTED", "REPLACED"}
    BY <1>1, <2>2, <2>3, <2>4, <2>6, CheckPlanIsPermitted DEF IInv, PlanRestsOnDecisions
  <2> QED BY <2>3, <2>5, <2>6 DEF ConcretePlans
<1>2. IInv /\ [Next]_vars => [Step /\ disk' # disk => Decided]_vars
  BY <1>1
<1> QED BY <1>2, Invariance, PTL DEF Spec, OnlyDecidedChangesAreWritten

\* update_only never plans an insertion, add_only never a replacement.
THEOREM MutationModeIsObeyed == Spec => []PlanObeysMutationMode
<1>1. IInv => PlanObeysMutationMode
  <2> SUFFICES ASSUME IInv, mode # None, mode.cmd = "check",
                      st.plan \in ConcretePlans \cup {"PREVIEWED"}
               PROVE  /\ policy.mutation = "update_only" => st.header # "MISSING"
                      /\ policy.mutation = "add_only" => st.header = "MISSING"
    BY DEF PlanObeysMutationMode
  <2>1. st.header \in HeaderStatus
    BY DEF IInv, TypeOK, ProcessingStatus
  <2> QED BY <2>1, CheckPlanIsPermitted DEF PermittedByPolicy, HeaderStatus
<1> QED BY <1>1, Invariance, PTL

------------------------------------------------------------------------------
(***************************************************************************)
(* What a run reports of a write.                                          *)
(***************************************************************************)

\* File system statuses the sniffer lets the reader go on with.
ReadableFs == {"OK", "EMPTY", "BOM_BEFORE_SHEBANG", "MIXED_LINE_ENDINGS"}

\* How the file was looked at, and what a write then rests on.  The writer comes last, so
\* what it relied on is still so when the run is reported.
ReportInv ==
  /\ st.fs \notin ReadableFs \cup {"PENDING"} => halt # None
  /\ st.content # "PENDING" => st.fs \in ReadableFs
  /\ st.content = "OK" => read # None /\ (read.shebang => ~facts.leff /\ ~facts.llog)
  /\ st.write # "PENDING" => todo = <<>>
  /\ st.write \in {"WRITTEN", "FAILED"} /\ mode.sink # "stdout" =>
       st.plan \in ConcretePlans /\ CanChange(st, policy, facts)

\* A step that neither looks at the file nor writes it.
LooksAway ==
  /\ todo # <<>> /\ mode' = mode /\ read' = read
  /\ st'.fs = st.fs /\ st'.content = st.content /\ st'.write = st.write
  /\ halt # None => halt' # None
  /\ facts'.leff = facts.leff /\ facts'.llog = facts.llog

\* Such a step keeps all that is known of reading and writing.
LEMMA LookingAwayKeeps ==
  ASSUME ReportInv, LooksAway
  PROVE  ReportInv'
BY DEF ReportInv, LooksAway

\* All steps but the sniffer, the reader and the writer are such steps.
LEMMA StepsThatLookAway ==
  ASSUME IInv,
         \/ Pass \/ Resolver \/ Prober \/ Scanner \/ Builder \/ Renderer \/ Comparer \/ Stripper
         \/ PlanStrip \/ PlanUnchanged \/ PlanRefused \/ PlanReplace \/ PlanInsert
         \/ PlanNoAnchor \/ Patcher
  PROVE  LooksAway
<1>1. /\ todo # <<>> /\ mode' = mode /\ (halt # None => halt' # None)
      /\ st'.fs = st.fs /\ st'.content = st.content /\ st'.write = st.write
      /\ read' = read
      /\ facts' \in {facts, [facts EXCEPT !.cap = PlannerCapability]}
  <2>1. CASE Pass
    BY <2>1 DEF Pass, Settle
  <2>2. CASE Resolver \/ Prober
    BY <2>2 DEF Resolver, Prober, Running, Settle, IInv, TypeOK, ProcessingStatus
  <2>3. CASE Scanner
    BY <2>3 DEF Scanner, Running, Settle, IInv, TypeOK, ProcessingStatus
  <2>4. CASE Builder
    BY <2>4 DEF Builder, Running, Settle, IInv, TypeOK, ProcessingStatus
  <2>5. CASE Renderer
    BY <2>5 DEF Renderer, Running, Settle, IInv, TypeOK, ProcessingStatus
  <2>6. CASE Comparer
    BY <2>6 DEF Comparer, Running, Settle, IInv, TypeOK, ProcessingStatus
  <2>7. CASE Stripper
    BY <2>7 DEF Stripper, Running, Settle, IInv, TypeOK, ProcessingStatus
  <2>8. CASE PlanStrip \/ PlanUnchanged
    BY <2>8 DEF PlanStrip, PlanUnchanged, Running, Settle, IInv, TypeOK, ProcessingStatus
  <2>9. CASE PlanRefused \/ PlanNoAnchor
    BY <2>9 DEF PlanRefused, PlanNoAnchor, Updating, Running, Settle, IInv, TypeOK, ProcessingStatus
  <2>10. CASE PlanReplace \/ PlanInsert
    <3>1. PICK new, concrete : Updating /\ PlanText(new, concrete)
      BY <2>10 DEF PlanReplace, PlanInsert
    <3> QED BY <3>1 DEF PlanText, Updating, Running, Settle, IInv, TypeOK, ProcessingStatus
  <2>11. CASE Patcher
    BY <2>11 DEF Patcher, Running, Settle, IInv, TypeOK, ProcessingStatus
  <2> QED BY <2>1, <2>2, <2>3, <2>4, <2>5, <2>6, <2>7, <2>8, <2>9, <2>10, <2>11
<1>2. facts'.leff = facts.leff /\ facts'.llog = facts.llog
  BY <1>1 DEF IInv, TypeOK, Facts
<1> QED BY <1>1, <1>2 DEF LooksAway

\* SnifferStep halts on every status the reader could not go on with.
LEMMA SniffingReports ==
  ASSUME IInv, ReportInv, Sniffer
  PROVE  ReportInv'
<1>1. /\ mode # None /\ todo # <<>> /\ todo[1] = "sniffer" /\ read' = read
  BY DEF Sniffer, Running
<1>2. PICK fs : Settle([st EXCEPT !.fs = fs], fs \notin ReadableFs, views)
  BY DEF Sniffer, ReadableFs
<1>3. /\ st'.fs = fs /\ st'.content = st.content /\ st'.write = st.write
      /\ halt # None \/ fs \notin ReadableFs => halt' # None
  BY <1>1, <1>2, StepAtHand, NoneAssumption DEF Settle, IInv, TypeOK, ProcessingStatus
<1>4. st.content = "PENDING" /\ st.write = "PENDING"
  BY <1>1, StepAtHand, AxisOfStep DEF ReportInv, ReadableFs
<1> QED BY <1>3, <1>4 DEF ReportInv

\* ReaderStep: a file that is refused or cannot be opened.
LEMMA NotReadingReports ==
  ASSUME IInv, ReportInv, ReaderRefuses \/ ReaderFails
  PROVE  ReportInv'
<1>1. Running("reader")
  BY DEF ReaderRefuses, ReaderFails
<1>2. PICK content : /\ Settle([st EXCEPT !.content = content], TRUE, views)
                     /\ content # "OK"
  <2>1. CASE ReaderRefuses
    BY <2>1 DEF ReaderRefuses
  <2>2. CASE ReaderFails
    <3>1. Settle([st EXCEPT !.content = "UNREADABLE"], TRUE, views) /\ "UNREADABLE" # "OK"
      BY <2>2 DEF ReaderFails
    <3> QED BY <3>1
  <2> QED BY <2>1, <2>2
<1>3. /\ st'.fs = st.fs /\ st'.content = content /\ st'.write = st.write
  BY <1>2 DEF Settle, IInv, TypeOK, ProcessingStatus
<1>4. st.fs \in ReadableFs /\ st.write = "PENDING"
  BY <1>1, ReaderAtHand DEF ReportInv
<1> QED BY <1>2, <1>3, <1>4 DEF ReportInv

\* ReaderStep: text with a shebang line is never flagged as empty.
LEMMA ReadingReports ==
  ASSUME IInv, ReportInv, ReaderFindsEmpty \/ ReaderLoads
  PROVE  ReportInv'
<1>1. Running("reader") /\ read' = disk /\ disk \in FileContent
  BY DEF ReaderFindsEmpty, ReaderLoads, IInv, TypeOK
<1>2. st.fs \in ReadableFs /\ st.write = "PENDING"
  BY <1>1, ReaderAtHand DEF ReportInv
<1>3. st'.fs \in ReadableFs /\ st'.write = "PENDING"
  <2>1. PICK fs, content, stop, v :
          /\ Settle([st EXCEPT !.content = content, !.fs = fs], stop, v)
          /\ fs \in {"EMPTY", "MIXED_LINE_ENDINGS", st.fs}
    <3>1. CASE ReaderFindsEmpty
      <4>1. [st EXCEPT !.fs = "EMPTY", !.content = "OK"] = [st EXCEPT !.content = "OK", !.fs = "EMPTY"]
        BY DEF IInv, TypeOK, ProcessingStatus
      <4> QED BY <3>1, <4>1 DEF ReaderFindsEmpty
    <3>2. CASE ReaderLoads
      BY <3>2 DEF ReaderLoads
    <3> QED BY <3>1, <3>2
  <2> QED BY <1>2, <2>1 DEF Settle, ReadableFs, IInv, TypeOK, ProcessingStatus
<1>4. disk.shebang => ~facts'.leff /\ ~facts'.llog
  <2>1. CASE ReaderFindsEmpty
    BY <2>1 DEF ReaderFindsEmpty, Sized
  <2>2. CASE ReaderLoads
    <3>1. /\ facts'.leff = EffectivelyEmpty(Decoded(disk))
          /\ facts'.llog = LogicallyEmpty(Decoded(disk))
      BY <2>2 DEF ReaderLoads, IInv, TypeOK, Facts
    <3>2. Decoded(disk).shebang = disk.shebang
      BY <1>1 DEF Decoded, FileContent
    <3> QED BY <3>1, <3>2 DEF EffectivelyEmpty, LogicallyEmpty
  <2> QED BY <2>1, <2>2
<1> QED BY <1>1, <1>3, <1>4, NoneAssumption DEF ReportInv

\* No pipeline has a step behind the writer.
LEMMA WriterIsLast ==
  ASSUME IInv, Running("writer")
  PROVE  Tail(todo) = <<>>
<1>1. /\ todo \in Seq(Steps) /\ todo # <<>> /\ InOrder(todo) /\ todo[1] = "writer"
  BY DEF Running, IInv, TypeOK, TodoOfPipeline
<1>2. /\ Tail(todo) \in Seq(Steps) /\ InOrder(Tail(todo))
      /\ \A step \in ToSet(Tail(todo)) : 11 < Rank(step)
  BY <1>1, TakeFirst DEF Rank
<1>3. SUFFICES ASSUME Tail(todo) # <<>>
               PROVE  FALSE
  OBVIOUS
<1>4. PICK step \in Steps : step \in ToSet(Tail(todo))
  <2>1. Tail(todo)[1] \in Steps /\ Tail(todo)[1] \in ToSet(Tail(todo))
    BY <1>2, <1>3, TakeFirst
  <2> QED BY <2>1
<1>5. 11 < Rank(step) /\ Rank(step) \in 1..11
  BY <1>2, <1>4, RankOfSteps
<1> QED BY <1>5

\* WriterStep: what may_proceed asked for is still so when the sink is done.
LEMMA WritingReports ==
  ASSUME IInv, ReportInv, Writer
  PROVE  ReportInv'
<1>1. Running("writer") /\ UNCHANGED <<facts, read>>
  BY DEF Writer
<1>2. PICK result : Settle([st EXCEPT !.write = result], FALSE, views)
  BY DEF Writer
<1>3. st' = [st EXCEPT !.write = result] /\ todo' = <<>> /\ mode' = mode /\ setup' = setup
      /\ (halt # None => halt' # None)
  BY <1>1, <1>2, WriterIsLast DEF Settle
<1>4. /\ st'.fs = st.fs /\ st'.content = st.content /\ st'.plan = st.plan
      /\ st'.resolve = st.resolve /\ st'.strip = st.strip /\ st'.header = st.header
  BY <1>3 DEF IInv, TypeOK, ProcessingStatus
<1>5. mode.sink # "stdout" => st.plan \in ConcretePlans /\ CanChange(st, policy, facts)
  BY <1>1 DEF Running, MayProceed, Gate
<1>6. CanChange(st, policy, facts) => CanChange(st', policy', facts')
  BY <1>1, <1>3, <1>4 DEF CanChange, policy, ShouldRemoveBom, IsEmptyForInsert,
                          AllowInsertIntoEmptyLike
<1> QED BY <1>1, <1>3, <1>4, <1>5, <1>6 DEF ReportInv

\* What happens outside of the steps.
LEMMA OtherReports ==
  ASSUME IInv, ReportInv,
         StartRun \/ EndRun \/ BuilderRaises \/ ExternalEdit \/ ExternalChmod \/ UNCHANGED vars
  PROVE  ReportInv'
<1>1. CASE StartRun
  <2>1. st = AllPending /\ st' = st
    BY <1>1 DEF StartRun, IInv, FreshBetweenRuns
  <2> QED BY <2>1 DEF ReportInv, AllPending, ReadableFs
<1>2. CASE EndRun
  <2>1. st' = AllPending
    BY <1>2 DEF EndRun
  <2> QED BY <2>1 DEF ReportInv, AllPending, ReadableFs
<1>3. CASE BuilderRaises
  <2>1. /\ UNCHANGED <<setup, mode, st, facts, read>> /\ halt' # None /\ todo' = <<>>
    BY <1>3, NoneAssumption DEF BuilderRaises
  <2> QED BY <2>1 DEF ReportInv, policy, CanChange, ShouldRemoveBom, IsEmptyForInsert,
                      AllowInsertIntoEmptyLike
<1>4. CASE ExternalEdit \/ ExternalChmod \/ UNCHANGED vars
  <2>1. UNCHANGED <<setup, run>>
    BY <1>4 DEF ExternalEdit, ExternalChmod, vars
  <2> QED BY <2>1 DEF ReportInv, run, policy, CanChange, ShouldRemoveBom, IsEmptyForInsert,
                      AllowInsertIntoEmptyLike
<1> QED BY <1>1, <1>2, <1>3, <1>4

\* Every step keeps what is known of reading and writing.
LEMMA NextReports ==
  ASSUME IInv, ReportInv, [Next]_vars
  PROVE  ReportInv'
BY StepsThatLookAway, LookingAwayKeeps, SniffingReports, NotReadingReports, ReadingReports,
   WritingReports, OtherReports DEF Next, Step

\* A write rests on a concrete plan and on can_change, up to the report of the run.
THEOREM Reporting == Spec => []ReportInv
<1>1. Init => ReportInv
  BY DEF Init, ReportInv, AllPending, ReadableFs
<1>2. IInv /\ ReportInv /\ [Next]_vars => ReportInv'
  BY NextReports
<1> QED BY <1>1, <1>2, Invariance, PTL DEF Spec

\* A run that wrote the file says so, a check that failed to write says that.
THEOREM WritesAreReported == Spec => []WriteIsReported
<1>1. ASSUME IInv, ReportInv, Finished, mode.sink # "stdout",
             st.fs = "BOM_BEFORE_SHEBANG" => read # None /\ read.shebang
      PROVE  /\ st.write = "WRITTEN" => Outcome \in {"INSERTED", "UPDATED", "STRIPPED"}
             /\ st.write = "FAILED" /\ mode.cmd = "check" => Outcome = "ERROR"
  <2> SUFFICES ASSUME st.write \in {"WRITTEN", "FAILED"}
               PROVE  /\ st.write = "WRITTEN" => Outcome \in {"INSERTED", "UPDATED", "STRIPPED"}
                      /\ st.write = "FAILED" /\ mode.cmd = "check" => Outcome = "ERROR"
    OBVIOUS
  <2>1. /\ mode # None /\ mode.apply /\ st.plan \in ConcretePlans
        /\ CanChange(st, policy, facts)
    BY <1>1 DEF Finished, ReportInv, IInv, PlanRestsOnDecisions
  <2>2. st.content = "OK" /\ st.fs \in ReadableFs
    BY <1>1, <2>1 DEF IInv, DecidedFromBelow, ReportInv, ConcretePlans
  <2>3. st.resolve = "RESOLVED"
    BY <2>1 DEF CanChange
  <2>4. ~EmptyUnchangedByDefault(st, policy, facts)
    <3>1. CASE ShouldRemoveBom(st, policy, facts)
      <4>1. st.fs = "BOM_BEFORE_SHEBANG" /\ ~facts.leff /\ ~facts.llog
        BY <1>1, <2>2, <3>1 DEF ShouldRemoveBom, ReportInv
      <4> QED BY <4>1 DEF EmptyUnchangedByDefault, IsEmptyForInsert
    <3>2. CASE ~ShouldRemoveBom(st, policy, facts)
      BY <2>1, <3>2 DEF CanChange, EmptyUnchangedByDefault, IsEmptyForInsert,
                        AllowInsertIntoEmptyLike
    <3> QED BY <3>1, <3>2
  <2>5. Outcome = IF ActionIntent(st) = "strip" THEN StripOutcome(st, mode.apply)
                  ELSE HeaderOutcome(st, policy, mode.apply)
    BY <2>1, <2>2, <2>3, <2>4 DEF Outcome, MapBucket, ReadableFs
  <2>6. CASE st.plan = "REMOVED"
    <3>1. st.strip = "READY" /\ mode.cmd = "strip"
      BY <1>1, <2>6 DEF IInv, PlanRestsOnDecisions, DecidedFromBelow
    <3>2. ActionIntent(st) = "strip" /\ StripOutcome(st, mode.apply) = "STRIPPED"
      BY <2>1, <3>1 DEF ActionIntent, StripOutcome
    <3> QED BY <2>5, <3>1, <3>2
  <2>7. CASE st.plan \in {"INSERTED", "REPLACED"}
    <3>1. /\ mode.cmd = "check" /\ st.comparison = "CHANGED" /\ st.strip = "PENDING"
          /\ st.header \notin {"PENDING", "MALFORMED"} /\ PermittedByPolicy(st, policy)
      BY <1>1, <2>1, <2>7, CheckPlanIsPermitted DEF IInv, PlanRestsOnDecisions
    <3>2. st.render = "RENDERED"
      BY <1>1, <3>1 DEF IInv, DecidedFromBelow
    <3>3. ActionIntent(st) \in {"insert", "update"}
      BY <3>1 DEF ActionIntent
    <3>4. Outcome = HeaderOutcome(st, policy, TRUE)
      BY <2>1, <2>5, <3>3 DEF IInv, TypeOK, RunOptions
    <3>5. HeaderOutcome(st, policy, TRUE) =
            IF st.write = "WRITTEN" THEN ChangedOutcome(st, TRUE) ELSE "ERROR"
      BY <3>1, <3>2 DEF HeaderOutcome, ChangeIsDue
    <3>6. ChangedOutcome(st, TRUE) \in {"INSERTED", "UPDATED"}
      BY <3>3 DEF ChangedOutcome
    <3> QED BY <3>4, <3>5, <3>6
  <2> QED BY <2>1, <2>6, <2>7 DEF ConcretePlans
<1>2. IInv /\ ReportInv => WriteIsReported
  BY <1>1 DEF WriteIsReported
<1> QED BY <1>2, Invariance, Reporting, PTL

------------------------------------------------------------------------------
(***************************************************************************)
(* What each action does, as far as texts and verdicts go.                 *)
(***************************************************************************)

\* The steps still to come declare that they read this view.
Needed(slot) == slot \in RemainingConsumers(todo)

\* Everything that is known of a run in progress.
Base == IInv /\ ReportInv

\* All status axes but the ones named stay as they are.
OthersKept(own) ==
  /\ "resolve" \notin own => st'.resolve = st.resolve
  /\ "fs" \notin own => st'.fs = st.fs
  /\ "content" \notin own => st'.content = st.content
  /\ "header" \notin own => st'.header = st.header
  /\ "generation" \notin own => st'.generation = st.generation
  /\ "render" \notin own => st'.render = st.render
  /\ "comparison" \notin own => st'.comparison = st.comparison
  /\ "strip" \notin own => st'.strip = st.strip
  /\ "plan" \notin own => st'.plan = st.plan
  /\ "write" \notin own => st'.write = st.write

\* A view is dropped when nobody needs it any more; otherwise it is as the step left it.
ViewsLeft(v) ==
  /\ views'.image \in {v.image, None} /\ views'.header \in {v.header, None}
  /\ views'.build \in {v.build, None} /\ views'.render \in {v.render, None}
  /\ views'.updated \in {v.updated, None} /\ views'.edit \in {v.edit, None}
  /\ Needed("image")' => Needed("image") /\ views'.image = v.image
  /\ Needed("header")' => Needed("header") /\ views'.header = v.header
  /\ Needed("build")' => Needed("build") /\ views'.build = v.build
  /\ Needed("render")' => Needed("render") /\ views'.render = v.render
  /\ Needed("updated")' => Needed("updated") /\ views'.updated = v.updated
  /\ Needed("edit")' => Needed("edit") /\ views'.edit = v.edit

\* The runner's share in a step: it goes on unless the step asked to stop or left its own
\* axis open.
WentOn(stop) ==
  /\ mode # None /\ todo # <<>> /\ mode' = mode /\ setup' = setup /\ last' = last
  /\ todo' = Tail(todo) /\ ToSet(todo') \subseteq ToSet(todo)
  /\ halt # None \/ stop => halt' # None
  /\ halt # None => halt' = halt
  /\ halt = None /\ ~stop /\ PrimaryStatus(todo[1], st') # "PENDING" => halt' = None

\* BaseStep.__call__ and the loop around it, for a step leaving status s and views v.
LEMMA Leaving ==
  ASSUME IInv, mode # None, todo # <<>>, NEW s, NEW stop, NEW v \in Views, Settle(s, stop, v)
  PROVE  st' = s /\ WentOn(stop) /\ ViewsLeft(v)
<1>1. st' = s /\ todo' = Tail(todo) /\ views' = Release(v, RemainingConsumers(todo'))
  BY DEF Settle
<1>2. todo[1] \in Steps /\ ToSet(Tail(todo)) \subseteq ToSet(todo)
  BY TakeFirst DEF IInv, TypeOK, TodoOfPipeline
<1>3. RemainingConsumers(todo') \subseteq RemainingConsumers(todo)
  BY <1>1, <1>2, ConsumersShrink
<1>4. WentOn(stop)
  BY <1>1, <1>2, NoneAssumption DEF Settle, WentOn
<1>5. ViewsLeft(v)
  BY <1>1, <1>3 DEF ViewsLeft, Needed, Release
<1> QED BY <1>1, <1>4, <1>5

\* A step whose gate is closed.
LEMMA PassEffect ==
  ASSUME IInv, Pass
  PROVE  /\ ~MayProceed(todo[1])
         /\ st' = st /\ WentOn(FALSE) /\ ViewsLeft(views) /\ UNCHANGED <<disk, access, facts, read>>
BY Leaving DEF Pass, IInv, TypeOK

\* The status of a step that writes one axis.
LEMMA ResolveEffect ==
  ASSUME IInv, Resolver \/ Prober
  PROVE  /\ todo[1] \in {"resolver", "prober"} /\ st'.resolve = ftype.resolve
         /\ OthersKept({"resolve"})
         /\ WentOn(todo[1] = "prober" \/ ftype.resolve # "RESOLVED")
         /\ ViewsLeft(views) /\ UNCHANGED <<disk, access, facts, read>>
<1> DEFINE s == [st EXCEPT !.resolve = ftype.resolve]
<1>1. PICK stop \in BOOLEAN :
        /\ stop = (todo[1] = "prober" \/ ftype.resolve # "RESOLVED")
        /\ mode # None /\ todo # <<>> /\ todo[1] \in {"resolver", "prober"}
        /\ Settle(s, stop, views) /\ UNCHANGED <<disk, access, facts, read>>
  BY DEF Resolver, Prober, Running
<1>2. st' = s /\ WentOn(stop) /\ ViewsLeft(views)
  BY <1>1, Leaving DEF IInv, TypeOK
<1> QED BY <1>1, <1>2 DEF OthersKept, IInv, TypeOK, ProcessingStatus
\* The sniffer decides on the file as it finds it.
LEMMA SnifferEffect ==
  ASSUME IInv, Sniffer
  PROVE  /\ todo[1] = "sniffer" /\ halt = None /\ OthersKept({"fs"}) /\ ViewsLeft(views)
         /\ WentOn(st'.fs \notin ReadableFs)
         /\ \/ st'.fs = IF SnifferStat = "open" THEN SniffStream ELSE SnifferStat
            \/ IOMayFail /\ st'.fs = "UNREADABLE"
         /\ facts' = IF st'.fs \in {"OK", "BOM_BEFORE_SHEBANG", "UNICODE_DECODE_ERROR",
                                    "MIXED_LINE_ENDINGS"}
                     THEN [facts EXCEPT !.bom = disk.bom, !.shebang = disk.shebang] ELSE facts
         /\ UNCHANGED <<disk, access, read>>
<1>1. /\ mode # None /\ todo # <<>> /\ todo[1] = "sniffer" /\ halt = None
      /\ UNCHANGED <<disk, access, read>>
  BY DEF Sniffer, Running, MayProceed
<1>2. PICK fs \in {IF SnifferStat = "open" THEN SniffStream ELSE SnifferStat}
               \cup (IF SnifferStat = "open" /\ IOMayFail THEN {"UNREADABLE"} ELSE {}) :
        /\ Settle([st EXCEPT !.fs = fs], fs \notin ReadableFs, views)
        /\ facts' = IF fs \in {"OK", "BOM_BEFORE_SHEBANG", "UNICODE_DECODE_ERROR",
                               "MIXED_LINE_ENDINGS"}
                    THEN [facts EXCEPT !.bom = disk.bom, !.shebang = disk.shebang] ELSE facts
  <2>1. \A fs : fs \notin ReadableFs
              <=> fs \notin {"OK", "EMPTY", "BOM_BEFORE_SHEBANG", "MIXED_LINE_ENDINGS"}
    BY DEF ReadableFs
  <2> QED BY <2>1 DEF Sniffer, ReadableFs
<1>3. st' = [st EXCEPT !.fs = fs] /\ WentOn(fs \notin ReadableFs) /\ ViewsLeft(views)
  BY <1>1, <1>2, Leaving DEF IInv, TypeOK
<1>4. st'.fs = fs /\ OthersKept({"fs"})
  BY <1>3 DEF OthersKept, IInv, TypeOK, ProcessingStatus
<1> QED BY <1>1, <1>2, <1>3, <1>4

\* The reader gives up: refused by policy, or the file cannot be read any more.
LEMMA NotReadingEffect ==
  ASSUME IInv, ReaderRefuses \/ ReaderFails
  PROVE  /\ todo[1] = "reader" /\ halt = None /\ OthersKept({"content"}) /\ ViewsLeft(views)
         /\ WentOn(TRUE) /\ st'.content # "OK" /\ st.content = "PENDING"
         /\ UNCHANGED <<disk, access, read>>
         /\ ReaderGate # "OK" \/ disk = None \/ access = "none" \/ IOMayFail
<1>1. /\ Running("reader") /\ mode # None /\ todo # <<>> /\ todo[1] = "reader" /\ halt = None
      /\ UNCHANGED <<disk, access, read>>
      /\ ReaderGate # "OK" \/ disk = None \/ access = "none" \/ IOMayFail
  BY DEF ReaderRefuses, ReaderFails, Running, MayProceed
<1>2. PICK content : Settle([st EXCEPT !.content = content], TRUE, views) /\ content # "OK"
  <2>1. CASE ReaderRefuses
    BY <2>1 DEF ReaderRefuses
  <2>2. CASE ReaderFails
    <3>1. Settle([st EXCEPT !.content = "UNREADABLE"], TRUE, views) /\ "UNREADABLE" # "OK"
      BY <2>2 DEF ReaderFails
    <3> QED BY <3>1
  <2> QED BY <2>1, <2>2
<1>3. st' = [st EXCEPT !.content = content] /\ WentOn(TRUE) /\ ViewsLeft(views)
  BY <1>1, <1>2, Leaving DEF IInv, TypeOK
<1>4. st.content = "PENDING"
  BY <1>1, StepAtHand, AxisOfStep
<1> QED BY <1>1, <1>2, <1>3, <1>4 DEF OthersKept, IInv, TypeOK, ProcessingStatus

\* The reader takes an empty file for what it is.
LEMMA EmptyEffect ==
  ASSUME IInv, ReaderFindsEmpty
  PROVE  /\ todo[1] = "reader" /\ halt = None /\ OthersKept({"fs", "content"})
         /\ ViewsLeft([views EXCEPT !.image = disk]) /\ [views EXCEPT !.image = disk].image = disk
         /\ [views EXCEPT !.image = disk].updated = views.updated
         /\ [views EXCEPT !.image = disk].edit = views.edit
         /\ [views EXCEPT !.image = disk].header = views.header
         /\ WentOn(FALSE) /\ st'.fs = "EMPTY" /\ st'.content = "OK" /\ st.content = "PENDING"
         /\ disk \in FileContent /\ ~Sized(disk) /\ read' = disk /\ ReaderGate = "OK"
         /\ facts'.leff = TRUE /\ facts'.llog = TRUE
         /\ facts'.bom = facts.bom /\ facts'.shebang = facts.shebang
         /\ UNCHANGED <<disk, access>>
<1>1. /\ Running("reader") /\ mode # None /\ todo # <<>> /\ todo[1] = "reader" /\ halt = None
      /\ disk \in FileContent /\ ~Sized(disk) /\ ReaderGate = "OK" /\ read' = disk
      /\ UNCHANGED <<disk, access>>
  BY DEF ReaderFindsEmpty, Running, MayProceed, IInv, TypeOK
<1>2. [views EXCEPT !.image = disk] \in Views
  BY <1>1 DEF IInv, TypeOK, Views
<1>3. /\ st' = [st EXCEPT !.fs = "EMPTY", !.content = "OK"]
      /\ WentOn(FALSE) /\ ViewsLeft([views EXCEPT !.image = disk])
  BY <1>1, <1>2, Leaving DEF ReaderFindsEmpty
<1>4. st.content = "PENDING"
  BY <1>1, StepAtHand, AxisOfStep
<1>5. /\ facts'.leff = TRUE /\ facts'.llog = TRUE
      /\ facts'.bom = facts.bom /\ facts'.shebang = facts.shebang
  BY DEF ReaderFindsEmpty, IInv, TypeOK, Facts
<1>6. OthersKept({"fs", "content"}) /\ st'.fs = "EMPTY" /\ st'.content = "OK"
  BY <1>3 DEF OthersKept, IInv, TypeOK, ProcessingStatus
<1> QED BY <1>1, <1>2, <1>3, <1>4, <1>5, <1>6 DEF IInv, TypeOK, Views

\* What the reader makes of text.
ReaderRejects(c) == MixedEol(c) /\ policy.mixed = "reject"
ReaderReflows(c) ==
  /\ ftype.checker
  /\ (IF ~ReaderRejects(c) THEN Capability(c) ELSE facts.cap) = "REFLOW" /\ ~policy.reflow

\* The reader loads the text: all it tells from it.
LEMMA LoadEffect ==
  ASSUME IInv, ReaderLoads
  PROVE  /\ todo[1] = "reader" /\ halt = None /\ OthersKept({"fs", "content"})
         /\ ViewsLeft([views EXCEPT !.image = Decoded(disk)])
         /\ [views EXCEPT !.image = Decoded(disk)].image = Decoded(disk)
         /\ [views EXCEPT !.image = Decoded(disk)].updated = views.updated
         /\ [views EXCEPT !.image = Decoded(disk)].edit = views.edit
         /\ [views EXCEPT !.image = Decoded(disk)].header = views.header
         /\ WentOn(st'.content # "OK") /\ st.content = "PENDING"
         /\ st'.content = "OK" <=> ~ReaderRejects(disk) /\ ~ReaderReflows(disk)
         /\ st'.fs = IF MixedEol(disk) /\ ~ReaderRejects(disk) THEN "MIXED_LINE_ENDINGS" ELSE st.fs
         /\ disk \in FileContent /\ Sized(disk) /\ read' = disk /\ ReaderGate = "OK"
         /\ facts'.leff = EffectivelyEmpty(disk) /\ facts'.llog = LogicallyEmpty(disk)
         /\ facts'.bom = (facts.bom \/ disk.bom) /\ facts'.shebang = facts.shebang
         /\ UNCHANGED <<disk, access>>
<1> DEFINE text == Decoded(disk)
           refused == MixedEol(text) /\ policy.mixed = "reject"
           cap == IF ftype.checker /\ ~refused THEN Capability(text) ELSE facts.cap
           reflow == ftype.checker /\ cap = "REFLOW" /\ ~policy.reflow
           content == IF refused THEN "SKIPPED_MIXED_LINE_ENDINGS"
                      ELSE IF reflow THEN "SKIPPED_REFLOW" ELSE "OK"
           fs == IF MixedEol(text) /\ ~refused THEN "MIXED_LINE_ENDINGS" ELSE st.fs
<1>1. /\ Running("reader") /\ mode # None /\ todo # <<>> /\ todo[1] = "reader" /\ halt = None
      /\ disk \in FileContent /\ Sized(disk) /\ ReaderGate = "OK" /\ read' = disk
      /\ UNCHANGED <<disk, access>>
  BY DEF ReaderLoads, Running, MayProceed, IInv, TypeOK
<1>2. text \in FileContent
  BY <1>1 DEF Decoded, FileContent, Encodings, Undecodable
<1>3. [views EXCEPT !.image = text] \in Views
  BY <1>2 DEF IInv, TypeOK, Views
<1>4. /\ Settle([st EXCEPT !.content = content, !.fs = fs], refused \/ reflow,
                [views EXCEPT !.image = text])
      /\ facts' = [facts EXCEPT !.bom = @ \/ disk.bom, !.cap = cap,
                                !.leff = EffectivelyEmpty(text), !.llog = LogicallyEmpty(text)]
  BY DEF ReaderLoads
<1>5. /\ MixedEol(text) = MixedEol(disk) /\ Capability(text) = Capability(disk)
      /\ EffectivelyEmpty(text) = EffectivelyEmpty(disk) /\ LogicallyEmpty(text) = LogicallyEmpty(disk)
  BY <1>1 DEF Decoded, FileContent, MixedEol, Capability, EffectivelyEmpty, LogicallyEmpty
<1>6. refused <=> ReaderRejects(disk)
  BY <1>5 DEF ReaderRejects
<1>7. reflow <=> ReaderReflows(disk)
  BY <1>5, <1>6 DEF ReaderReflows
<1>8. /\ st' = [st EXCEPT !.content = content, !.fs = fs] /\ WentOn(refused \/ reflow)
      /\ ViewsLeft([views EXCEPT !.image = text])
  <2> HIDE DEF text, refused, reflow, content, fs
  <2> QED BY <1>1, <1>3, <1>4, Leaving
<1>9. st.content = "PENDING"
  BY <1>1, StepAtHand, AxisOfStep
<1>10. /\ facts'.leff = EffectivelyEmpty(text) /\ facts'.llog = LogicallyEmpty(text)
       /\ facts'.bom = (facts.bom \/ disk.bom) /\ facts'.shebang = facts.shebang
  <2> HIDE DEF text, cap
  <2> QED BY <1>4 DEF IInv, TypeOK, Facts
<1>11. OthersKept({"fs", "content"}) /\ st'.content = content /\ st'.fs = fs
  <2> HIDE DEF content, fs
  <2> QED BY <1>8 DEF OthersKept, IInv, TypeOK, ProcessingStatus
<1>12. content # "OK" <=> refused \/ reflow
  OBVIOUS
<1>13. /\ [views EXCEPT !.image = text].image = text
       /\ [views EXCEPT !.image = text].updated = views.updated
       /\ [views EXCEPT !.image = text].edit = views.edit
       /\ [views EXCEPT !.image = text].header = views.header
  BY DEF IInv, TypeOK, Views
<1>14. WentOn(st'.content # "OK")
  BY <1>8, <1>11, <1>12 DEF WentOn
<1>15. st'.fs = IF MixedEol(disk) /\ ~ReaderRejects(disk) THEN "MIXED_LINE_ENDINGS" ELSE st.fs
  BY <1>5, <1>6, <1>11
<1>16. st'.content = "OK" <=> ~ReaderRejects(disk) /\ ~ReaderReflows(disk)
  BY <1>6, <1>7, <1>11, <1>12
<1> HIDE DEF refused, reflow, content, fs, cap
<1> QED BY <1>1, <1>5, <1>8, <1>9, <1>10, <1>11, <1>13, <1>14, <1>15, <1>16

\* The scanner keeps what it found, unless it found nothing.
FoundHeader == IF ScannedHeader = "missing" THEN None ELSE ScannedHeader

\* The scanner halts on a broken block and where the policy forbids the change.
LEMMA ScannerEffect ==
  ASSUME IInv, Scanner
  PROVE  /\ todo[1] = "scanner" /\ halt = None /\ OthersKept({"header"})
         /\ st.content = "OK" /\ st.header = "PENDING" /\ views.image \in FileContent
         /\ st'.header = ScannedStatus
         /\ ViewsLeft([views EXCEPT !.header = FoundHeader])
         /\ [views EXCEPT !.header = FoundHeader].image = views.image
         /\ [views EXCEPT !.header = FoundHeader].updated = views.updated
         /\ [views EXCEPT !.header = FoundHeader].edit = views.edit
         /\ [views EXCEPT !.header = FoundHeader].header = FoundHeader
         /\ WentOn(\/ ScannedStatus = "MALFORMED"
                   \/ ScannedStatus \in {"MISSING", "DETECTED", "EMPTY"}
                      /\ ~PermittedByPolicy(st', policy))
         /\ UNCHANGED <<disk, access, facts, read>>
<1> DEFINE s == [st EXCEPT !.header = ScannedStatus]
           v == [views EXCEPT !.header = FoundHeader]
           stop == \/ ScannedStatus = "MALFORMED"
                   \/ ScannedStatus \in {"MISSING", "DETECTED", "EMPTY"} /\ ~PermittedByPolicy(s, policy)
<1>1. /\ mode # None /\ todo # <<>> /\ todo[1] = "scanner" /\ halt = None /\ st.content = "OK"
      /\ Settle(s, stop, v) /\ UNCHANGED <<disk, access, facts, read>>
  BY DEF Scanner, Running, MayProceed, Gate, FoundHeader
<1>2. views.image \in FileContent /\ st.header = "PENDING"
  BY <1>1, InputsAtHand, StepAtHand, AxisOfStep
<1>3. v \in Views
  <2>1. FoundHeader \in HeaderKinds \cup {None}
    BY <1>2, ElementOfSeq, EmptySeq DEF FoundHeader, ScannedHeader, TopHeader, FileContent
  <2> QED BY <2>1 DEF IInv, TypeOK, Views
<1>4. st' = s /\ WentOn(stop) /\ ViewsLeft(v)
  <2> HIDE DEF s, v, stop
  <2> QED BY <1>1, <1>3, Leaving
<1>5. OthersKept({"header"}) /\ st'.header = ScannedStatus
  BY <1>4 DEF OthersKept, IInv, TypeOK, ProcessingStatus
<1>6. /\ v.image = views.image /\ v.updated = views.updated /\ v.edit = views.edit
      /\ v.header = FoundHeader
  BY DEF IInv, TypeOK, Views
<1> HIDE DEF v
<1> QED BY <1>1, <1>2, <1>4, <1>5, <1>6 DEF v

\* The builder builds what the configuration asks for, if the policy permits.
LEMMA BuilderEffect ==
  ASSUME IInv, Builder
  PROVE  /\ todo[1] = "builder" /\ halt = None /\ OthersKept({"generation"})
         /\ st.content = "OK" /\ mode.cmd = "check" /\ st.generation = "PENDING"
         /\ st.header \notin {"PENDING", "MALFORMED"}
         /\ st'.generation = IF ~PermittedByPolicy(st, policy) THEN "SKIPPED"
                             ELSE IF setup.fields = "none" THEN "NO_FIELDS" ELSE "GENERATED"
         /\ WentOn(st'.generation = "SKIPPED")
         /\ \E v \in Views :
              /\ ViewsLeft(v) /\ v.image = views.image /\ v.header = views.header
              /\ v.updated = views.updated /\ v.edit = views.edit /\ v.render = views.render
              /\ st'.generation = "GENERATED" => v.build = Selected
         /\ UNCHANGED <<disk, access, facts, read>>
<1> DEFINE generation == IF ~PermittedByPolicy(st, policy) THEN "SKIPPED"
                         ELSE IF setup.fields = "none" THEN "NO_FIELDS" ELSE "GENERATED"
           v == IF generation = "GENERATED" THEN [views EXCEPT !.build = Selected] ELSE views
<1>1. /\ mode # None /\ todo # <<>> /\ todo[1] = "builder" /\ halt = None /\ st.content = "OK"
      /\ Settle([st EXCEPT !.generation = generation], generation = "SKIPPED", v)
      /\ UNCHANGED <<disk, access, facts, read>>
  BY DEF Builder, Running, MayProceed, Gate
<1>2. /\ v \in Views /\ v.image = views.image /\ v.header = views.header
      /\ v.updated = views.updated /\ v.edit = views.edit /\ v.render = views.render
      /\ generation = "GENERATED" => v.build = Selected
  <2> HIDE DEF generation
  <2> QED BY DEF Views, Selected, RenderedKinds, IInv, TypeOK
<1>3. /\ mode.cmd = "check" /\ st.header \notin {"PENDING", "MALFORMED"}
      /\ st.generation = "PENDING"
  BY <1>1, WhoseStep, StepAtHand, AxisOfStep
<1> HIDE DEF v
<1>4. st' = [st EXCEPT !.generation = generation] /\ WentOn(generation = "SKIPPED") /\ ViewsLeft(v)
  <2> HIDE DEF generation
  <2> QED BY <1>1, <1>2, Leaving
<1>5. OthersKept({"generation"}) /\ st'.generation = generation
  <2> HIDE DEF generation
  <2> QED BY <1>4 DEF OthersKept, IInv, TypeOK, ProcessingStatus
<1>6. \E w \in Views :
        /\ ViewsLeft(w) /\ w.image = views.image /\ w.header = views.header
        /\ w.updated = views.updated /\ w.edit = views.edit /\ w.render = views.render
        /\ st'.generation = "GENERATED" => w.build = Selected
  BY <1>2, <1>4, <1>5
<1>7. WentOn(st'.generation = "SKIPPED")
  BY <1>4, <1>5 DEF WentOn
<1> QED BY <1>1, <1>3, <1>5, <1>6, <1>7

\* What the configuration comes to as a header: a kind, no lines at all, or an error.
Rendering ==
  IF setup.fields = "none" THEN (IF policy.renderEmpty THEN "empty" ELSE "nolines")
  ELSE IF setup.fields = "invalid" THEN "failed" ELSE Selected

\* The status the renderer then has.
RenderingStatus ==
  IF Rendering = "nolines" THEN "SKIPPED" ELSE IF Rendering = "failed" THEN "FAILED" ELSE "RENDERED"

\* From the builder on a check works with what is configured, whatever becomes of the file.
RenderedAsConfigured ==
  /\ st.generation = "GENERATED" =>
       setup.fields # "none" /\ (Needed("build") => views.build = Selected)
  /\ st.generation = "NO_FIELDS" => setup.fields = "none"
  /\ st.render # "PENDING" => st.render = RenderingStatus
  /\ st.render = "RENDERED" /\ Needed("render") => views.render = Rendering

\* The renderer renders it.
LEMMA RendererEffect ==
  ASSUME IInv, RenderedAsConfigured, Renderer
  PROVE  /\ todo[1] = "renderer" /\ halt = None /\ OthersKept({"render"})
         /\ mode.cmd = "check" /\ st.render = "PENDING" /\ st'.render = RenderingStatus
         /\ WentOn(st'.render # "RENDERED")
         /\ \E v \in Views :
              /\ ViewsLeft(v) /\ v.image = views.image /\ v.header = views.header
              /\ v.updated = views.updated /\ v.edit = views.edit /\ v.build = views.build
              /\ st'.render = "RENDERED" => v.render = Rendering
         /\ UNCHANGED <<disk, access, facts, read>>
<1> DEFINE noFields == st.generation = "NO_FIELDS"
           result == IF noFields THEN (IF policy.renderEmpty THEN "empty" ELSE "nolines")
                     ELSE IF setup.fields = "invalid" THEN "failed"
                     ELSE IF views.build = None THEN "missing" ELSE views.build
           status == CASE result = "nolines" -> "SKIPPED"
                       [] result = "failed" -> "FAILED"
                       [] OTHER -> "RENDERED"
           v == IF result = "failed" THEN views ELSE [views EXCEPT !.render = result]
<1>1. /\ mode # None /\ todo # <<>> /\ todo[1] = "renderer" /\ halt = None
      /\ st.generation \in {"GENERATED", "NO_FIELDS"}
      /\ Settle([st EXCEPT !.render = status], status # "RENDERED", v)
      /\ UNCHANGED <<disk, access, facts, read>>
  BY DEF Renderer, Running, MayProceed, Gate
<1>2. Needed("build")
  BY <1>1, StepAtHand, HeadConsumes DEF ConsumesViews, Needed
<1>3. result = Rendering
  <2>1. Selected # None
    BY NoneAssumption DEF Selected, HeaderKinds
  <2> QED BY <1>1, <1>2, <2>1 DEF RenderedAsConfigured, Rendering
<1>4. Rendering \in RenderedKinds \cup {"nolines", "failed"}
  BY DEF Rendering, RenderedKinds, Selected
<1>5. /\ v \in Views /\ v.image = views.image /\ v.header = views.header
      /\ v.updated = views.updated /\ v.edit = views.edit /\ v.build = views.build
      /\ status = "RENDERED" => v.render = Rendering
  <2> HIDE DEF result
  <2> QED BY <1>3, <1>4 DEF IInv, TypeOK, Views, RenderedKinds
<1>6. status = RenderingStatus
  <2> HIDE DEF result
  <2> QED BY <1>3 DEF RenderingStatus
<1> HIDE DEF v
<1>7. /\ st' = [st EXCEPT !.render = status] /\ WentOn(status # "RENDERED") /\ ViewsLeft(v)
  <2> HIDE DEF status
  <2> QED BY <1>1, <1>5, Leaving
<1>8. OthersKept({"render"}) /\ st'.render = status
  <2> HIDE DEF status
  <2> QED BY <1>7 DEF OthersKept, IInv, TypeOK, ProcessingStatus
<1>9. mode.cmd = "check" /\ st.render = "PENDING"
  BY <1>1, WhoseStep, StepAtHand, AxisOfStep
<1>10. \E w \in Views :
         /\ ViewsLeft(w) /\ w.image = views.image /\ w.header = views.header
         /\ w.updated = views.updated /\ w.edit = views.edit /\ w.build = views.build
         /\ st'.render = "RENDERED" => w.render = Rendering
  <2> HIDE DEF status
  <2> QED BY <1>5, <1>7, <1>8
<1>11. WentOn(st'.render # "RENDERED")
  <2> HIDE DEF status
  <2> QED BY <1>7, <1>8 DEF WentOn
<1> HIDE DEF status
<1> QED BY <1>1, <1>6, <1>8, <1>9, <1>10, <1>11

\* What is still there of the rendering and the edit in a check when the comparer runs.
LEMMA ComparerEffect ==
  ASSUME IInv, Comparer
  PROVE  /\ todo[1] = "comparer" /\ halt = None /\ OthersKept({"comparison"})
         /\ st.comparison = "PENDING" /\ (st.render = "RENDERED" \/ views.updated # None)
         /\ Needed("render") /\ Needed("header") /\ Needed("edit") /\ Needed("updated")
         /\ st'.comparison =
              IF st.header \in {"MALFORMED_ALL_FIELDS", "MALFORMED_SOME_FIELDS"} THEN "SKIPPED"
              ELSE IF \/ views.edit = "single"
                      \/ views.updated # None /\ views.updated # views.image
                      \/ views.updated = None /\ ExistingHeader # views.render
                      \/ views.updated = None /\ ShouldRemoveBom(st, policy, facts)
                   THEN "CHANGED" ELSE "UNCHANGED"
         /\ WentOn(st'.comparison = "SKIPPED") /\ ViewsLeft(views)
         /\ UNCHANGED <<disk, access, facts, read>>
<1> DEFINE malformed == st.header \in {"MALFORMED_ALL_FIELDS", "MALFORMED_SOME_FIELDS"}
           changed == \/ views.edit = "single"
                      \/ views.updated # None /\ views.updated # views.image
                      \/ views.updated = None /\ ExistingHeader # views.render
                      \/ views.updated = None /\ ShouldRemoveBom(st, policy, facts)
           comparison == IF malformed THEN "SKIPPED" ELSE IF changed THEN "CHANGED" ELSE "UNCHANGED"
<1>1. /\ mode # None /\ todo # <<>> /\ todo[1] = "comparer" /\ halt = None
      /\ st.render = "RENDERED" \/ views.updated # None
      /\ Settle([st EXCEPT !.comparison = comparison], malformed, views)
      /\ UNCHANGED <<disk, access, facts, read>>
  BY DEF Comparer, Running, MayProceed, Gate
<1>2. /\ st' = [st EXCEPT !.comparison = comparison] /\ WentOn(malformed) /\ ViewsLeft(views)
  <2> HIDE DEF comparison
  <2> QED BY <1>1, Leaving DEF IInv, TypeOK
<1>3. OthersKept({"comparison"}) /\ st'.comparison = comparison
  <2> HIDE DEF comparison
  <2> QED BY <1>2 DEF OthersKept, IInv, TypeOK, ProcessingStatus
<1>4. /\ st.comparison = "PENDING"
      /\ Needed("render") /\ Needed("header") /\ Needed("edit") /\ Needed("updated")
  BY <1>1, StepAtHand, AxisOfStep, HeadConsumes DEF ConsumesViews, Needed
<1>5. malformed <=> comparison = "SKIPPED"
  OBVIOUS
<1>6. WentOn(st'.comparison = "SKIPPED")
  <2> HIDE DEF comparison, malformed
  <2> QED BY <1>2, <1>3, <1>5 DEF WentOn
<1> QED BY <1>1, <1>2, <1>3, <1>4, <1>6

\* The stripper's verdict, and the text it makes ready.
Found == st.header \in {"DETECTED", "EMPTY"}
StripVerdict ==
  IF st.header = "MISSING" /\ ~ShouldRemoveBom(st, policy, facts) THEN "NOT_NEEDED"
  ELSE IF Found \/ st.header = "MISSING" THEN "READY" ELSE "FAILED"
StrippedText == IF Found THEN [Stripped(views.image) EXCEPT !.bom = KeptBom] ELSE views.image

\* The stripper takes out the block that was found, and no more.
LEMMA StripperEffect ==
  ASSUME IInv, Stripper
  PROVE  /\ todo[1] = "stripper" /\ halt = None /\ OthersKept({"strip"})
         /\ st.content = "OK" /\ mode.cmd = "strip" /\ st.strip = "PENDING"
         /\ st.header \notin {"PENDING", "MALFORMED"}
         /\ views.image \in FileContent /\ StrippedText \in FileContent
         /\ Found => views.image.headers # <<>>
         /\ st'.strip = StripVerdict /\ WentOn(st'.strip = "FAILED")
         /\ \E v \in Views :
              /\ ViewsLeft(v) /\ v.image = views.image /\ v.header = views.header
              /\ v.updated = IF st'.strip = "READY" THEN StrippedText ELSE views.updated
              /\ v.edit = IF st'.strip = "READY" THEN "single" ELSE views.edit
         /\ UNCHANGED <<disk, access, facts, read>>
<1> DEFINE v == IF StripVerdict = "READY"
                THEN [views EXCEPT !.updated = StrippedText, !.edit = "single"] ELSE views
<1>1. /\ mode # None /\ todo # <<>> /\ todo[1] = "stripper" /\ halt = None /\ st.content = "OK"
      /\ Settle([st EXCEPT !.strip = StripVerdict], StripVerdict = "FAILED", v)
      /\ UNCHANGED <<disk, access, facts, read>>
  BY DEF Stripper, Running, MayProceed, Gate, StripVerdict, StrippedText, Found
<1>2. views.image \in FileContent /\ (Found => views.image.headers # <<>>)
  BY <1>1, InputsAtHand, NoneAssumption DEF Found, IInv, HeaderIsInImage
<1>3. StrippedText \in FileContent
  <2>1. CASE Found
    <3>1. Tail(views.image.headers) \in Seq(HeaderKinds)
      BY <1>2, <2>1, HeadTailProperties DEF FileContent
    <3>2. Stripped(views.image) \in FileContent
      BY <1>2, <3>1 DEF Stripped, FileContent, Bodies
    <3> QED BY <2>1, <3>2, BomIsBoolean DEF StrippedText, FileContent
  <2> QED BY <1>2, <2>1 DEF StrippedText
<1>4. /\ v \in Views /\ v.image = views.image /\ v.header = views.header
      /\ v.updated = IF StripVerdict = "READY" THEN StrippedText ELSE views.updated
      /\ v.edit = IF StripVerdict = "READY" THEN "single" ELSE views.edit
  BY <1>3 DEF IInv, TypeOK, Views
<1> HIDE DEF v
<1>5. /\ st' = [st EXCEPT !.strip = StripVerdict] /\ WentOn(StripVerdict = "FAILED")
      /\ ViewsLeft(v)
  BY <1>1, <1>4, Leaving
<1>6. OthersKept({"strip"}) /\ st'.strip = StripVerdict
  BY <1>5 DEF OthersKept, IInv, TypeOK, ProcessingStatus
<1>7. /\ mode.cmd = "strip" /\ st.header \notin {"PENDING", "MALFORMED"} /\ st.strip = "PENDING"
  BY <1>1, WhoseStep, StepAtHand, AxisOfStep
<1>8. \E w \in Views :
        /\ ViewsLeft(w) /\ w.image = views.image /\ w.header = views.header
        /\ w.updated = IF st'.strip = "READY" THEN StrippedText ELSE views.updated
        /\ w.edit = IF st'.strip = "READY" THEN "single" ELSE views.edit
  BY <1>4, <1>5, <1>6
<1> QED BY <1>1, <1>2, <1>3, <1>5, <1>6, <1>7, <1>8

\* The planner: whatever it decides, it decides only about the plan.
LEMMA PlannerEffect ==
  ASSUME IInv,
         PlanStrip \/ PlanUnchanged \/ PlanRefused \/ PlanReplace \/ PlanInsert \/ PlanNoAnchor
  PROVE  /\ todo[1] = "planner" /\ halt = None /\ OthersKept({"plan"}) /\ st.plan = "PENDING"
         /\ Needed("header") /\ Needed("render") /\ Needed("updated") /\ Needed("edit")
         /\ views.image \in FileContent
         /\ st.render = "RENDERED" => views.render \in RenderedKinds /\ mode.cmd = "check"
         /\ st.strip = "READY" => views.updated \in FileContent
         /\ views.header # None => views.image.headers # <<>>
         /\ facts'.leff = facts.leff /\ facts'.llog = facts.llog
         /\ facts'.bom = facts.bom /\ facts'.shebang = facts.shebang
         /\ UNCHANGED <<disk, access, read>>
<1>1. /\ Running("planner") /\ UNCHANGED <<disk, access, read>>
      /\ facts' \in {facts, [facts EXCEPT !.cap = PlannerCapability]}
      /\ \E plan, stop, v : Settle([st EXCEPT !.plan = plan], stop, v)
  <2>1. CASE PlanStrip \/ PlanUnchanged \/ PlanRefused \/ PlanNoAnchor
    BY <2>1 DEF PlanStrip, PlanUnchanged, PlanRefused, PlanNoAnchor, Updating
  <2>2. CASE PlanReplace \/ PlanInsert
    <3>1. PICK new, concrete : Updating /\ PlanText(new, concrete)
      BY <2>2 DEF PlanReplace, PlanInsert
    <3> QED BY <3>1 DEF PlanText, Updating
  <2> QED BY <2>1, <2>2
<1>2. PICK plan, stop, v : Settle([st EXCEPT !.plan = plan], stop, v)
  BY <1>1
<1>3. OthersKept({"plan"})
  BY <1>2 DEF Settle, OthersKept, IInv, TypeOK, ProcessingStatus
<1>4. /\ st.plan = "PENDING"
      /\ Needed("header") /\ Needed("render") /\ Needed("updated") /\ Needed("edit")
  BY <1>1, PlannerAtHand, StepAtHand, AxisOfStep, HeadConsumes DEF ConsumesViews, Needed
<1>5. /\ facts'.leff = facts.leff /\ facts'.llog = facts.llog
      /\ facts'.bom = facts.bom /\ facts'.shebang = facts.shebang
  BY <1>1 DEF IInv, TypeOK, Facts
<1> QED BY <1>1, <1>3, <1>4, <1>5, PlannerAtHand

\* What the planner leaves: a plan, with the text v of the file as it is to be.
PlanLeaves(plan, stop, updated, edit) ==
  /\ st'.plan = plan /\ WentOn(stop)
  /\ \E v \in Views :
       /\ ViewsLeft(v) /\ v.image = views.image /\ v.header = views.header
       /\ v.build = views.build /\ v.render = views.render
       /\ v.updated = updated /\ v.edit = edit

\* A settled plan.
LEMMA PlanSettles ==
  ASSUME IInv, Running("planner"), NEW plan, NEW stop, NEW updated \in FileContent \cup {None},
         NEW edit \in {"single", None},
         Settle([st EXCEPT !.plan = plan], stop, [views EXCEPT !.updated = updated, !.edit = edit])
  PROVE  PlanLeaves(plan, stop, updated, edit)
<1> DEFINE v == [views EXCEPT !.updated = updated, !.edit = edit]
<1>1. /\ v \in Views /\ v.image = views.image /\ v.header = views.header
      /\ v.build = views.build /\ v.render = views.render
      /\ v.updated = updated /\ v.edit = edit
  BY DEF IInv, TypeOK, Views
<1>2. mode # None /\ todo # <<>>
  BY DEF Running
<1> HIDE DEF v
<1>3. st' = [st EXCEPT !.plan = plan] /\ WentOn(stop) /\ ViewsLeft(v)
  BY <1>1, <1>2, Leaving DEF v
<1>4. st'.plan = plan
  BY <1>3 DEF IInv, TypeOK, ProcessingStatus
<1> QED BY <1>1, <1>3, <1>4 DEF PlanLeaves

\* What the planner would have the file be, when it plans a header at all.
NewText ==
  IF views.header # None THEN PrependBom(Replaced)
  ELSE IF ftype.insert = "text" THEN [Inserted EXCEPT !.bom = KeptBom] ELSE PrependBom(Inserted)
NewPlan == IF views.header # None THEN "REPLACED" ELSE "INSERTED"

\* The new text is a text.
LEMMA NewTextType ==
  ASSUME IInv, Running("planner"), st.render = "RENDERED"
  PROVE  /\ NewText \in FileContent
         /\ views.header # None => Replaced \in FileContent
         /\ Inserted \in FileContent
<1>1. /\ views.image \in FileContent /\ views.render \in RenderedKinds
      /\ views.header # None => views.image.headers # <<>>
      /\ views.image.headers \in Seq(HeaderKinds)
  BY PlannerAtHand DEF FileContent
<1>2. ASSUME NEW c \in FileContent
      PROVE  PrependBom(c) \in FileContent
  BY DEF PrependBom, FileContent, Sized, IInv, TypeOK, Facts
<1>3. Inserted \in FileContent
  <2>1. Prepend(views.render, views.image.headers) \in Seq(HeaderKinds)
    BY <1>1, PrependType
  <2> QED BY <1>1, <2>1 DEF Inserted, FileContent, Bodies
<1>4. [Inserted EXCEPT !.bom = KeptBom] \in FileContent
  BY <1>3, BomIsBoolean DEF FileContent
<1>5. views.header # None => Replaced \in FileContent
  <2>1. SUFFICES ASSUME views.header # None PROVE Replaced \in FileContent
    OBVIOUS
  <2>2. Tail(views.image.headers) \in Seq(HeaderKinds)
    BY <1>1, <2>1, HeadTailProperties
  <2>3. Prepend(views.render, Tail(views.image.headers)) \in Seq(HeaderKinds)
    BY <1>1, <2>2, PrependType
  <2> QED BY <1>1, <2>3 DEF Replaced, FileContent
<1> QED BY <1>2, <1>3, <1>4, <1>5 DEF NewText

\* The planner of a strip run, and the one of a check that found nothing to do.
LEMMA PlanStripEffect ==
  ASSUME IInv, PlanStrip
  PROVE  /\ st.strip = "READY" /\ views.updated \in FileContent
         /\ PlanLeaves(PlanKind("REMOVED"), FALSE, PrependBom(views.updated), views.edit)
<1>1. /\ Running("planner") /\ st.strip = "READY"
      /\ Settle([st EXCEPT !.plan = PlanKind("REMOVED")], FALSE,
                [views EXCEPT !.updated = PrependBom(@)])
  BY DEF PlanStrip
<1>2. views.updated \in FileContent
  BY <1>1, PlannerAtHand
<1>3. PrependBom(views.updated) \in FileContent
  BY <1>2 DEF PrependBom, FileContent, Sized, IInv, TypeOK, Facts
<1>4. views.edit \in {"single", None} /\ views \in Views
  BY DEF IInv, TypeOK, Views
<1>5. [views EXCEPT !.updated = PrependBom(@)]
        = [views EXCEPT !.updated = PrependBom(views.updated), !.edit = views.edit]
  <2> HIDE DEF PrependBom
  <2> QED BY <1>4 DEF Views
<1> HIDE DEF PrependBom
<1> QED BY <1>1, <1>2, <1>3, <1>4, <1>5, PlanSettles

\* Nothing is planned: the file is to stay as it was read.
PlanSkips(stop) == PlanLeaves("SKIPPED", stop, views.image, views.edit)

\* Leaving the image as the text to be.
LEMMA SkippingSettles ==
  ASSUME IInv, Running("planner"), NEW stop,
         Settle([st EXCEPT !.plan = "SKIPPED"], stop, [views EXCEPT !.updated = views.image])
  PROVE  PlanSkips(stop)
<1>1. views.edit \in {"single", None} /\ views \in Views /\ views.image \in FileContent \cup {None}
  BY DEF IInv, TypeOK, Views
<1>2. [views EXCEPT !.updated = views.image]
        = [views EXCEPT !.updated = views.image, !.edit = views.edit]
  BY <1>1 DEF Views
<1>3. Settle([st EXCEPT !.plan = "SKIPPED"], stop,
             [views EXCEPT !.updated = views.image, !.edit = views.edit])
  BY <1>2
<1> QED BY <1>1, <1>3, PlanSettles DEF PlanSkips

\* The planner of a check that was found unchanged.
LEMMA PlanUnchangedEffect ==
  ASSUME IInv, PlanUnchanged
  PROVE  st.strip # "READY" /\ st.comparison = "UNCHANGED" /\ PlanSkips(FALSE)
BY SkippingSettles DEF PlanUnchanged

\* The planner refused by the insert checker, or without a place to insert at.
LEMMA PlanGivenUpEffect ==
  ASSUME IInv, PlanRefused \/ PlanNoAnchor
  PROVE  /\ st.strip # "READY" /\ st.comparison = "CHANGED" /\ st.render = "RENDERED"
         /\ PlanSkips(TRUE) \/ PlanLeaves("FAILED", TRUE, views.updated, views.edit)
<1>1. Updating /\ Running("planner")
  BY DEF PlanRefused, PlanNoAnchor, Updating
<1>2. ASSUME PlanRefused PROVE PlanSkips(TRUE)
  BY <1>1, <1>2, SkippingSettles DEF PlanRefused
<1>3. ASSUME PlanNoAnchor PROVE PlanLeaves("FAILED", TRUE, views.updated, views.edit)
  <2>1. Settle([st EXCEPT !.plan = "FAILED"], TRUE, views)
    BY <1>3 DEF PlanNoAnchor
  <2>2. /\ views = [views EXCEPT !.updated = views.updated, !.edit = views.edit]
        /\ views.updated \in FileContent \cup {None} /\ views.edit \in {"single", None}
    BY DEF IInv, TypeOK, Views
  <2>3. Settle([st EXCEPT !.plan = "FAILED"], TRUE,
               [views EXCEPT !.updated = views.updated, !.edit = views.edit])
    BY <2>1, <2>2
  <2> QED BY <1>1, <2>2, <2>3, PlanSettles
<1> QED BY <1>1, <1>2, <1>3, PlannerAtHand DEF Updating

\* The planner of a check that plans a header.
LEMMA PlanUpdateEffect ==
  ASSUME IInv, PlanReplace \/ PlanInsert
  PROVE  /\ st.strip # "READY" /\ st.comparison = "CHANGED" /\ st.render = "RENDERED"
         /\ NewText \in FileContent /\ Inserted \in FileContent
         /\ views.header # None => Replaced \in FileContent
         /\ IF NewText = SourceText THEN PlanSkips(FALSE)
            ELSE PlanLeaves(PlanKind(NewPlan), FALSE, NewText, "single")
<1>1. Updating /\ Running("planner")
  BY DEF PlanReplace, PlanInsert, Updating
<1>2. st.strip # "READY" /\ st.comparison = "CHANGED" /\ st.render = "RENDERED"
  BY <1>1, PlannerAtHand DEF Updating
<1>3. PlanText(NewText, NewPlan)
  BY DEF PlanReplace, PlanInsert, NewText, NewPlan
<1>4. NewText \in FileContent /\ Inserted \in FileContent
      /\ (views.header # None => Replaced \in FileContent)
  BY <1>1, <1>2, NewTextType
<1>5. ASSUME NewText = SourceText PROVE PlanSkips(FALSE)
  BY <1>1, <1>3, <1>5, SkippingSettles DEF PlanText
<1>6. ASSUME NewText # SourceText PROVE PlanLeaves(PlanKind(NewPlan), FALSE, NewText, "single")
  <2>1. Settle([st EXCEPT !.plan = PlanKind(NewPlan)], FALSE,
               [views EXCEPT !.updated = NewText, !.edit = "single"])
    BY <1>3, <1>6 DEF PlanText
  <2> QED BY <1>1, <1>4, <1>6, <2>1, PlanSettles
<1> QED BY <1>2, <1>4, <1>5, <1>6

\* The patcher writes its own axis, and takes back what the comparer said.
LEMMA PatcherEffect ==
  ASSUME IInv, Patcher
  PROVE  /\ todo[1] = "patcher" /\ halt = None /\ OthersKept({"comparison"}) /\ ~mode.apply
         /\ st.comparison \in {"CHANGED", "UNCHANGED"} /\ Needed("edit")
         /\ st'.comparison =
              IF st.comparison = "UNCHANGED" \/ (views.edit = None /\ views.updated = SourceText)
              THEN "UNCHANGED" ELSE st.comparison
         /\ WentOn(FALSE) /\ ViewsLeft(views)
         /\ UNCHANGED <<disk, access, facts, read>>
<1> DEFINE same == st.comparison = "UNCHANGED" \/ (views.edit = None /\ views.updated = SourceText)
           s == [st EXCEPT !.patch = IF same THEN "SKIPPED" ELSE "GENERATED",
                           !.comparison = IF same THEN "UNCHANGED" ELSE @]
           v == IF same THEN views ELSE [views EXCEPT !.diff = "text"]
<1>1. /\ mode # None /\ todo # <<>> /\ todo[1] = "patcher" /\ halt = None
      /\ st.comparison \in {"CHANGED", "UNCHANGED"}
      /\ Settle(s, FALSE, v) /\ UNCHANGED <<disk, access, facts, read>>
  BY DEF Patcher, Running, MayProceed, Gate
<1>2. /\ v \in Views /\ v.image = views.image /\ v.header = views.header /\ v.build = views.build
      /\ v.render = views.render /\ v.updated = views.updated /\ v.edit = views.edit
  BY DEF IInv, TypeOK, Views
<1>3. s.comparison = IF same THEN "UNCHANGED" ELSE st.comparison
  BY DEF IInv, TypeOK, ProcessingStatus
<1>4. st' = s /\ WentOn(FALSE) /\ ViewsLeft(v)
  <2> HIDE DEF s, v
  <2> QED BY <1>1, <1>2, Leaving
<1>5. OthersKept({"comparison"})
  BY <1>4 DEF OthersKept, IInv, TypeOK, ProcessingStatus
<1>6. ViewsLeft(views)
  <2> HIDE DEF v
  <2> QED BY <1>2, <1>4 DEF ViewsLeft
<1>7. ~mode.apply /\ Needed("edit")
  BY <1>1, WhoseStep, StepAtHand, HeadConsumes DEF ConsumesViews, Needed
<1> HIDE DEF s
<1> QED BY <1>1, <1>3, <1>4, <1>5, <1>6, <1>7

\* The writer leaves the file as the sink does, and comes last.
LEMMA WriterEffect ==
  ASSUME IInv, Writer
  PROVE  /\ Running("writer") /\ todo[1] = "writer" /\ halt = None /\ OthersKept({"write"})
         /\ views.updated \in FileContent /\ st'.write \in WriteResults /\ disk' \in Left(st'.write)
         /\ st.write = "PENDING" /\ todo' = <<>>
         /\ WentOn(FALSE) /\ ViewsLeft(views) /\ UNCHANGED <<access, facts, read>>
<1>1. PICK result \in WriteResults :
        /\ Running("writer") /\ mode # None /\ todo # <<>> /\ todo[1] = "writer" /\ halt = None
        /\ views.updated # None /\ disk' \in Left(result)
        /\ Settle([st EXCEPT !.write = result], FALSE, views)
        /\ UNCHANGED <<access, facts, read>>
  BY DEF Writer, Running, MayProceed, Gate
<1>2. st' = [st EXCEPT !.write = result] /\ WentOn(FALSE) /\ ViewsLeft(views)
  BY <1>1, Leaving DEF IInv, TypeOK
<1>3. OthersKept({"write"}) /\ st'.write = result
  BY <1>2 DEF OthersKept, IInv, TypeOK, ProcessingStatus
<1>4. st.write = "PENDING"
  BY <1>1, StepAtHand, AxisOfStep
<1>5. todo' = <<>>
  BY <1>1, <1>2, WriterIsLast DEF WentOn
<1> QED BY <1>1, <1>2, <1>3, <1>4, <1>5 DEF IInv, TypeOK, Views

------------------------------------------------------------------------------
(***************************************************************************)
(* The text in memory is that of the file that was read, whatever has      *)
(* become of the file since.                                               *)
(***************************************************************************)

\* The image the reader leaves of a file.
TextOf(c) == IF Sized(c) THEN Decoded(c) ELSE c

\* The context describes the file that was read, and the image is its text.
ContextIsOfRead ==
  /\ st.content = "OK" =>
       /\ read # None
       /\ facts.leff = EffectivelyEmpty(read) /\ facts.llog = LogicallyEmpty(read)
       /\ Sized(read) => ~ReaderRejects(read)
  /\ views.image # None => read # None /\ views.image = TextOf(read)

\* An updated text holds the user's text of the file that was read.
UpdateKeepsText ==
  views.updated # None => read # None /\ SameUserText(views.updated, read)

\* A text that is to be written begins with the BOM that was read, if no shebang does.
BomPutBack ==
  st.plan \in ConcretePlans /\ views.updated # None /\ facts.bom /\ ~facts.shebang
    => (Sized(views.updated) => views.updated.bom)

\* What is known of texts, whatever other programs do.
TextInv == ContextIsOfRead /\ UpdateKeepsText /\ BomPutBack

\* The reader takes off the BOM and replaces what it cannot decode, nothing else.
LEMMA TextOfContent ==
  ASSUME NEW c \in FileContent
  PROVE  /\ TextOf(c) \in FileContent /\ ~TextOf(c).bom
         /\ TextOf(c).shebang = c.shebang /\ TextOf(c).body = c.body /\ TextOf(c).eol = c.eol
         /\ TextOf(c).headers = c.headers /\ TextOf(c).ins = c.ins
         /\ SameUserText(TextOf(c), c)
BY DEF TextOf, Decoded, FileContent, Sized, SameUserText, Encodings, Undecodable

\* A step that leaves texts, and what they were read from, alone.
LeavesTexts ==
  /\ setup' = setup /\ read' = read
  /\ st'.content = "OK" => /\ st.content = "OK"
                           /\ facts'.leff = facts.leff /\ facts'.llog = facts.llog
  /\ views'.image \in {views.image, None} /\ views'.updated \in {views.updated, None}
  /\ st'.plan \in ConcretePlans =>
       st'.plan = st.plan /\ facts'.bom = facts.bom /\ facts'.shebang = facts.shebang

\* Such a step keeps what is known of texts.
LEMMA LeavingTextsKeeps ==
  ASSUME TextInv, LeavesTexts
  PROVE  TextInv'
<1>1. \A c : ReaderRejects(c)' = ReaderRejects(c)
  BY DEF LeavesTexts, ReaderRejects, policy
<1>2. ContextIsOfRead'
  BY <1>1 DEF TextInv, LeavesTexts, ContextIsOfRead
<1>3. UpdateKeepsText' /\ BomPutBack'
  BY DEF TextInv, LeavesTexts, UpdateKeepsText, BomPutBack
<1> QED BY <1>2, <1>3 DEF TextInv

\* While the file has not been read nothing has been planned.
LEMMA NothingPlannedYet ==
  ASSUME IInv, st.content # "OK"
  PROVE  st.plan = "PENDING" /\ st.strip = "PENDING" /\ st.comparison = "PENDING"
         /\ st.render = "PENDING" /\ st.generation = "PENDING" /\ st.header = "PENDING"
         /\ views.updated = None /\ views.header = None
BY DEF IInv, DecidedFromBelow

\* Most steps are like that.
LEMMA StepsLeavingTexts ==
  ASSUME Base,
         \/ Pass \/ Resolver \/ Prober \/ Sniffer \/ ReaderRefuses \/ ReaderFails \/ Scanner
         \/ Builder \/ BuilderRaises \/ (Renderer /\ RenderedAsConfigured) \/ Comparer
         \/ Patcher \/ Writer \/ StartRun \/ ExternalEdit \/ ExternalChmod \/ UNCHANGED vars
  PROVE  LeavesTexts
<1> USE DEF Base
<1>1. CASE Pass
  BY <1>1, PassEffect DEF LeavesTexts, WentOn, ViewsLeft
<1>2. CASE Resolver \/ Prober
  BY <1>2, ResolveEffect DEF LeavesTexts, WentOn, ViewsLeft, OthersKept
<1>3. CASE Sniffer
  <2>1. st.content # "OK"
    BY <1>3, SnifferEffect, StepAtHand, AxisOfStep DEF WentOn, ReportInv, ReadableFs
  <2> QED BY <1>3, <2>1, SnifferEffect, NothingPlannedYet
          DEF LeavesTexts, WentOn, ViewsLeft, OthersKept, ConcretePlans
<1>4. CASE ReaderRefuses \/ ReaderFails
  <2>1. st.content # "OK"
    BY <1>4, NotReadingEffect
  <2> QED BY <1>4, <2>1, NotReadingEffect, NothingPlannedYet
          DEF LeavesTexts, WentOn, ViewsLeft, OthersKept, ConcretePlans
<1>5. CASE Scanner
  BY <1>5, ScannerEffect DEF LeavesTexts, WentOn, ViewsLeft, OthersKept
<1>6. CASE Builder
  BY <1>6, BuilderEffect DEF LeavesTexts, WentOn, ViewsLeft, OthersKept
<1>7. CASE BuilderRaises
  BY <1>7 DEF BuilderRaises, LeavesTexts
<1>8. CASE Renderer /\ RenderedAsConfigured
  BY <1>8, RendererEffect DEF LeavesTexts, WentOn, ViewsLeft, OthersKept
<1>9. CASE Comparer
  BY <1>9, ComparerEffect DEF LeavesTexts, WentOn, ViewsLeft, OthersKept
<1>10. CASE Patcher
  BY <1>10, PatcherEffect DEF LeavesTexts, WentOn, ViewsLeft, OthersKept
<1>11. CASE Writer
  BY <1>11, WriterEffect DEF LeavesTexts, WentOn, ViewsLeft, OthersKept
<1>12. CASE StartRun
  BY <1>12 DEF StartRun, LeavesTexts
<1>13. CASE ExternalEdit \/ ExternalChmod \/ UNCHANGED vars
  BY <1>13 DEF ExternalEdit, ExternalChmod, vars, run, LeavesTexts
<1> QED BY <1>1, <1>2, <1>3, <1>4, <1>5, <1>6, <1>7, <1>8, <1>9, <1>10, <1>11, <1>12, <1>13

\* The reader leaves the text of the file it read.
LEMMA ReadingKeepsText ==
  ASSUME Base, TextInv, ReaderFindsEmpty \/ ReaderLoads
  PROVE  TextInv'
<1> USE DEF Base
<1>1. CASE ReaderFindsEmpty
  <2>1. views.updated = None /\ st.plan = "PENDING"
    BY <1>1, EmptyEffect, NothingPlannedYet
  <2>2. views'.image \in {disk, None} /\ views'.updated = None /\ disk # None /\ read' = disk
    BY <1>1, <2>1, EmptyEffect, NoneAssumption DEF ViewsLeft
  <2>3. TextOf(disk) = disk
    BY <1>1, EmptyEffect DEF TextOf
  <2>4. EffectivelyEmpty(disk) = TRUE /\ LogicallyEmpty(disk) = TRUE
    BY <1>1, EmptyEffect DEF EffectivelyEmpty, LogicallyEmpty, Sized, FileContent
  <2>5. ContextIsOfRead'
    BY <1>1, <2>2, <2>3, <2>4, EmptyEffect DEF ContextIsOfRead
  <2> QED BY <1>1, <2>1, <2>2, <2>5, EmptyEffect
          DEF TextInv, UpdateKeepsText, BomPutBack, OthersKept, ConcretePlans
<1>2. CASE ReaderLoads
  <2>1. views.updated = None /\ st.plan = "PENDING"
    BY <1>2, LoadEffect, NothingPlannedYet
  <2>2. /\ views'.image \in {Decoded(disk), None} /\ views'.updated = None
        /\ disk # None /\ read' = disk
    BY <1>2, <2>1, LoadEffect, NoneAssumption DEF ViewsLeft
  <2>3. TextOf(disk) = Decoded(disk)
    BY <1>2, LoadEffect DEF TextOf
  <2>4. ReaderRejects(read)' <=> ReaderRejects(disk)
    BY <1>2, LoadEffect DEF ReaderRejects, WentOn, policy
  <2>5. ContextIsOfRead'
    BY <1>2, <2>2, <2>3, <2>4, LoadEffect DEF ContextIsOfRead
  <2> QED BY <1>2, <2>1, <2>2, <2>5, LoadEffect
          DEF TextInv, UpdateKeepsText, BomPutBack, OthersKept, ConcretePlans
<1> QED BY <1>1, <1>2

\* A text put together from the image is the user's text, whatever is done to its headers;
\* a placeholder may go where the file is logically empty.
LEMMA EditsKeepText ==
  ASSUME Base, TextInv, NEW c \in FileContent, NEW d \in FileContent, read # None,
         SameUserText(c, read),
         d.shebang = c.shebang, d.eol = c.eol,
         d.body = c.body \/ {c.body, d.body} \subseteq {"none", "blank"}
  PROVE  SameUserText(d, read)
BY DEF SameUserText

\* What the stripper makes ready holds the user's text.
LEMMA StrippingKeepsText ==
  ASSUME Base, TextInv, Stripper
  PROVE  TextInv'
<1>1. /\ st'.content = st.content /\ read' = read /\ setup' = setup /\ facts' = facts
      /\ views'.image \in {views.image, None}
      /\ views'.updated \in {StrippedText, views.updated, None}
      /\ StrippedText \in FileContent /\ views.image \in FileContent
      /\ st'.plan = st.plan
  BY StripperEffect DEF Base, OthersKept, WentOn, ViewsLeft
<1>2. read \in FileContent /\ SameUserText(StrippedText, read)
  <2>1. read \in FileContent /\ views.image = TextOf(read)
    BY <1>1, NoneAssumption DEF TextInv, ContextIsOfRead, Base, IInv, TypeOK
  <2>2. SameUserText(views.image, read)
    BY <2>1, TextOfContent
  <2>3. CASE Found
    <3>1. /\ StrippedText.shebang = views.image.shebang /\ StrippedText.eol = views.image.eol
          /\ \/ StrippedText.body = views.image.body
             \/ {views.image.body, StrippedText.body} \subseteq {"none", "blank"}
      BY <1>1, <2>3 DEF StrippedText, Stripped, FileContent
    <3> QED BY <1>1, <2>1, <2>2, <3>1, EditsKeepText, NoneAssumption
  <2> QED BY <2>1, <2>2, <2>3 DEF StrippedText
<1>3. ContextIsOfRead'
  BY <1>1 DEF TextInv, ContextIsOfRead, ReaderRejects, policy
<1>4. UpdateKeepsText'
  BY <1>1, <1>2, NoneAssumption DEF TextInv, UpdateKeepsText
<1>5. st.plan \notin ConcretePlans
  BY StripperEffect DEF Base, IInv, PlanRestsOnDecisions, ConcretePlans, DecidedFromBelow
<1>6. BomPutBack'
  BY <1>1, <1>5 DEF BomPutBack
<1> QED BY <1>3, <1>4, <1>6 DEF TextInv

\* Putting the BOM back changes nothing else.
LEMMA BomPrepended ==
  ASSUME Base, TextInv, read # None, NEW c \in FileContent, SameUserText(c, read)
  PROVE  /\ PrependBom(c) \in FileContent /\ SameUserText(PrependBom(c), read)
         /\ facts.bom /\ ~facts.shebang /\ Sized(PrependBom(c)) => PrependBom(c).bom
<1>1. PrependBom(c) \in FileContent /\ PrependBom(c).bom = (c.bom \/ (Sized(c) /\ facts.bom /\ ~facts.shebang))
  BY DEF PrependBom, FileContent, Sized, Base, IInv, TypeOK, Facts
<1>2. /\ PrependBom(c).shebang = c.shebang /\ PrependBom(c).eol = c.eol
      /\ PrependBom(c).body = c.body /\ PrependBom(c).headers = c.headers
  BY DEF PrependBom, FileContent
<1> HIDE DEF PrependBom
<1> QED BY <1>1, <1>2, EditsKeepText DEF Sized

\* The text with the header that is planned holds the user's text and begins with the BOM.
LEMMA NewTextKeepsText ==
  ASSUME Base, TextInv, PlanReplace \/ PlanInsert
  PROVE  /\ SameUserText(NewText, read)
         /\ facts.bom /\ ~facts.shebang /\ Sized(NewText) => NewText.bom
<1>1. views.image \in FileContent
  BY PlannerEffect DEF Base
<1>2. read \in FileContent /\ views.image = TextOf(read) /\ read # None
  BY <1>1, NoneAssumption DEF TextInv, ContextIsOfRead, Base, IInv, TypeOK
<1>3. SameUserText(views.image, read)
  BY <1>2, TextOfContent
<1>4. views.header # None => SameUserText(Replaced, read)
  <2>1. /\ Replaced.shebang = views.image.shebang /\ Replaced.eol = views.image.eol
        /\ Replaced.body = views.image.body
    BY <1>1 DEF Replaced, FileContent
  <2> QED BY <1>1, <1>2, <1>3, <2>1, PlanUpdateEffect, EditsKeepText DEF Base
<1>5. SameUserText(Inserted, read)
  <2>1. /\ Inserted.shebang = views.image.shebang /\ Inserted.eol = views.image.eol
        /\ Inserted.body = IF facts.llog THEN "none" ELSE views.image.body
    BY <1>1 DEF Inserted, FileContent
  <2>2. facts.llog => views.image.body \in {"none", "blank"}
    <3>1. st.content = "OK"
      BY PlanUpdateEffect DEF Base, IInv, DecidedFromBelow
    <3> QED BY <1>2, <3>1, TextOfContent DEF TextInv, ContextIsOfRead, LogicallyEmpty
  <2>3. \/ Inserted.body = views.image.body
        \/ {views.image.body, Inserted.body} \subseteq {"none", "blank"}
    BY <2>1, <2>2
  <2>4. Inserted \in FileContent
    BY PlanUpdateEffect DEF Base
  <2> QED BY <1>1, <1>2, <1>3, <2>1, <2>3, <2>4, EditsKeepText
<1>6. CASE views.header # None
  BY BomPrepended, <1>2, <1>4, <1>6, PlanUpdateEffect DEF NewText, Base
<1>7. CASE views.header = None /\ ftype.insert # "text"
  BY BomPrepended, <1>2, <1>5, <1>7, PlanUpdateEffect DEF NewText, Base
<1>8. CASE views.header = None /\ ftype.insert = "text"
  <2>1. NewText = [Inserted EXCEPT !.bom = KeptBom] /\ Inserted \in FileContent
    BY <1>8, PlanUpdateEffect DEF NewText, Base
  <2>2. /\ NewText.shebang = Inserted.shebang /\ NewText.eol = Inserted.eol
        /\ NewText.body = Inserted.body /\ NewText.bom = KeptBom
    BY <2>1 DEF FileContent
  <2>3. facts.bom /\ ~facts.shebang => KeptBom
    BY DEF KeptBom, ShouldRemoveBom
  <2> QED BY <1>2, <1>5, <2>1, <2>2, <2>3, EditsKeepText, PlanUpdateEffect DEF Base
<1> QED BY <1>6, <1>7, <1>8

\* A planned text holds the user's text and begins with the BOM.
LEMMA PlanningKeepsText ==
  ASSUME Base, TextInv,
         PlanStrip \/ PlanUnchanged \/ PlanRefused \/ PlanReplace \/ PlanInsert \/ PlanNoAnchor
  PROVE  TextInv'
<1>1. /\ todo[1] = "planner" /\ OthersKept({"plan"}) /\ st.plan = "PENDING"
      /\ views.image \in FileContent
      /\ facts'.leff = facts.leff /\ facts'.llog = facts.llog
      /\ facts'.bom = facts.bom /\ facts'.shebang = facts.shebang
      /\ read' = read
  BY PlannerEffect DEF Base
<1>2. read \in FileContent /\ views.image = TextOf(read) /\ read # None
  BY <1>1, NoneAssumption DEF TextInv, ContextIsOfRead, Base, IInv, TypeOK
<1>3. SameUserText(views.image, read)
  BY <1>2, TextOfContent
<1> DEFINE Good(plan, updated) ==
             updated # None =>
               /\ SameUserText(updated, read)
               /\ plan \in ConcretePlans /\ facts.bom /\ ~facts.shebang /\ Sized(updated)
                    => updated.bom
<1>4. ASSUME NEW plan, NEW stop, NEW updated, NEW edit,
             PlanLeaves(plan, stop, updated, edit), Good(plan, updated)
      PROVE  TextInv'
  <2>1. /\ st'.plan = plan /\ setup' = setup
        /\ views'.image \in {views.image, None} /\ views'.updated \in {updated, None}
    BY <1>4 DEF PlanLeaves, WentOn, ViewsLeft
  <2>2. ContextIsOfRead'
    BY <1>1, <2>1 DEF TextInv, ContextIsOfRead, ReaderRejects, policy, OthersKept
  <2>3. UpdateKeepsText' /\ BomPutBack'
    BY <1>1, <1>2, <1>4, <2>1 DEF UpdateKeepsText, BomPutBack
  <2> QED BY <2>2, <2>3 DEF TextInv
<1>5. ASSUME NEW c \in FileContent, SameUserText(c, read)
      PROVE  /\ SameUserText(PrependBom(c), read)
             /\ facts.bom /\ ~facts.shebang /\ Sized(PrependBom(c)) => PrependBom(c).bom
  BY <1>2, <1>5, BomPrepended
<1>6. CASE PlanStrip
  <2>1. Good(PlanKind("REMOVED"), PrependBom(views.updated))
    BY <1>5, <1>6, PlanStripEffect, NoneAssumption DEF TextInv, UpdateKeepsText, Base
  <2> HIDE DEF Good
  <2> QED BY <1>4, <1>6, <2>1, PlanStripEffect DEF Base
<1>7. ASSUME NEW stop, PlanSkips(stop)
      PROVE  TextInv'
  <2>1. Good("SKIPPED", views.image)
    BY <1>3 DEF ConcretePlans
  <2> HIDE DEF Good
  <2> QED BY <1>4, <1>7, <2>1 DEF PlanSkips
<1>8. CASE PlanUnchanged
  BY <1>7, <1>8, PlanUnchangedEffect DEF Base
<1>9. CASE PlanRefused \/ PlanNoAnchor
  <2>1. Good("FAILED", views.updated)
    BY DEF TextInv, UpdateKeepsText, ConcretePlans
  <2> HIDE DEF Good
  <2> QED BY <1>4, <1>7, <1>9, <2>1, PlanGivenUpEffect DEF Base
<1>10. CASE PlanReplace \/ PlanInsert
  <2>1. SameUserText(NewText, read) /\ (facts.bom /\ ~facts.shebang /\ Sized(NewText) => NewText.bom)
    BY <1>10, NewTextKeepsText
  <2>2. Good(PlanKind(NewPlan), NewText)
    BY <2>1
  <2> HIDE DEF Good
  <2> QED BY <1>4, <1>7, <1>10, <2>2, PlanUpdateEffect DEF Base
<1> QED BY <1>6, <1>8, <1>9, <1>10

\* From the builder on a check works with what is configured.
LEMMA RenderingKept ==
  ASSUME Base, RenderedAsConfigured, [Next]_vars
  PROVE  RenderedAsConfigured'
<1> USE DEF Base
<1> DEFINE Fresh == st'.generation = "PENDING" /\ st'.render = "PENDING"
           Kept == /\ setup' = setup
                   /\ st'.generation = st.generation /\ st'.render = st.render
                   /\ Needed("build")' => Needed("build") /\ views'.build = views.build
                   /\ Needed("render")' => Needed("render") /\ views'.render = views.render
<1>1. Fresh => RenderedAsConfigured'
  BY DEF RenderedAsConfigured
<1>2. ASSUME setup' = setup
      PROVE  Rendering' = Rendering /\ RenderingStatus' = RenderingStatus /\ Selected' = Selected
  BY <1>2 DEF Rendering, RenderingStatus, Selected, policy
<1>3. Kept => RenderedAsConfigured'
  BY <1>2 DEF RenderedAsConfigured
<1>4. st.header = "PENDING" \/ mode.cmd = "strip" => st.generation = "PENDING" /\ st.render = "PENDING"
  BY DEF IInv, DecidedFromBelow, TypeOK, ProcessingStatus, GenerationStatus, RenderStatus
<1>5. CASE Pass
  BY <1>3, <1>5, PassEffect DEF WentOn, ViewsLeft
<1>6. CASE Resolver \/ Prober
  BY <1>3, <1>6, ResolveEffect DEF WentOn, ViewsLeft, OthersKept
<1>7. CASE Sniffer
  BY <1>3, <1>7, SnifferEffect DEF WentOn, ViewsLeft, OthersKept
<1>8. CASE ReaderRefuses \/ ReaderFails
  BY <1>3, <1>8, NotReadingEffect DEF WentOn, ViewsLeft, OthersKept
<1>9. CASE ReaderFindsEmpty
  BY <1>1, <1>9, EmptyEffect, NothingPlannedYet DEF OthersKept
<1>10. CASE ReaderLoads
  BY <1>1, <1>10, LoadEffect, NothingPlannedYet DEF OthersKept
<1>11. CASE Scanner
  BY <1>1, <1>4, <1>11, ScannerEffect DEF OthersKept
<1>12. CASE Builder
  BY <1>2, <1>12, BuilderEffect DEF WentOn, ViewsLeft, OthersKept, RenderedAsConfigured
<1>13. CASE BuilderRaises
  <2>1. UNCHANGED <<setup, st, views>> /\ todo' = <<>>
    BY <1>13 DEF BuilderRaises
  <2>2. ~Needed("build")' /\ ~Needed("render")'
    BY <2>1 DEF Needed, RemainingConsumers, ToSet
  <2> QED BY <1>3, <2>1, <2>2
<1>14. CASE Renderer
  BY <1>2, <1>14, RendererEffect DEF WentOn, ViewsLeft, OthersKept, RenderedAsConfigured
<1>15. CASE Comparer
  BY <1>3, <1>15, ComparerEffect DEF WentOn, ViewsLeft, OthersKept
<1>16. CASE Stripper
  BY <1>1, <1>4, <1>16, StripperEffect DEF OthersKept
<1>17. ASSUME NEW plan, NEW stop, NEW updated, NEW edit,
              PlanLeaves(plan, stop, updated, edit), OthersKept({"plan"})
       PROVE  RenderedAsConfigured'
  BY <1>3, <1>17 DEF PlanLeaves, WentOn, ViewsLeft, OthersKept
<1>18. CASE PlanStrip
  BY <1>17, <1>18, PlannerEffect, PlanStripEffect
<1>19. CASE PlanUnchanged
  BY <1>17, <1>19, PlannerEffect, PlanUnchangedEffect DEF PlanSkips
<1>20. CASE PlanRefused \/ PlanNoAnchor
  BY <1>17, <1>20, PlannerEffect, PlanGivenUpEffect DEF PlanSkips
<1>21. CASE PlanReplace \/ PlanInsert
  BY <1>17, <1>21, PlannerEffect, PlanUpdateEffect DEF PlanSkips
<1>22. CASE Patcher
  BY <1>3, <1>22, PatcherEffect DEF WentOn, ViewsLeft, OthersKept
<1>23. CASE Writer
  BY <1>3, <1>23, WriterEffect DEF WentOn, ViewsLeft, OthersKept
<1>24. CASE StartRun
  BY <1>1, <1>24 DEF StartRun, IInv, FreshBetweenRuns, AllPending
<1>25. CASE EndRun
  BY <1>1, <1>25 DEF EndRun, AllPending
<1>26. CASE ExternalEdit \/ ExternalChmod \/ UNCHANGED vars
  BY <1>3, <1>26 DEF ExternalEdit, ExternalChmod, vars, run, Needed
<1> QED BY <1>5, <1>6, <1>7, <1>8, <1>9, <1>10, <1>11, <1>12, <1>13, <1>14, <1>15, <1>16,
           <1>18, <1>19, <1>20, <1>21, <1>22, <1>23, <1>24, <1>25, <1>26 DEF Next, Step

\* Every step keeps what is known of texts.
LEMMA TextKept ==
  ASSUME Base, RenderedAsConfigured, TextInv, [Next]_vars
  PROVE  TextInv'
<1>1. CASE EndRun
  <2>1. st' = AllPending /\ views' = NoViews
    BY <1>1 DEF EndRun
  <2> QED BY <2>1 DEF TextInv, ContextIsOfRead, UpdateKeepsText, BomPutBack, AllPending, NoViews
<1>2. CASE ReaderFindsEmpty \/ ReaderLoads
  BY <1>2, ReadingKeepsText
<1>3. CASE Stripper
  BY <1>3, StrippingKeepsText
<1>4. CASE PlanStrip \/ PlanUnchanged \/ PlanRefused \/ PlanReplace \/ PlanInsert \/ PlanNoAnchor
  BY <1>4, PlanningKeepsText
<1>5. CASE \/ Pass \/ Resolver \/ Prober \/ Sniffer \/ ReaderRefuses \/ ReaderFails \/ Scanner
           \/ Builder \/ BuilderRaises \/ Renderer \/ Comparer
           \/ Patcher \/ Writer \/ StartRun \/ ExternalEdit \/ ExternalChmod \/ UNCHANGED vars
  BY <1>5, StepsLeavingTexts, LeavingTextsKeeps
<1> QED BY <1>1, <1>2, <1>3, <1>4, <1>5 DEF Next, Step

\* The texts of a run are those of the file it read, and it renders what is configured.
THEOREM Texts == Spec => [](Base /\ RenderedAsConfigured /\ TextInv)
<1>1. Init => RenderedAsConfigured /\ TextInv
  BY DEF Init, RenderedAsConfigured, TextInv, ContextIsOfRead, UpdateKeepsText, BomPutBack,
         AllPending, NoViews
<1>2. Spec => []Base
  BY Invariance, Reporting, PTL DEF Base
<1>3. Base /\ RenderedAsConfigured /\ TextInv /\ [Next]_vars => RenderedAsConfigured' /\ TextInv'
  BY RenderingKept, TextKept
<1> QED BY <1>1, <1>2, <1>3, PTL DEF Spec

\* A step after which the file has just been written is the writer's, and the file is now
\* the updated text.
LEMMA WritingStep ==
  ASSUME IInv, Next, FileWritten
  PROVE  /\ Writer /\ disk' = views.updated /\ views.updated \in FileContent /\ mode.apply
         /\ st.plan \in ConcretePlans /\ CanChange(st, policy, facts) /\ halt = None
<1>1. /\ Running("writer") /\ st'.write = "WRITTEN" /\ mode.sink # "stdout"
      /\ mode # None /\ todo # <<>> /\ todo[1] = "writer" /\ MayProceed("writer")
  BY DEF FileWritten, Running
<1>2. st.write = "PENDING"
  BY <1>1, StepAtHand, AxisOfStep
<1>3. Writer
  BY <1>1, <1>2 DEF Next, StartRun, EndRun, Finished, ExternalEdit, ExternalChmod, run, Step, Pass,
       Resolver, Prober, Sniffer, ReaderRefuses, ReaderFails, ReaderFindsEmpty, ReaderLoads, Scanner,
       Builder, BuilderRaises, Renderer, Comparer, Stripper, PlanStrip, PlanUnchanged, PlanRefused,
       PlanReplace, PlanInsert, PlanNoAnchor, Updating, Patcher, Running
<1>4. disk' = views.updated /\ views.updated \in FileContent
  BY <1>1, <1>3, WriterEffect DEF Left
<1> QED BY <1>1, <1>3, <1>4 DEF MayProceed, Gate

\* A completed write leaves the user's text as the run read it: headers come and go, the
\* body, its line ends and its shebang line stay (reader.py to writer.py).
THEOREM UserTextIsKept == Spec => WriteKeepsUserText
<1>1. ASSUME Base, TextInv, Next, FileWritten
      PROVE  SameUserText(disk', read)
  BY <1>1, WritingStep, NoneAssumption DEF Base, TextInv, UpdateKeepsText
<1>2. Base /\ TextInv /\ [Next]_vars => [FileWritten => SameUserText(disk', read)]_vars
  BY <1>1
<1> QED BY <1>2, Texts, PTL DEF Spec, WriteKeepsUserText

------------------------------------------------------------------------------
(***************************************************************************)
(* When nobody touches the file during a run, every verdict of the run is  *)
(* one on the file as it is.                                               *)
(***************************************************************************)

\* The file begins with a BOM and then a shebang line its type knows of.
BomFirst(c) == c.bom /\ c.shebang /\ ftype.shebang

\* The file system status a file comes to once the reader has looked at all of it.
FsOf(c) ==
  IF ~Sized(c) THEN "EMPTY"
  ELSE IF MixedEol(c) THEN "MIXED_LINE_ENDINGS"
  ELSE IF BomFirst(c) THEN "BOM_BEFORE_SHEBANG" ELSE "OK"

\* Neither sniffer nor reader has anything against the file.
Accepts(c) ==
  /\ c # None /\ ftype.resolve = "RESOLVED"
  /\ Sized(c) =>
       /\ c.enc # "nul" /\ (BomFirst(c) => policy.bom # "reject") /\ (~BomFirst(c) => c.enc # "early")
       /\ MixedEol(c) => policy.mixed = "preserve"
       /\ ftype.checker /\ c.ins = "REFLOW" /\ ~EffectivelyEmpty(c) => policy.reflow

\* The header status the scanner gives it.
HeaderOf(c) ==
  CASE TopHeader(c) = "missing" -> "MISSING"
    [] TopHeader(c) \in {"current", "stale"} -> "DETECTED"
    [] TopHeader(c) = "empty" -> "EMPTY"
    [] TopHeader(c) = "malformed" -> "MALFORMED"
    [] TopHeader(c) = "badall" -> "MALFORMED_ALL_FIELDS"
    [] TopHeader(c) = "badsome" -> "MALFORMED_SOME_FIELDS"

\* The sniffer's verdict, until the reader has its own.
SniffedDisk ==
  /\ st.resolve \in {"PENDING", ftype.resolve}
  /\ st.fs # "PENDING" => st.resolve = "RESOLVED"
  /\ st.fs # "PENDING" /\ st.content = "PENDING" /\ halt = None =>
       /\ disk # None
       /\ st.fs = "EMPTY" <=> ~Sized(disk)
       /\ Sized(disk) => /\ facts.bom = disk.bom /\ facts.shebang = disk.shebang
                         /\ st.fs = "BOM_BEFORE_SHEBANG" <=> BomFirst(disk)
                         /\ st.fs = "MIXED_LINE_ENDINGS" => MixedEol(disk)
                         /\ disk.enc # "nul" /\ (~BomFirst(disk) => disk.enc # "early")

\* Until the writer's turn the file is as it was read.
ReadDisk == read # None /\ st.write = "PENDING" => read = disk

\* The reader's verdict is one on all of the file.
LookedRight ==
  st.content = "OK" =>
    /\ st.fs = FsOf(read) /\ Accepts(read)
    /\ Sized(read) => facts.bom = read.bom /\ facts.shebang = read.shebang

\* The scanner's verdict is one on the file.
ScannedRight ==
  st.header # "PENDING" =>
    /\ st.header = HeaderOf(read)
    /\ Needed("header") =>
         views.header = IF TopHeader(read) = "missing" THEN None ELSE TopHeader(read)

\* What looks empty has no line ends that could be mixed.
EmptyIsPlain == disk # None /\ ~Sized(disk) /\ policy.mixed = "reject" => ~MixedEol(disk)

\* What is known of verdicts when nobody else touches the file.
QuietInv == SniffedDisk /\ ReadDisk /\ LookedRight /\ ScannedRight /\ EmptyIsPlain

\* All that is known by now of any run.
TextBase == Base /\ RenderedAsConfigured /\ TextInv

\* A step that neither looks at the file nor touches it.
LeavesVerdicts ==
  /\ setup' = setup /\ disk' = disk /\ read' = read
  /\ st'.resolve = st.resolve /\ st'.fs = st.fs /\ st'.content = st.content
  /\ st'.header = st.header /\ st'.write = st.write
  /\ facts'.bom = facts.bom /\ facts'.shebang = facts.shebang
  /\ halt' = None => halt = None
  /\ Needed("header")' => Needed("header") /\ views'.header = views.header

\* The verdicts depend on the configuration alone.
LEMMA VerdictsFixed ==
  ASSUME setup' = setup, NEW c
  PROVE  /\ BomFirst(c)' = BomFirst(c) /\ FsOf(c)' = FsOf(c) /\ Accepts(c)' = Accepts(c)
         /\ HeaderOf(c)' = HeaderOf(c) /\ policy' = policy /\ ftype' = ftype
BY DEF BomFirst, FsOf, Accepts, HeaderOf, policy, ftype

\* Such a step keeps what is known of verdicts.
LEMMA LeavingVerdictsKeeps ==
  ASSUME QuietInv, LeavesVerdicts
  PROVE  QuietInv'
<1> USE DEF QuietInv, LeavesVerdicts
<1>1. policy' = policy /\ ftype' = ftype
  BY VerdictsFixed
<1>2. SniffedDisk'
  BY <1>1 DEF SniffedDisk, BomFirst
<1>3. ReadDisk' /\ EmptyIsPlain'
  BY <1>1 DEF ReadDisk, EmptyIsPlain
<1>4. LookedRight'
  BY <1>1 DEF LookedRight, FsOf, Accepts, BomFirst
<1>5. ScannedRight'
  BY DEF ScannedRight, HeaderOf
<1> QED BY <1>2, <1>3, <1>4, <1>5

\* Most steps are like that.
LEMMA StepsLeavingVerdicts ==
  ASSUME ~Races, TextBase,
         \/ Pass \/ Builder \/ BuilderRaises \/ Renderer \/ Comparer \/ Stripper
         \/ PlanStrip \/ PlanUnchanged \/ PlanRefused \/ PlanReplace \/ PlanInsert \/ PlanNoAnchor
         \/ Patcher \/ ExternalEdit \/ ExternalChmod \/ UNCHANGED vars
  PROVE  LeavesVerdicts
<1> USE DEF TextBase, Base
<1>1. CASE Pass
  BY <1>1, PassEffect DEF LeavesVerdicts, WentOn, ViewsLeft
<1>2. CASE Builder
  BY <1>2, BuilderEffect DEF LeavesVerdicts, WentOn, ViewsLeft, OthersKept
<1>3. CASE BuilderRaises
  <2>1. UNCHANGED <<setup, disk, st, facts, views, read>> /\ todo' = <<>> /\ halt' # None
    BY <1>3, NoneAssumption DEF BuilderRaises
  <2>2. ~Needed("header")'
    BY <2>1 DEF Needed, RemainingConsumers, ToSet
  <2> QED BY <2>1, <2>2 DEF LeavesVerdicts
<1>4. CASE Renderer
  BY <1>4, RendererEffect DEF LeavesVerdicts, WentOn, ViewsLeft, OthersKept
<1>5. CASE Comparer
  BY <1>5, ComparerEffect DEF LeavesVerdicts, WentOn, ViewsLeft, OthersKept
<1>6. CASE Stripper
  BY <1>6, StripperEffect DEF LeavesVerdicts, WentOn, ViewsLeft, OthersKept
<1>7. ASSUME NEW plan, NEW stop, NEW updated, NEW edit, PlanLeaves(plan, stop, updated, edit),
             PlanStrip \/ PlanUnchanged \/ PlanRefused \/ PlanReplace \/ PlanInsert \/ PlanNoAnchor
      PROVE  LeavesVerdicts
  BY <1>7, PlannerEffect DEF PlanLeaves, LeavesVerdicts, WentOn, ViewsLeft, OthersKept
<1>8. CASE PlanStrip
  BY <1>7, <1>8, PlanStripEffect
<1>9. CASE PlanUnchanged
  BY <1>7, <1>9, PlanUnchangedEffect DEF PlanSkips
<1>10. CASE PlanRefused \/ PlanNoAnchor
  BY <1>7, <1>10, PlanGivenUpEffect DEF PlanSkips
<1>11. CASE PlanReplace \/ PlanInsert
  BY <1>7, <1>11, PlanUpdateEffect DEF PlanSkips
<1>12. CASE Patcher
  BY <1>12, PatcherEffect DEF LeavesVerdicts, WentOn, ViewsLeft, OthersKept
<1>13. CASE ExternalEdit \/ ExternalChmod
  BY <1>13 DEF ExternalEdit, ExternalChmod
<1>14. CASE UNCHANGED vars
  BY <1>14 DEF vars, run, LeavesVerdicts, Needed
<1> QED BY <1>1, <1>2, <1>3, <1>4, <1>5, <1>6, <1>8, <1>9, <1>10, <1>11, <1>12, <1>13, <1>14

\* Resolving, and the beginning and the end of a run.
LEMMA VerdictsBeginAndEnd ==
  ASSUME TextBase, QuietInv, Resolver \/ Prober \/ StartRun \/ EndRun
  PROVE  QuietInv'
<1> USE DEF TextBase, Base, QuietInv
<1>1. CASE Resolver \/ Prober
  <2>1. /\ st.fs = "PENDING" /\ st.content = "PENDING" /\ st.header = "PENDING"
    <3>1. mode # None /\ todo # <<>> /\ st.resolve = "PENDING"
      BY <1>1, ResolveEffect, StepAtHand, AxisOfStep DEF WentOn
    <3>2. st.fs = "PENDING" /\ st.content = "PENDING"
      BY <3>1 DEF SniffedDisk, ReportInv, ReadableFs
    <3> QED BY <3>2, NothingPlannedYet
  <2>2. /\ st'.resolve = ftype.resolve /\ OthersKept({"resolve"}) /\ setup' = setup
        /\ UNCHANGED <<disk, access, facts, read>>
    BY <1>1, ResolveEffect DEF WentOn
  <2>3. policy' = policy /\ ftype' = ftype
    BY <2>2 DEF policy, ftype
  <2> QED BY <2>1, <2>2, <2>3
          DEF OthersKept, SniffedDisk, ReadDisk, LookedRight, ScannedRight, EmptyIsPlain
<1>2. CASE StartRun
  <2>1. st' = AllPending /\ st = AllPending /\ UNCHANGED <<setup, disk, read>>
    BY <1>2 DEF StartRun, IInv, FreshBetweenRuns
  <2>2. policy' = policy /\ ftype' = ftype
    BY <2>1 DEF policy, ftype
  <2> QED BY <2>1, <2>2
          DEF AllPending, SniffedDisk, ReadDisk, LookedRight, ScannedRight, EmptyIsPlain
<1>3. CASE EndRun
  <2>1. st' = AllPending /\ read' = None /\ UNCHANGED <<setup, disk>>
    BY <1>3 DEF EndRun
  <2>2. policy' = policy /\ ftype' = ftype
    BY <2>1 DEF policy, ftype
  <2> QED BY <2>1, <2>2
          DEF AllPending, SniffedDisk, ReadDisk, LookedRight, ScannedRight, EmptyIsPlain
<1> QED BY <1>1, <1>2, <1>3

\* The sniffer looks at the file as it is.
LEMMA SniffingIsRight ==
  ASSUME TextBase, QuietInv, Sniffer
  PROVE  QuietInv'
<1> USE DEF TextBase, Base, QuietInv
<1>1. /\ mode # None /\ todo # <<>> /\ st.fs = "PENDING" /\ st.content = "PENDING"
      /\ st.header = "PENDING" /\ setup' = setup
  <2>1. mode # None /\ todo # <<>> /\ st.fs = "PENDING" /\ setup' = setup
    BY SnifferEffect, StepAtHand, AxisOfStep DEF WentOn
  <2>2. st.content = "PENDING"
    BY <2>1 DEF ReportInv, ReadableFs
  <2> QED BY <2>1, <2>2, NothingPlannedYet
<1>2. OthersKept({"fs"}) /\ UNCHANGED <<disk, read>> /\ WentOn(st'.fs \notin ReadableFs)
  BY SnifferEffect
<1>3. policy' = policy /\ ftype' = ftype
  BY <1>1 DEF policy, ftype
<1>4. st.resolve = "RESOLVED"
  BY DEF Sniffer, Running, MayProceed, Gate
<1>5. ASSUME halt' = None
      PROVE  /\ disk # None
             /\ st'.fs = "EMPTY" <=> ~Sized(disk)
             /\ Sized(disk) => /\ facts'.bom = disk.bom /\ facts'.shebang = disk.shebang
                               /\ st'.fs = "BOM_BEFORE_SHEBANG" <=> BomFirst(disk)
                               /\ st'.fs = "MIXED_LINE_ENDINGS" => MixedEol(disk)
                               /\ disk.enc # "nul" /\ (~BomFirst(disk) => disk.enc # "early")
  <2>1. st'.fs \in ReadableFs
    BY <1>2, <1>5 DEF WentOn
  <2>2. st'.fs = IF SnifferStat = "open" THEN SniffStream ELSE SnifferStat
    BY <2>1, SnifferEffect DEF ReadableFs
  <2>3. facts' = IF st'.fs \in {"OK", "BOM_BEFORE_SHEBANG", "UNICODE_DECODE_ERROR",
                                "MIXED_LINE_ENDINGS"}
                 THEN [facts EXCEPT !.bom = disk.bom, !.shebang = disk.shebang] ELSE facts
    BY SnifferEffect
  <2>4. CASE SnifferStat # "open"
    BY <2>1, <2>2, <2>4 DEF SnifferStat, ReadableFs
  <2>5. CASE SnifferStat = "open"
    <3>1. disk # None /\ Sized(disk)
      BY <2>5 DEF SnifferStat
    <3>2. st'.fs = SniffStream
      BY <2>2, <2>5
    <3>3. st'.fs \in {"OK", "BOM_BEFORE_SHEBANG", "MIXED_LINE_ENDINGS"}
      BY <2>1, <3>2 DEF SniffStream, ReadableFs
    <3>4. facts'.bom = disk.bom /\ facts'.shebang = disk.shebang
      BY <2>3, <3>3 DEF IInv, TypeOK, Facts
    <3>5. /\ st'.fs = "BOM_BEFORE_SHEBANG" <=> BomFirst(disk)
          /\ st'.fs = "MIXED_LINE_ENDINGS" => MixedEol(disk)
          /\ disk.enc # "nul" /\ (~BomFirst(disk) => disk.enc # "early")
      BY <3>2, <3>3 DEF SniffStream, BomFirst, MixedEol
    <3> QED BY <3>1, <3>3, <3>4, <3>5
  <2> QED BY <2>4, <2>5
<1>6. SniffedDisk'
  BY <1>1, <1>2, <1>3, <1>4, <1>5 DEF SniffedDisk, OthersKept, BomFirst
<1>7. ReadDisk' /\ LookedRight' /\ ScannedRight' /\ EmptyIsPlain'
  BY <1>1, <1>2, <1>3 DEF OthersKept, ReadDisk, LookedRight, ScannedRight, EmptyIsPlain
<1> QED BY <1>6, <1>7

\* What the reader takes on, it takes on rightly.
LEMMA ReaderIsRight ==
  ASSUME TextBase, QuietInv,
         ReaderRefuses \/ ReaderFails \/ ReaderFindsEmpty \/ ReaderLoads
  PROVE  QuietInv'
<1> USE DEF TextBase, Base, QuietInv
<1>1. /\ Running("reader") /\ st.content = "PENDING" /\ st.fs # "PENDING" /\ halt = None
      /\ st.header = "PENDING" /\ st.fs \in ReadableFs /\ st.resolve = "RESOLVED"
  <2>1. Running("reader") /\ st.content = "PENDING" /\ halt = None
    BY NotReadingEffect, EmptyEffect, LoadEffect
       DEF ReaderRefuses, ReaderFails, ReaderFindsEmpty, ReaderLoads
  <2>2. st.fs # "PENDING"
    BY <2>1, ReaderAtHand
  <2>3. st.fs \in ReadableFs
    BY <2>1, <2>2 DEF ReportInv
  <2> QED BY <2>1, <2>2, <2>3, NothingPlannedYet DEF SniffedDisk
<1>2. setup' = setup /\ disk' = disk
  BY NotReadingEffect, EmptyEffect, LoadEffect DEF WentOn
<1>3. policy' = policy /\ ftype' = ftype /\ ftype.resolve = "RESOLVED"
  BY <1>1, <1>2 DEF policy, ftype, SniffedDisk
<1>4. EmptyIsPlain'
  BY <1>2, <1>3 DEF EmptyIsPlain
<1>5. CASE ReaderRefuses \/ ReaderFails
  <2>1. OthersKept({"content"}) /\ st'.content # "OK" /\ halt' # None /\ read' = read
    BY <1>5, NotReadingEffect DEF WentOn
  <2>2. SniffedDisk'
    BY <1>3, <2>1 DEF SniffedDisk, OthersKept
  <2> QED BY <1>1, <1>2, <1>4, <2>1, <2>2
          DEF ReadDisk, LookedRight, ScannedRight, OthersKept
<1>6. ASSUME OthersKept({"fs", "content"}), st'.content # "PENDING", read' = disk,
             st'.content = "OK" =>
               /\ st'.fs = FsOf(disk) /\ Accepts(disk)
               /\ Sized(disk) => facts'.bom = disk.bom /\ facts'.shebang = disk.shebang
      PROVE  QuietInv'
  <2>1. SniffedDisk'
    BY <1>1, <1>3, <1>6 DEF SniffedDisk, OthersKept
  <2>2. LookedRight'
    BY <1>2, <1>6, VerdictsFixed DEF LookedRight
  <2> QED BY <1>1, <1>2, <1>4, <1>6, <2>1, <2>2 DEF ReadDisk, ScannedRight, OthersKept
<1>7. CASE ReaderFindsEmpty
  <2>1. /\ OthersKept({"fs", "content"}) /\ st'.content = "OK" /\ st'.fs = "EMPTY" /\ read' = disk
        /\ disk \in FileContent /\ ~Sized(disk)
    BY <1>7, EmptyEffect
  <2>2. disk # None
    BY <2>1, NoneAssumption
  <2>3. FsOf(disk) = "EMPTY" /\ Accepts(disk)
    BY <1>3, <2>1, <2>2 DEF FsOf, Accepts
  <2> QED BY <1>6, <2>1, <2>3
<1>8. CASE ReaderLoads
  <2>1. /\ OthersKept({"fs", "content"}) /\ read' = disk /\ disk \in FileContent /\ Sized(disk)
        /\ st'.content = "OK" <=> ~ReaderRejects(disk) /\ ~ReaderReflows(disk)
        /\ st'.fs = IF MixedEol(disk) /\ ~ReaderRejects(disk) THEN "MIXED_LINE_ENDINGS" ELSE st.fs
        /\ facts'.bom = (facts.bom \/ disk.bom) /\ facts'.shebang = facts.shebang
        /\ ReaderGate = "OK"
    BY <1>8, LoadEffect
  <2>2. /\ disk # None /\ st.fs # "EMPTY"
        /\ facts.bom = disk.bom /\ facts.shebang = disk.shebang
        /\ st.fs = "BOM_BEFORE_SHEBANG" <=> BomFirst(disk)
        /\ st.fs = "MIXED_LINE_ENDINGS" => MixedEol(disk)
        /\ disk.enc # "nul" /\ (~BomFirst(disk) => disk.enc # "early")
    BY <1>1, <2>1 DEF SniffedDisk
  <2>3. ASSUME st'.content = "OK"
        PROVE  st'.fs = FsOf(disk) /\ Accepts(disk)
    <3>1. MixedEol(disk) => policy.mixed # "reject"
      BY <2>1, <2>3 DEF ReaderRejects
    <3>2. ftype.checker /\ disk.ins = "REFLOW" /\ ~EffectivelyEmpty(disk) => policy.reflow
      BY <2>1, <2>3 DEF ReaderReflows, Capability
    <3>3. BomFirst(disk) => policy.bom # "reject"
      BY <2>1, <2>2 DEF ReaderGate
    <3>4. policy.mixed \in {"reject", "preserve"}
      BY SetupsAssumption DEF policy, IInv, TypeOK, FrozenPolicy
    <3>5. st'.fs = FsOf(disk)
      BY <1>1, <2>1, <2>2, <3>1 DEF FsOf, ReaderRejects, ReadableFs
    <3> QED BY <1>3, <2>1, <2>2, <3>1, <3>2, <3>3, <3>4, <3>5 DEF Accepts
  <2>4. facts'.bom = disk.bom /\ facts'.shebang = disk.shebang
    <3>1. disk.bom \in BOOLEAN
      BY <2>1 DEF FileContent
    <3> QED BY <2>1, <2>2, <3>1
  <2>5. st'.content # "PENDING"
    BY <1>8 DEF ReaderLoads, Settle, IInv, TypeOK, ProcessingStatus
  <2> QED BY <1>6, <2>1, <2>3, <2>4, <2>5
<1> QED BY <1>5, <1>7, <1>8

\* The scanner finds the first block of the file.
LEMMA ScannerIsRight ==
  ASSUME TextBase, QuietInv, Scanner
  PROVE  QuietInv'
<1> USE DEF TextBase, Base, QuietInv
<1>1. /\ OthersKept({"header"}) /\ st.content = "OK" /\ views.image \in FileContent
      /\ st'.header = ScannedStatus /\ setup' = setup /\ UNCHANGED <<disk, facts, read>>
      /\ halt = None
      /\ Needed("header")' => views'.header = FoundHeader
  BY ScannerEffect DEF WentOn, ViewsLeft
<1>2. policy' = policy /\ ftype' = ftype
  BY <1>1 DEF policy, ftype
<1>3. read \in FileContent /\ views.image = TextOf(read)
  BY <1>1, NoneAssumption DEF TextInv, ContextIsOfRead, IInv, TypeOK
<1>4. views.image.headers = read.headers
  BY <1>3, TextOfContent
<1>5. ScannedHeader = TopHeader(read)
  <2>1. st.fs = "EMPTY" => ~Sized(read)
    BY <1>1 DEF LookedRight, FsOf
  <2>2. TopHeader(views.image) = TopHeader(read)
    BY <1>4 DEF TopHeader
  <2>3. ~Sized(read) => TopHeader(read) = "missing"
    BY DEF Sized, TopHeader
  <2> QED BY <2>1, <2>2, <2>3 DEF ScannedHeader
<1>6. ScannedRight'
  BY <1>1, <1>5 DEF ScannedRight, ScannedStatus, HeaderOf, FoundHeader
<1>7. SniffedDisk' /\ ReadDisk' /\ EmptyIsPlain'
  BY <1>1, <1>2 DEF SniffedDisk, ReadDisk, EmptyIsPlain, OthersKept
<1>8. LookedRight'
  BY <1>1, VerdictsFixed DEF LookedRight, OthersKept
<1> QED BY <1>6, <1>7, <1>8

\* The writer comes after all verdicts, and leaves no file that only seems to be empty.
LEMMA WriterIsRight ==
  ASSUME TextBase, QuietInv, Writer
  PROVE  QuietInv'
<1> USE DEF TextBase, Base, QuietInv
<1>1. /\ OthersKept({"write"}) /\ setup' = setup /\ UNCHANGED <<facts, read>>
      /\ views.updated \in FileContent /\ st'.write \in WriteResults /\ disk' \in Left(st'.write)
      /\ views'.header \in {views.header, None} /\ todo' = <<>>
      /\ st.write = "PENDING"
  BY WriterEffect DEF WentOn, ViewsLeft
<1>2. policy' = policy /\ ftype' = ftype
  BY <1>1 DEF policy, ftype
<1>3. st.content = "OK" /\ views.updated # None
  BY <1>1, NothingPlannedYet, NoneAssumption
<1>4. SniffedDisk' /\ ReadDisk'
  BY <1>1, <1>2, <1>3 DEF SniffedDisk, ReadDisk, OthersKept, WriteResults
<1>5. LookedRight'
  BY <1>1, VerdictsFixed DEF LookedRight, OthersKept
<1>6. ScannedRight'
  <2>1. ~Needed("header")'
    BY <1>1 DEF Needed, RemainingConsumers, ToSet
  <2> QED BY <1>1, <2>1 DEF ScannedRight, OthersKept, HeaderOf
<1>7. policy.mixed = "reject" => ~MixedEol(views.updated)
  <2>1. /\ read # None /\ views.updated.eol = read.eol
    BY <1>3 DEF TextInv, UpdateKeepsText, SameUserText
  <2>2. read = disk
    BY <1>1, <2>1 DEF ReadDisk
  <2>3. Sized(read) => ~ReaderRejects(read)
    BY <1>3 DEF TextInv, ContextIsOfRead
  <2> QED BY <2>1, <2>2, <2>3 DEF ReaderRejects, EmptyIsPlain, MixedEol
<1>8. disk' \in {disk, views.updated, NoBytes, [views.updated EXCEPT !.body = "cut"]}
  BY <1>1 DEF Left, LeftByFailure, Torn
<1>9. ~MixedEol(NoBytes) /\ Sized([views.updated EXCEPT !.body = "cut"])
  BY <1>1 DEF NoBytes, MixedEol, Sized, FileContent
<1>10. EmptyIsPlain'
  BY <1>2, <1>7, <1>8, <1>9 DEF EmptyIsPlain
<1> QED BY <1>4, <1>5, <1>6, <1>10

\* Every step keeps what is known of verdicts.
LEMMA VerdictsKept ==
  ASSUME ~Races, TextBase, QuietInv, [Next]_vars
  PROVE  QuietInv'
BY StepsLeavingVerdicts, LeavingVerdictsKeeps, VerdictsBeginAndEnd, SniffingIsRight, ReaderIsRight,
   ScannerIsRight, WriterIsRight DEF Next, Step

\* Undisturbed, every verdict of a run is one on the file as it is.
THEOREM Verdicts == ASSUME ~Races PROVE Spec => [](TextBase /\ QuietInv)
<1>1. Init => QuietInv
  <2>1. Init => EmptyIsPlain
    BY ContentsAssumption DEF Init, EmptyIsPlain, MixedEol
  <2> QED BY <2>1 DEF Init, QuietInv, SniffedDisk, ReadDisk, LookedRight, ScannedRight, AllPending
<1>2. Spec => []TextBase
  BY Texts, PTL DEF TextBase
<1>3. TextBase /\ QuietInv /\ [Next]_vars => QuietInv'
  BY VerdictsKept
<1> QED BY <1>1, <1>2, <1>3, PTL DEF Spec

\* What a completed write rests on, undisturbed.
LEMMA WritingRests ==
  ASSUME TextBase, QuietInv, Next, FileWritten
  PROVE  /\ disk = read /\ read \in FileContent /\ st.content = "OK"
         /\ st.fs = FsOf(read) /\ Accepts(read) /\ st.header = HeaderOf(read)
         /\ Sized(read) => facts.bom = read.bom /\ facts.shebang = read.shebang
         /\ facts.leff = EffectivelyEmpty(read) /\ facts.llog = LogicallyEmpty(read)
<1> USE DEF TextBase, Base
<1>1. /\ Writer /\ st.plan \in ConcretePlans /\ views.updated \in FileContent
      /\ st.write = "PENDING"
  BY WritingStep, WriterEffect
<1>2. st.content = "OK" /\ st.header # "PENDING"
  BY <1>1 DEF IInv, DecidedFromBelow, ConcretePlans
<1>3. read # None /\ read \in FileContent
  BY <1>2 DEF TextInv, ContextIsOfRead, IInv, TypeOK
<1> QED BY <1>1, <1>2, <1>3
        DEF QuietInv, ReadDisk, LookedRight, ScannedRight, TextInv, ContextIsOfRead

\* No file the policy excludes is written, undisturbed: neither by a step that did not
\* notice nor by one that noticed too late (SnifferStep, ReaderStep, can_change).
THEOREM ExcludedStaysUnwritten == ASSUME ~Races PROVE Spec => ExcludedIsNeverWritten
<1>1. ASSUME TextBase, QuietInv, Next, FileWritten
      PROVE  ~Excluded(disk)
  <2>1. /\ disk = read /\ read \in FileContent /\ st.fs = FsOf(read) /\ Accepts(read)
        /\ st.header = HeaderOf(read)
        /\ facts.leff = EffectivelyEmpty(read) /\ facts.llog = LogicallyEmpty(read)
        /\ CanChange(st, policy, facts)
    BY <1>1, WritingRests, WritingStep DEF TextBase, Base
  <2>2. TopHeader(read) \notin MalformedKinds
    BY <2>1 DEF CanChange, HeaderOf, MalformedKinds
  <2>3. ~(MixedEol(read) /\ policy.mixed = "reject")
    <3>1. read # None
      BY <2>1, NoneAssumption
    <3> QED BY <1>1, <2>1, <3>1 DEF Accepts, QuietInv, EmptyIsPlain
  <2>4. ~(read.bom /\ read.shebang /\ ftype.shebang /\ policy.bom = "reject")
    BY <2>1 DEF Accepts, BomFirst, Sized
  <2>5. ~(EmptyLike(read) /\ ~policy.allowEmpty)
    <3>1. CASE ShouldRemoveBom(st, policy, facts)
      <4>1. BomFirst(read) /\ Sized(read)
        BY <2>1, <3>1 DEF ShouldRemoveBom, FsOf
      <4>2. ~LogicallyEmpty(read) /\ ~EffectivelyEmpty(read)
        BY <4>1 DEF BomFirst, LogicallyEmpty, EffectivelyEmpty
      <4> QED BY <4>1, <4>2 DEF EmptyLike
    <3>2. CASE ~IsEmptyForInsert(st, policy, facts)
      <4>1. Sized(read)
        BY <2>1, <3>2 DEF IsEmptyForInsert, FsOf
      <4> QED BY <2>1, <3>2, <4>1 DEF IsEmptyForInsert, EmptyLike
    <3>3. CASE policy.allowEmpty
      BY <3>3
    <3> QED BY <2>1, <3>1, <3>2, <3>3 DEF CanChange, AllowInsertIntoEmptyLike
  <2>6. ~(ftype.checker /\ read.ins = "REFLOW" /\ ~EffectivelyEmpty(read) /\ ~policy.reflow)
    <3>1. ~Sized(read) => EffectivelyEmpty(read)
      BY <2>1 DEF Sized, EffectivelyEmpty, FileContent
    <3> QED BY <2>1, <3>1 DEF Accepts
  <2> QED BY <2>1, <2>2, <2>3, <2>4, <2>5, <2>6 DEF Excluded
<1>2. TextBase /\ QuietInv /\ [Next]_vars => [FileWritten => ~Excluded(disk)]_vars
  BY <1>1
<1> QED BY <1>2, Verdicts, PTL DEF Spec, ExcludedIsNeverWritten

\* A BOM that no shebang line follows is put back in front of whatever is written
\* (_prepend_bom_to_lines_if_needed), undisturbed.
THEOREM BomIsKept == ASSUME ~Races PROVE Spec => BomSurvives
<1>1. ASSUME TextBase, QuietInv, Next, FileWritten, disk.bom, ~disk.shebang, Sized(disk')
      PROVE  disk'.bom
  <2>1. disk = read /\ (Sized(read) => facts.bom = read.bom /\ facts.shebang = read.shebang)
    BY <1>1, WritingRests
  <2>2. facts.bom /\ ~facts.shebang
    BY <1>1, <2>1 DEF Sized
  <2>3. disk' = views.updated /\ views.updated # None /\ st.plan \in ConcretePlans
    BY <1>1, WritingStep, NoneAssumption DEF TextBase, Base
  <2> QED BY <1>1, <2>2, <2>3 DEF TextBase, TextInv, BomPutBack
<1>2. TextBase /\ QuietInv /\ [Next]_vars =>
        [FileWritten /\ disk.bom /\ ~disk.shebang => (Sized(disk') => disk'.bom)]_vars
  BY <1>1
<1> QED BY <1>2, Verdicts, PTL DEF Spec, BomSurvives

------------------------------------------------------------------------------
(***************************************************************************)
(* The headers of the text that is written.                                *)
(***************************************************************************)

\* remove_bom has something to remove.
Remediates(c) == FsOf(c) = "BOM_BEFORE_SHEBANG" /\ policy.bom = "remove_bom"

\* The headers left when the first block, if there is one, has made room.
OtherHeaders(c) == IF TopHeader(c) = "missing" THEN c.headers ELSE Tail(c.headers)

\* An updated text has no BOM left to remove and the headers that were decided on.
UpdatedRight ==
  views.updated # None =>
    /\ ~Remediates(views.updated)
    /\ st.strip = "READY" =>
         views.updated.headers = IF Found THEN Tail(read.headers) ELSE read.headers
    /\ st.plan \in {"INSERTED", "REPLACED"} =>
         views.updated.headers = Prepend(Rendering, OtherHeaders(read))

\* All that is known of an undisturbed run.
QuietBase == TextBase /\ QuietInv

\* A text put together from the image has no BOM that remove_bom would have removed.
LEMMA NothingToRemove ==
  ASSUME QuietBase, st.content = "OK", NEW c, SameUserText(c, read),
         c.bom => KeptBom \/ (facts.bom /\ ~facts.shebang)
  PROVE  ~Remediates(c)
<1> SUFFICES ASSUME Remediates(c) PROVE FALSE
  OBVIOUS
<1>1. BomFirst(c) /\ ~MixedEol(c) /\ policy.bom = "remove_bom"
  BY DEF Remediates, FsOf
<1>2. read.shebang /\ ~MixedEol(read) /\ Sized(read) /\ ftype.shebang
  BY <1>1 DEF BomFirst, SameUserText, MixedEol, Sized
<1>3. facts.bom = read.bom /\ facts.shebang /\ st.fs = FsOf(read)
  BY <1>2 DEF QuietBase, QuietInv, LookedRight
<1>4. KeptBom
  BY <1>1, <1>3 DEF BomFirst
<1>5. read.bom /\ st.fs = "BOM_BEFORE_SHEBANG"
  BY <1>2, <1>3, <1>4 DEF KeptBom, FsOf, BomFirst
<1> QED BY <1>1, <1>3, <1>4, <1>5 DEF KeptBom, ShouldRemoveBom

\* A step that neither makes an updated text nor decides on one.
LeavesUpdate ==
  /\ setup' = setup /\ views'.updated \in {views.updated, None}
  /\ views'.updated # None => /\ read' = read
                              /\ st'.strip = st.strip /\ st'.plan = st.plan
                              /\ st'.header = st.header

\* Most steps are like that.
LEMMA StepsLeavingUpdate ==
  ASSUME TextBase,
         \/ Pass \/ Resolver \/ Prober \/ Sniffer \/ ReaderRefuses \/ ReaderFails
         \/ ReaderFindsEmpty \/ ReaderLoads \/ Scanner \/ Builder \/ BuilderRaises \/ Renderer
         \/ Comparer \/ Patcher \/ Writer \/ StartRun \/ EndRun
         \/ ExternalEdit \/ ExternalChmod \/ UNCHANGED vars
  PROVE  LeavesUpdate
<1> USE DEF TextBase, Base
<1>1. CASE Pass
  BY <1>1, PassEffect DEF LeavesUpdate, WentOn, ViewsLeft
<1>2. CASE Resolver \/ Prober
  BY <1>2, ResolveEffect DEF LeavesUpdate, WentOn, ViewsLeft, OthersKept
<1>3. CASE Sniffer
  BY <1>3, SnifferEffect DEF LeavesUpdate, WentOn, ViewsLeft, OthersKept
<1>4. CASE ReaderRefuses \/ ReaderFails
  BY <1>4, NotReadingEffect DEF LeavesUpdate, WentOn, ViewsLeft, OthersKept
<1>5. CASE ReaderFindsEmpty
  BY <1>5, EmptyEffect, NothingPlannedYet DEF LeavesUpdate, WentOn, ViewsLeft
<1>6. CASE ReaderLoads
  BY <1>6, LoadEffect, NothingPlannedYet DEF LeavesUpdate, WentOn, ViewsLeft
<1>7. CASE Scanner
  <2>1. views.updated = None
    BY <1>7, ScannerEffect DEF IInv, DecidedFromBelow
  <2> QED BY <1>7, <2>1, ScannerEffect DEF LeavesUpdate, WentOn, ViewsLeft
<1>8. CASE Builder
  BY <1>8, BuilderEffect DEF LeavesUpdate, WentOn, ViewsLeft, OthersKept
<1>9. CASE BuilderRaises
  BY <1>9 DEF BuilderRaises, LeavesUpdate
<1>10. CASE Renderer
  BY <1>10, RendererEffect DEF LeavesUpdate, WentOn, ViewsLeft, OthersKept
<1>11. CASE Comparer
  BY <1>11, ComparerEffect DEF LeavesUpdate, WentOn, ViewsLeft, OthersKept
<1>12. CASE Patcher
  BY <1>12, PatcherEffect DEF LeavesUpdate, WentOn, ViewsLeft, OthersKept
<1>13. CASE Writer
  BY <1>13, WriterEffect DEF LeavesUpdate, WentOn, ViewsLeft, OthersKept
<1>14. CASE StartRun
  BY <1>14 DEF StartRun, LeavesUpdate
<1>15. CASE EndRun
  BY <1>15 DEF EndRun, NoViews, LeavesUpdate
<1>16. CASE ExternalEdit \/ ExternalChmod \/ UNCHANGED vars
  BY <1>16 DEF ExternalEdit, ExternalChmod, vars, run, LeavesUpdate
<1> QED BY <1>1, <1>2, <1>3, <1>4, <1>5, <1>6, <1>7, <1>8, <1>9, <1>10, <1>11, <1>12, <1>13,
           <1>14, <1>15, <1>16

\* What is written when a header is planned, in terms of the file.
LEMMA NewTextIsRight ==
  ASSUME QuietBase, PlanReplace \/ PlanInsert
  PROVE  /\ NewText.headers = Prepend(Rendering, OtherHeaders(read))
         /\ NewText.bom => KeptBom \/ (facts.bom /\ ~facts.shebang)
         /\ views.header = None <=> TopHeader(read) = "missing"
         /\ views.render = Rendering
<1> USE DEF QuietBase, TextBase, Base
<1>1. /\ views.image \in FileContent /\ Needed("header") /\ Needed("render")
      /\ st.render = "RENDERED"
      /\ Inserted \in FileContent /\ (views.header # None => Replaced \in FileContent)
  BY PlannerEffect, PlanUpdateEffect
<1>2. views.render = Rendering
  BY <1>1 DEF RenderedAsConfigured
<1>3. read \in FileContent /\ views.image = TextOf(read)
  BY <1>1, NoneAssumption DEF TextInv, ContextIsOfRead, IInv, TypeOK
<1>4. views.image.headers = read.headers /\ ~views.image.bom
  BY <1>3, TextOfContent
<1>5. st.header # "PENDING"
  BY <1>1 DEF IInv, DecidedFromBelow
<1>6. views.header = IF TopHeader(read) = "missing" THEN None ELSE TopHeader(read)
  BY <1>1, <1>5 DEF QuietInv, ScannedRight
<1>7. TopHeader(read) \in HeaderKinds \cup {"missing"}
  BY <1>3, ElementOfSeq, EmptySeq DEF TopHeader, FileContent
<1>8. views.header = None <=> TopHeader(read) = "missing"
  BY <1>6, <1>7, NoneAssumption
<1>9. /\ Replaced.headers = Prepend(views.render, Tail(read.headers)) /\ ~Replaced.bom
      /\ Inserted.headers = Prepend(views.render, read.headers) /\ ~Inserted.bom
  BY <1>1, <1>4 DEF Replaced, Inserted, FileContent
<1>10. ASSUME NEW c \in FileContent, ~c.bom
       PROVE  /\ PrependBom(c).headers = c.headers
              /\ PrependBom(c).bom => facts.bom /\ ~facts.shebang
  BY <1>10 DEF PrependBom, FileContent
<1>11. CASE views.header # None
  BY <1>1, <1>2, <1>8, <1>9, <1>10, <1>11 DEF NewText, OtherHeaders
<1>12. CASE views.header = None
  <2>1. /\ [Inserted EXCEPT !.bom = KeptBom].headers = Inserted.headers
        /\ [Inserted EXCEPT !.bom = KeptBom].bom = KeptBom
    BY <1>1 DEF FileContent
  <2> QED BY <1>1, <1>2, <1>8, <1>9, <1>10, <1>12, <2>1 DEF NewText, OtherHeaders
<1> QED BY <1>2, <1>8, <1>11, <1>12

\* Every step keeps what is known of updated texts.
LEMMA UpdateKept ==
  ASSUME ~Races, QuietBase, UpdatedRight, [Next]_vars
  PROVE  UpdatedRight'
<1> USE DEF QuietBase, TextBase, Base
<1>1. TextInv'
  BY TextKept
<1>2. ASSUME setup' = setup, NEW c
      PROVE  Remediates(c)' = Remediates(c) /\ Rendering' = Rendering
  BY <1>2, VerdictsFixed DEF Remediates, Rendering, Selected
<1>3. ASSUME LeavesUpdate
      PROVE  UpdatedRight'
  BY <1>2, <1>3 DEF LeavesUpdate, UpdatedRight, Found, Remediates, FsOf, BomFirst, policy, ftype
<1>4. CASE Stripper
  <2>1. /\ OthersKept({"strip"}) /\ st.content = "OK" /\ setup' = setup /\ read' = read
        /\ views.image \in FileContent /\ StrippedText \in FileContent
        /\ st.strip = "PENDING" /\ mode.cmd = "strip" /\ facts' = facts
        /\ \/ st'.strip = "READY" /\ views'.updated \in {StrippedText, None}
           \/ st'.strip # "READY" /\ views'.updated \in {views.updated, None}
    BY <1>4, StripperEffect DEF ViewsLeft, WentOn
  <2>2. views.updated = None /\ st.plan = "PENDING"
    BY <2>1 DEF IInv, DecidedFromBelow
  <2>3. views.image.headers = read.headers /\ ~views.image.bom
    BY <2>1, TextOfContent, NoneAssumption DEF TextInv, ContextIsOfRead, IInv, TypeOK
  <2>4. /\ StrippedText.headers = IF Found THEN Tail(read.headers) ELSE read.headers
        /\ StrippedText.bom => KeptBom
    BY <2>1, <2>3 DEF StrippedText, Stripped, FileContent
  <2>5. ASSUME views'.updated # None
        PROVE  views'.updated = StrippedText /\ SameUserText(StrippedText, read)
    BY <1>1, <2>1, <2>2, <2>5 DEF TextInv, UpdateKeepsText
  <2>6. views'.updated # None => ~Remediates(StrippedText)
    BY <2>1, <2>4, <2>5, NothingToRemove
  <2>7. Found' = Found
    BY <2>1 DEF Found, OthersKept
  <2> QED BY <1>2, <2>1, <2>2, <2>4, <2>5, <2>6, <2>7, VerdictsFixed
          DEF UpdatedRight, OthersKept, Remediates
<1>5. CASE PlanStrip \/ PlanUnchanged \/ PlanRefused \/ PlanReplace \/ PlanInsert \/ PlanNoAnchor
  <2>1. /\ OthersKept({"plan"}) /\ views.image \in FileContent /\ read' = read
    BY <1>5, PlannerEffect
  <2>2. read \in FileContent /\ views.image.headers = read.headers /\ ~views.image.bom
        /\ st.content = "OK"
    <3>1. read \in FileContent /\ views.image = TextOf(read)
      BY <2>1, NoneAssumption DEF TextInv, ContextIsOfRead, IInv, TypeOK
    <3>2. st.content = "OK"
      BY <1>5, PlanStripEffect, PlanUnchangedEffect, PlanGivenUpEffect, PlanUpdateEffect
         DEF IInv, DecidedFromBelow
    <3> QED BY <3>1, <3>2, TextOfContent
  <2> DEFINE Good(plan, updated) ==
               updated # None =>
                 /\ ~Remediates(updated)
                 /\ st.strip = "READY" =>
                      updated.headers = IF Found THEN Tail(read.headers) ELSE read.headers
                 /\ plan \in {"INSERTED", "REPLACED"} =>
                      updated.headers = Prepend(Rendering, OtherHeaders(read))
  <2>3. ASSUME NEW plan, NEW stop, NEW updated, NEW edit,
               PlanLeaves(plan, stop, updated, edit), Good(plan, updated)
        PROVE  UpdatedRight'
    <3>1. st'.plan = plan /\ setup' = setup /\ views'.updated \in {updated, None}
      BY <2>3 DEF PlanLeaves, WentOn, ViewsLeft
    <3>2. Found' = Found /\ st'.strip = st.strip
      BY <2>1 DEF Found, OthersKept
    <3>3. Remediates(updated)' = Remediates(updated) /\ Rendering' = Rendering
      BY <1>2, <3>1
    <3> QED BY <2>1, <2>3, <3>1, <3>2, <3>3 DEF UpdatedRight, Remediates, FsOf, BomFirst
  <2>4. SameUserText(views.image, read) /\ ~Remediates(views.image)
    <3>1. SameUserText(views.image, read)
      BY <2>1, TextOfContent, NoneAssumption DEF TextInv, ContextIsOfRead, IInv, TypeOK
    <3> QED BY <2>2, <3>1, NothingToRemove
  <2>5. CASE PlanStrip
    <3>1. views.updated \in FileContent /\ views.updated # None /\ st.strip = "READY"
      BY <2>5, PlanStripEffect, NoneAssumption
    <3>2. PrependBom(views.updated).headers = views.updated.headers
      BY <3>1 DEF PrependBom, FileContent
    <3>3. ~Remediates(PrependBom(views.updated))
      <4>1. CASE facts.bom /\ ~facts.shebang
        <5>1. SameUserText(PrependBom(views.updated), read)
          BY <3>1 DEF TextInv, UpdateKeepsText, SameUserText, PrependBom, FileContent
        <5> QED BY <2>2, <4>1, <5>1, NothingToRemove
      <4>2. CASE ~(facts.bom /\ ~facts.shebang)
        <5>1. PrependBom(views.updated) = views.updated
          BY <3>1, <4>2 DEF PrependBom, FileContent
        <5> QED BY <3>1, <5>1 DEF UpdatedRight
      <4> QED BY <4>1, <4>2
    <3>4. Good(PlanKind("REMOVED"), PrependBom(views.updated))
      BY <3>1, <3>2, <3>3 DEF UpdatedRight, PlanKind
    <3> HIDE DEF Good
    <3> QED BY <2>3, <2>5, <3>4, PlanStripEffect
  <2>6. ASSUME NEW stop, PlanSkips(stop), st.strip # "READY"
        PROVE  UpdatedRight'
    <3>1. Good("SKIPPED", views.image)
      BY <2>4, <2>6
    <3> HIDE DEF Good
    <3> QED BY <2>3, <2>6, <3>1 DEF PlanSkips
  <2>7. CASE PlanUnchanged
    BY <2>6, <2>7, PlanUnchangedEffect
  <2>8. CASE PlanRefused \/ PlanNoAnchor
    <3>1. st.strip # "READY"
      BY <2>8, PlanGivenUpEffect
    <3>2. Good("FAILED", views.updated)
      BY <3>1 DEF UpdatedRight
    <3> HIDE DEF Good
    <3> QED BY <2>3, <2>6, <2>8, <3>1, <3>2, PlanGivenUpEffect
  <2>9. CASE PlanReplace \/ PlanInsert
    <3>1. st.strip # "READY"
      BY <2>9, PlanUpdateEffect
    <3>2. SameUserText(NewText, read) /\ ~Remediates(NewText)
      <4>1. SameUserText(NewText, read)
        BY <2>9, NewTextKeepsText
      <4> QED BY <2>2, <2>9, <4>1, NewTextIsRight, NothingToRemove
    <3>3. Good(PlanKind(NewPlan), NewText)
      BY <2>9, <3>1, <3>2, NewTextIsRight
    <3> HIDE DEF Good
    <3> QED BY <2>3, <2>6, <2>9, <3>1, <3>3, PlanUpdateEffect
  <2> QED BY <1>5, <2>5, <2>7, <2>8, <2>9
<1>6. CASE ~(Stripper \/ PlanStrip \/ PlanUnchanged \/ PlanRefused \/ PlanReplace \/ PlanInsert
             \/ PlanNoAnchor)
  BY <1>3, <1>6, StepsLeavingUpdate DEF Next, Step
<1> QED BY <1>4, <1>5, <1>6

\* An undisturbed run plans with the headers of the file and writes without a BOM that was
\* to be removed.
THEOREM Updates == ASSUME ~Races PROVE Spec => [](QuietBase /\ UpdatedRight)
<1>1. Init => UpdatedRight
  BY DEF Init, NoViews, UpdatedRight
<1>2. Spec => []QuietBase
  BY Verdicts, PTL DEF QuietBase
<1>3. QuietBase /\ UpdatedRight /\ [Next]_vars => UpdatedRight'
  BY UpdateKept
<1> QED BY <1>1, <1>2, <1>3, PTL DEF Spec

\* What the writer may leave at the path: the file as it was, a concrete plan's text, or
\* what a failed in-place write left of that.
LEMMA LeftAtPath ==
  ASSUME IInv, Writer, disk' # disk
  PROVE  /\ disk' \in {views.updated, NoBytes, [views.updated EXCEPT !.body = "cut"]}
         /\ views.updated \in FileContent
         /\ \/ st.strip = "READY"
            \/ st.plan \in {"INSERTED", "REPLACED"}
<1>1. /\ Running("writer") /\ views.updated \in FileContent /\ disk' \in Left(st'.write)
  BY WriterEffect
<1>2. mode.sink # "stdout" /\ disk' \in {views.updated, NoBytes, [views.updated EXCEPT !.body = "cut"]}
  BY <1>1 DEF Left, LeftByFailure, Torn
<1>3. st.plan \in ConcretePlans
  BY <1>1, <1>2 DEF Running, MayProceed, Gate
<1> QED BY <1>1, <1>2, <1>3 DEF ConcretePlans, IInv, PlanRestsOnDecisions

\* Neither the file nor what was read of it has two headers.
OneHeaderInv ==
  /\ AtMostOneHeader
  /\ read # None => Len(read.headers) <= 1

\* A sequence of one has nothing behind its first.
LEMMA TailOfOne ==
  ASSUME NEW h \in Seq(HeaderKinds), Len(h) <= 1, h # <<>>
  PROVE  Tail(h) = <<>>
<1>1. Len(h) \in Nat \ {0}
  BY EmptySeq
<1>2. Len(h) = 1
  <2>1. \A n \in Nat \ {0} : n <= 1 => n = 1
    OBVIOUS
  <2> QED BY <1>1, <2>1
<1>3. Tail(h) \in Seq(HeaderKinds) /\ Len(Tail(h)) = Len(h) - 1
  BY HeadTailProperties
<1>4. Len(Tail(h)) = 0
  BY <1>2, <1>3
<1>5. Tail(h) # <<>> => Len(Tail(h)) \in Nat \ {0}
  BY <1>3, EmptySeq
<1> QED BY <1>4, <1>5

\* Putting one header in the place of the first leaves no more than there were.
LEMMA HeaderCount ==
  ASSUME NEW c \in FileContent, Len(c.headers) <= 1, NEW kind
  PROVE  /\ c.headers # <<>> => Len(Tail(c.headers)) <= 1
         /\ Len(Prepend(kind, OtherHeaders(c))) <= 1
<1>1. c.headers \in Seq(HeaderKinds)
  BY DEF FileContent
<1>2. c.headers # <<>> => Tail(c.headers) = <<>>
  BY <1>1, TailOfOne
<1>3. c.headers # <<>> => TopHeader(c) # "missing"
  <2>1. ASSUME NEW h \in Seq(HeaderKinds), h # <<>>
        PROVE  h[1] \in HeaderKinds
    <3>1. Len(h) \in Nat \ {0}
      BY <2>1, EmptySeq
    <3>2. 1 \in 1..Len(h)
      BY <3>1
    <3> QED BY <3>2, ElementOfSeq
  <2> QED BY <1>1, <2>1 DEF TopHeader, HeaderKinds
<1>4. OtherHeaders(c) = <<>>
  BY <1>2, <1>3 DEF OtherHeaders, TopHeader
<1>5. Len(<<>>) <= 1 /\ Len(Prepend(kind, <<>>)) <= 1
  BY DEF Prepend
<1> QED BY <1>2, <1>4, <1>5

\* No step of an undisturbed run leaves a second header.
LEMMA OneHeaderKept ==
  ASSUME ~Races, QuietBase, UpdatedRight, OneHeaderInv, [Next]_vars
  PROVE  OneHeaderInv'
<1> USE DEF QuietBase, TextBase, Base, OneHeaderInv, AtMostOneHeader
<1>1. CASE ReaderFindsEmpty \/ ReaderLoads
  <2>1. disk' = disk /\ read' = disk
    BY <1>1, EmptyEffect, LoadEffect
  <2> QED BY <2>1
<1>2. CASE Writer
  <2>1. read' = read
    BY <1>2 DEF Writer
  <2>2. CASE disk' # disk
    <3>1. /\ disk' \in {views.updated, NoBytes, [views.updated EXCEPT !.body = "cut"]}
          /\ views.updated \in FileContent
          /\ st.strip = "READY" \/ st.plan \in {"INSERTED", "REPLACED"}
      BY <1>2, <2>2, LeftAtPath
    <3>2. /\ [views.updated EXCEPT !.body = "cut"].headers = views.updated.headers
          /\ NoBytes.headers = <<>> /\ views.updated # None
      BY <3>1, NoneAssumption DEF FileContent, NoBytes
    <3>3. read \in FileContent /\ Len(read.headers) <= 1
      BY <3>2 DEF TextInv, UpdateKeepsText, IInv, TypeOK
    <3>4. Len(views.updated.headers) <= 1
      <4>1. CASE st.strip = "READY"
        <5>1. views.updated.headers = IF Found THEN Tail(read.headers) ELSE read.headers
          BY <3>2, <4>1 DEF UpdatedRight
        <5>2. Found => read.headers # <<>>
          <6>1. st.header # "PENDING" => st.header = HeaderOf(read)
            BY DEF QuietInv, ScannedRight
          <6> QED BY <6>1 DEF Found, HeaderOf, TopHeader
        <5> QED BY <3>3, <5>1, <5>2, HeaderCount
      <4>2. CASE st.plan \in {"INSERTED", "REPLACED"}
        BY <3>2, <3>3, <4>2, HeaderCount DEF UpdatedRight
      <4> QED BY <3>1, <4>1, <4>2
    <3>5. Len(<<>>) <= 1
      OBVIOUS
    <3>6. disk'.headers \in {views.updated.headers, <<>>}
      BY <3>1, <3>2
    <3>7. Len(disk'.headers) <= 1
      BY <3>4, <3>5, <3>6
    <3> QED BY <2>1, <3>7
  <2> QED BY <2>1, <2>2
<1>3. CASE EndRun
  BY <1>3 DEF EndRun
<1>4. CASE StartRun \/ ExternalEdit \/ ExternalChmod \/ UNCHANGED vars
  BY <1>4 DEF StartRun, ExternalEdit, ExternalChmod, vars, run
<1>5. CASE \/ Pass \/ Resolver \/ Prober \/ Sniffer \/ ReaderRefuses \/ ReaderFails \/ Scanner
           \/ Builder \/ BuilderRaises \/ Renderer \/ Comparer \/ Stripper \/ PlanStrip
           \/ PlanUnchanged \/ PlanRefused \/ PlanReplace \/ PlanInsert \/ PlanNoAnchor \/ Patcher
  <2>1. UNCHANGED <<disk, read>>
    BY <1>5, PassEffect, ResolveEffect, SnifferEffect, NotReadingEffect, ScannerEffect, BuilderEffect,
       RendererEffect, ComparerEffect, StripperEffect, PlannerEffect, PatcherEffect DEF BuilderRaises
  <2> QED BY <2>1
<1> QED BY <1>1, <1>2, <1>3, <1>4, <1>5 DEF Next, Step

\* If no file has two TopMark headers to begin with, check and strip never leave a file
\* with two of them (ScannerStep, PlannerStep), undisturbed.
THEOREM OneHeader ==
  ASSUME ~Races, \A c \in Contents : Len(c.headers) <= 1
  PROVE  Spec => []AtMostOneHeader
<1>1. Init => OneHeaderInv
  BY DEF Init, OneHeaderInv, AtMostOneHeader
<1>2. QuietBase /\ UpdatedRight /\ OneHeaderInv /\ [Next]_vars => OneHeaderInv'
  BY OneHeaderKept
<1>3. OneHeaderInv => AtMostOneHeader
  BY DEF OneHeaderInv
<1> QED BY <1>1, <1>2, <1>3, Updates, PTL DEF Spec

------------------------------------------------------------------------------
(***************************************************************************)
(* Every decision of an undisturbed run can be told from the file alone.   *)
(***************************************************************************)

\* What the stripper decides about a file.
StripOf(c) ==
  CASE HeaderOf(c) \in {"DETECTED", "EMPTY"} -> "READY"
    [] HeaderOf(c) = "MISSING" -> IF Remediates(c) THEN "READY" ELSE "NOT_NEEDED"
    [] OTHER -> "FAILED"

\* What the comparer decides.
BadHeader(c) == TopHeader(c) \in {"badall", "badsome"}
ComparisonOf(c, cmd) ==
  IF BadHeader(c) THEN "SKIPPED"
  ELSE IF cmd = "strip" \/ TopHeader(c) # Rendering \/ Remediates(c) THEN "CHANGED" ELSE "UNCHANGED"

\* Whether the mutation mode permits a change.
Permits(c) ==
  /\ policy.mutation = "add_only" => HeaderOf(c) \notin {"DETECTED", "EMPTY"}
  /\ policy.mutation = "update_only" => HeaderOf(c) # "MISSING"

\* The decisions are those, and an edit is recorded wherever something is to be edited.
DecidedRight ==
  /\ st.content # "PENDING" => mode # None /\ mode.cmd # "probe"
  /\ st.generation = "SKIPPED" => halt # None
  /\ st.strip # "PENDING" => st.strip = StripOf(read)
  /\ st.comparison # "PENDING" => st.comparison = ComparisonOf(read, mode.cmd)
  /\ "comparer" \in ToSet(todo) => st.plan = "PENDING"
  /\ views.edit # None => st.strip = "READY" \/ st.plan # "PENDING"
  /\ halt = None /\ Needed("edit")
     /\ (st.strip = "READY" \/ (st.plan # "PENDING" /\ st.comparison = "CHANGED"))
       => views.edit = "single"

\* Why a run that read the file was halted before it came to a decision.
HaltedRight ==
  st.content = "OK" /\ halt # None =>
    /\ st.header # "PENDING"
    /\ mode.cmd = "strip" /\ st.strip = "PENDING" => st.header = "MALFORMED" \/ ~Permits(read)
    /\ mode.cmd = "check" /\ st.comparison = "PENDING" =>
         \/ st.header = "MALFORMED" \/ ~Permits(read)
         \/ st.render \in {"SKIPPED", "FAILED"}

\* A command has nothing left to do with this file.
Done(c, cmd) ==
  /\ ~Remediates(c)
  /\ cmd = "strip" => c.headers = <<>>
  /\ cmd = "check" => TopHeader(c) = Rendering

\* A run that wrote the file is done with it, and so is the next one of the same command.
WriteDone ==
  st.write = "WRITTEN" /\ mode.sink # "stdout" => disk # None /\ Done(disk, mode.cmd)
LastDone ==
  last # None /\ last.wrote /\ (mode = None \/ mode.cmd = last.cmd) =>
    disk # None /\ Done(disk, last.cmd) /\ (read # None => read = disk)

\* The decisions depend on the file, the configuration and the command alone.
LEMMA DecisionsFixed ==
  ASSUME setup' = setup, NEW c, NEW cmd
  PROVE  /\ StripOf(c)' = StripOf(c) /\ ComparisonOf(c, cmd)' = ComparisonOf(c, cmd)
         /\ Permits(c)' = Permits(c) /\ Done(c, cmd)' = Done(c, cmd)
         /\ Rendering' = Rendering /\ Remediates(c)' = Remediates(c)
<1>1. Rendering' = Rendering /\ Remediates(c)' = Remediates(c) /\ policy' = policy
  BY VerdictsFixed DEF Rendering, Selected, Remediates
<1> QED BY <1>1 DEF StripOf, ComparisonOf, Permits, Done, HeaderOf, BadHeader

\* The first block of a file and what the scanner calls it.
LEMMA HeaderNames ==
  ASSUME NEW c \in FileContent
  PROVE  /\ TopHeader(c) \in HeaderKinds \cup {"missing"}
         /\ TopHeader(c) = "missing" <=> c.headers = <<>>
         /\ HeaderOf(c) = "MISSING" <=> TopHeader(c) = "missing"
         /\ BadHeader(c) <=> HeaderOf(c) \in {"MALFORMED_ALL_FIELDS", "MALFORMED_SOME_FIELDS"}
         /\ HeaderOf(c) = "MALFORMED" <=> TopHeader(c) = "malformed"
         /\ HeaderOf(c) \in HeaderStatus \ {"PENDING"}
<1>1. c.headers # <<>> => c.headers[1] \in HeaderKinds
  <2>1. ASSUME NEW h \in Seq(HeaderKinds), h # <<>>
        PROVE  h[1] \in HeaderKinds
    <3>1. Len(h) \in Nat \ {0}
      BY <2>1, EmptySeq
    <3>2. 1 \in 1..Len(h)
      BY <3>1
    <3> QED BY <3>2, ElementOfSeq
  <2> QED BY <2>1 DEF FileContent
<1>2. /\ TopHeader(c) \in HeaderKinds \cup {"missing"}
      /\ TopHeader(c) = "missing" <=> c.headers = <<>>
  BY <1>1 DEF TopHeader, HeaderKinds
<1> QED BY <1>2 DEF HeaderOf, BadHeader, HeaderKinds, HeaderStatus

\* What the context says of a file that was read is what the file says.
LEMMA ReadRightly ==
  ASSUME QuietBase, st.content = "OK"
  PROVE  /\ read \in FileContent
         /\ ShouldRemoveBom(st, policy, facts) <=> Remediates(read)
         /\ st.header # "PENDING" => st.header = HeaderOf(read)
         /\ st.write = "PENDING" => disk = read
<1>1. read \in FileContent
  BY DEF QuietBase, TextBase, TextInv, ContextIsOfRead, Base, IInv, TypeOK
<1>2. ShouldRemoveBom(st, policy, facts) <=> Remediates(read)
  BY DEF ShouldRemoveBom, Remediates, FsOf, BomFirst, QuietBase, QuietInv, LookedRight
<1> QED BY <1>1, <1>2, NoneAssumption DEF QuietBase, QuietInv, ScannedRight, ReadDisk

\* A step that decides nothing of this.
LeavesDecisions ==
  /\ mode' = mode /\ setup' = setup /\ read' = read
  /\ st'.content = st.content /\ st'.generation = st.generation /\ st'.strip = st.strip
  /\ st'.comparison = st.comparison /\ st'.plan = st.plan
  /\ ToSet(todo') \subseteq ToSet(todo)
  /\ halt' = None => halt = None
  /\ views'.edit \in {views.edit, None}
  /\ Needed("edit")' => Needed("edit") /\ views'.edit = views.edit

\* Such a step keeps the decisions right.
LEMMA LeavingDecisionsKeeps ==
  ASSUME DecidedRight, LeavesDecisions
  PROVE  DecidedRight'
BY DecisionsFixed DEF DecidedRight, LeavesDecisions

\* The builder does not miss the file, undisturbed.
LEMMA NeverRaises ==
  ASSUME QuietBase
  PROVE  ~BuilderRaises
<1> SUFFICES ASSUME BuilderRaises PROVE FALSE
  OBVIOUS
<1>1. mode # None /\ todo # <<>> /\ st.content = "OK" /\ disk = None
  BY DEF BuilderRaises, Running, MayProceed, Gate
<1>2. st.write = "PENDING"
  BY <1>1 DEF QuietBase, TextBase, Base, ReportInv
<1> QED BY <1>1, <1>2, ReadRightly, NoneAssumption

\* Resolving, sniffing, scanning, rendering and writing are like that.
LEMMA StepsLeavingDecisions ==
  ASSUME ~Races, QuietBase,
         \/ Pass \/ Resolver \/ Prober \/ Sniffer \/ Scanner \/ BuilderRaises \/ Renderer \/ Writer
         \/ ExternalEdit \/ ExternalChmod \/ UNCHANGED vars
  PROVE  LeavesDecisions
<1> USE DEF QuietBase, TextBase, Base
<1>1. CASE Pass
  BY <1>1, PassEffect DEF LeavesDecisions, WentOn, ViewsLeft
<1>2. CASE Resolver \/ Prober
  BY <1>2, ResolveEffect DEF LeavesDecisions, WentOn, ViewsLeft, OthersKept
<1>3. CASE Sniffer
  BY <1>3, SnifferEffect DEF LeavesDecisions, WentOn, ViewsLeft, OthersKept
<1>4. CASE Scanner
  BY <1>4, ScannerEffect DEF LeavesDecisions, WentOn, ViewsLeft, OthersKept
<1>5. CASE BuilderRaises
  BY <1>5, NeverRaises
<1>6. CASE Renderer
  BY <1>6, RendererEffect DEF LeavesDecisions, WentOn, ViewsLeft, OthersKept
<1>7. CASE Writer
  BY <1>7, WriterEffect DEF LeavesDecisions, WentOn, ViewsLeft, OthersKept
<1>8. CASE ExternalEdit \/ ExternalChmod
  BY <1>8 DEF ExternalEdit, ExternalChmod
<1>9. CASE UNCHANGED vars
  BY <1>9 DEF vars, run, LeavesDecisions, Needed
<1> QED BY <1>1, <1>2, <1>3, <1>4, <1>5, <1>6, <1>7, <1>8, <1>9

\* While the file has not been read nothing is decided, and between runs nothing is either.
LEMMA DecisionsBegin ==
  ASSUME QuietBase, DecidedRight,
         \/ ReaderRefuses \/ ReaderFails \/ ReaderFindsEmpty \/ ReaderLoads \/ StartRun \/ EndRun
  PROVE  DecidedRight'
<1> USE DEF QuietBase, TextBase, Base
<1>1. CASE StartRun
  <2>1. st' = AllPending /\ views' = NoViews
    BY <1>1 DEF StartRun, IInv, FreshBetweenRuns
  <2> QED BY <2>1 DEF DecidedRight, AllPending, NoViews
<1>2. CASE EndRun
  <2>1. st' = AllPending /\ views' = NoViews
    BY <1>2 DEF EndRun
  <2> QED BY <2>1 DEF DecidedRight, AllPending, NoViews
<1>3. CASE ReaderRefuses \/ ReaderFails \/ ReaderFindsEmpty \/ ReaderLoads
  <2>1. /\ mode # None /\ todo # <<>> /\ todo[1] = "reader" /\ st.content = "PENDING"
        /\ OthersKept({"fs", "content"}) /\ mode' = mode /\ ToSet(todo') \subseteq ToSet(todo)
        /\ views'.edit \in {views.edit, None}
    BY <1>3, NotReadingEffect, EmptyEffect, LoadEffect DEF WentOn, ViewsLeft, OthersKept
  <2>2. /\ st.strip = "PENDING" /\ st.comparison = "PENDING" /\ st.plan = "PENDING"
        /\ st.generation = "PENDING"
    BY <2>1, NothingPlannedYet
  <2>3. mode.cmd # "probe"
    <3>1. "reader" \in PipelineSteps(mode)
      BY <2>1, StepAtHand
    <3> QED BY <3>1 DEF PipelineSteps
  <2> QED BY <2>1, <2>2, <2>3 DEF DecidedRight, OthersKept
<1> QED BY <1>1, <1>2, <1>3

\* The builder, the stripper and the comparer decide as the file demands.
LEMMA DecidingRightly ==
  ASSUME QuietBase, DecidedRight, Builder \/ Stripper \/ Comparer
  PROVE  DecidedRight'
<1> USE DEF QuietBase, TextBase, Base
<1>1. CASE Builder
  <2>1. /\ OthersKept({"generation"}) /\ WentOn(st'.generation = "SKIPPED") /\ read' = read
        /\ views'.edit \in {views.edit, None}
        /\ Needed("edit")' => Needed("edit") /\ views'.edit = views.edit
    BY <1>1, BuilderEffect DEF ViewsLeft
  <2> QED BY <2>1, DecisionsFixed DEF DecidedRight, OthersKept, WentOn
<1>2. CASE Stripper
  <2>1. /\ OthersKept({"strip"}) /\ WentOn(st'.strip = "FAILED") /\ read' = read
        /\ st.content = "OK" /\ mode.cmd = "strip" /\ st.strip = "PENDING"
        /\ st.header \notin {"PENDING", "MALFORMED"} /\ st'.strip = StripVerdict
        /\ IF st'.strip = "READY"
           THEN views'.edit \in {"single", None} /\ (Needed("edit")' => views'.edit = "single")
           ELSE views'.edit \in {views.edit, None}
    BY <1>2, StripperEffect DEF ViewsLeft
  <2>2. st.plan = "PENDING"
    BY <2>1 DEF IInv, DecidedFromBelow
  <2>3. StripVerdict = StripOf(read)
    <3>1. st.header = HeaderOf(read)
      BY <2>1, ReadRightly
    <3> QED BY <2>1, <3>1, ReadRightly, HeaderNames
            DEF StripVerdict, StripOf, Found, HeaderStatus
  <2> QED BY <2>1, <2>2, <2>3, DecisionsFixed DEF DecidedRight, OthersKept, WentOn
<1>3. CASE Comparer
  <2>1. /\ todo[1] = "comparer" /\ halt = None /\ OthersKept({"comparison"})
        /\ st.comparison = "PENDING" /\ (st.render = "RENDERED" \/ views.updated # None)
        /\ Needed("render") /\ Needed("header") /\ Needed("edit") /\ Needed("updated")
        /\ WentOn(st'.comparison = "SKIPPED") /\ ViewsLeft(views) /\ read' = read
    BY <1>3, ComparerEffect
  <2>2. "comparer" \in ToSet(todo) /\ st.plan = "PENDING"
    BY <2>1, StepAtHand DEF WentOn, DecidedRight
  <2>3. st.content = "OK" /\ st.header # "PENDING"
    BY <2>1, <2>2 DEF IInv, DecidedFromBelow
  <2>4. /\ read \in FileContent /\ st.header = HeaderOf(read)
        /\ ShouldRemoveBom(st, policy, facts) <=> Remediates(read)
    BY <2>3, ReadRightly
  <2>5. st'.comparison = ComparisonOf(read, mode.cmd)
    <3>1. CASE st.strip = "READY"
      <4>1. views.edit = "single" /\ mode.cmd = "strip"
        BY <2>1, <3>1 DEF DecidedRight, IInv, DecidedFromBelow
      <4>2. ~BadHeader(read)
        BY <2>4, <3>1, HeaderNames DEF DecidedRight, StripOf
      <4>3. st.header \notin {"MALFORMED_ALL_FIELDS", "MALFORMED_SOME_FIELDS"}
        BY <2>4, <4>2, HeaderNames
      <4> QED BY <1>3, <4>1, <4>2, <4>3, ComparerEffect DEF ComparisonOf
    <3>2. CASE st.strip # "READY"
      <4>1. views.updated = None /\ views.edit # "single" /\ st.render = "RENDERED"
        BY <2>1, <2>2, <3>2, NoneAssumption DEF DecidedRight, IInv, DecidedFromBelow
      <4>2. mode.cmd = "check" /\ views.render = Rendering
        BY <2>1, <4>1 DEF RenderedAsConfigured, IInv, DecidedFromBelow
      <4>3. views.header = IF TopHeader(read) = "missing" THEN None ELSE TopHeader(read)
        BY <2>1, <2>3 DEF QuietInv, ScannedRight
      <4>4. ExistingHeader = TopHeader(read)
        BY <2>4, <4>3, HeaderNames, NoneAssumption DEF ExistingHeader
      <4>5. BadHeader(read) <=> st.header \in {"MALFORMED_ALL_FIELDS", "MALFORMED_SOME_FIELDS"}
        BY <2>4, HeaderNames
      <4> QED BY <1>3, <2>4, <4>1, <4>2, <4>4, <4>5, ComparerEffect DEF ComparisonOf
    <3> QED BY <3>1, <3>2
  <2> QED BY <2>1, <2>2, <2>5, DecisionsFixed DEF DecidedRight, OthersKept, WentOn, ViewsLeft
<1> QED BY <1>1, <1>2, <1>3

\* A header put in the place of the first one changes the headers, if it is another one.
LEMMA HeadersChange ==
  ASSUME NEW h \in Seq(HeaderKinds), NEW kind,
         Prepend(kind, IF h = <<>> THEN h ELSE Tail(h)) = h
  PROVE  kind = IF h = <<>> THEN "missing" ELSE h[1]
<1>1. CASE h = <<>>
  <2>1. (<<kind>> \o <<>>) # <<>>
    OBVIOUS
  <2> QED BY <1>1, <2>1 DEF Prepend
<1>2. CASE h # <<>>
  <2>1. /\ Tail(h) \in Seq(HeaderKinds) /\ Len(h) \in Nat \ {0} /\ Len(Tail(h)) = Len(h) - 1
    BY <1>2, HeadTailProperties, EmptySeq
  <2>2. Tail(h) # h
    <3>1. \A n \in Nat \ {0} : n - 1 # n
      OBVIOUS
    <3>2. Len(Tail(h)) # Len(h)
      BY <2>1, <3>1
    <3> QED BY <3>2
  <2>3. (<<kind>> \o Tail(h))[1] = kind
    BY <2>1
  <2> QED BY <1>2, <2>2, <2>3 DEF Prepend
<1> QED BY <1>1, <1>2

\* Where the comparer found a change the planner finds a text to write.
LEMMA ChangeIsPlanned ==
  ASSUME QuietBase, DecidedRight, PlanReplace \/ PlanInsert
  PROVE  NewText # SourceText
<1> USE DEF QuietBase, TextBase, Base
<1>1. /\ st.comparison = "CHANGED" /\ st.render = "RENDERED" /\ mode.cmd = "check"
      /\ views.image \in FileContent
  BY PlannerEffect, PlanUpdateEffect
<1>2. st.content = "OK"
  BY <1>1 DEF IInv, DecidedFromBelow
<1>3. /\ read \in FileContent /\ (ShouldRemoveBom(st, policy, facts) <=> Remediates(read))
      /\ views.image = TextOf(read)
  BY <1>1, <1>2, ReadRightly, NoneAssumption DEF TextInv, ContextIsOfRead
<1>4. SourceText.bom = ShouldRemoveBom(st, policy, facts) /\ SourceText.headers = read.headers
  <2>1. views.image.headers = read.headers
    BY <1>3, TextOfContent
  <2> QED BY <1>1, <2>1 DEF SourceText, FileContent
<1>5. /\ NewText.headers = Prepend(Rendering, OtherHeaders(read))
      /\ NewText.bom => KeptBom \/ (facts.bom /\ ~facts.shebang)
  BY NewTextIsRight
<1>6. TopHeader(read) # Rendering \/ Remediates(read)
  BY <1>1 DEF DecidedRight, ComparisonOf
<1>7. CASE Remediates(read)
  <2>1. SourceText.bom /\ ~NewText.bom
    BY <1>3, <1>4, <1>5, <1>7 DEF KeptBom, ShouldRemoveBom
  <2> QED BY <2>1
<1>8. CASE TopHeader(read) # Rendering
  <2>1. OtherHeaders(read) = IF read.headers = <<>> THEN read.headers ELSE Tail(read.headers)
    BY <1>3, HeaderNames DEF OtherHeaders
  <2>2. read.headers \in Seq(HeaderKinds)
    BY <1>3 DEF FileContent
  <2>3. NewText.headers # read.headers
    BY <1>5, <1>8, <2>1, <2>2, HeadersChange DEF TopHeader
  <2> QED BY <1>4, <2>3
<1> QED BY <1>6, <1>7, <1>8

\* The planner leaves the decisions as they were, and records an edit where there is one.
LEMMA PlanningRightly ==
  ASSUME QuietBase, DecidedRight,
         PlanStrip \/ PlanUnchanged \/ PlanRefused \/ PlanReplace \/ PlanInsert \/ PlanNoAnchor
  PROVE  DecidedRight'
<1> USE DEF QuietBase, TextBase, Base
<1>1. /\ mode # None /\ todo # <<>> /\ todo[1] = "planner" /\ halt = None /\ OthersKept({"plan"})
      /\ read' = read /\ Needed("edit")
  BY PlannerEffect DEF PlanStrip, PlanUnchanged, PlanRefused, PlanReplace, PlanInsert,
     PlanNoAnchor, Updating, Running
<1>2. "comparer" \notin ToSet(Tail(todo))
  <2>1. \A step \in ToSet(Tail(todo)) : 9 < Rank(step)
    BY <1>1, TakeFirst DEF IInv, TypeOK, TodoOfPipeline, Rank
  <2>2. Rank("comparer") = 8
    BY DEF Rank
  <2> QED BY <2>1, <2>2
<1>3. ASSUME NEW plan, NEW stop, NEW updated, NEW edit, PlanLeaves(plan, stop, updated, edit),
             plan # "PENDING",
             ~stop => (st.strip = "READY" \/ st.comparison = "CHANGED" => edit = "single")
      PROVE  DecidedRight'
  <2>1. /\ st'.plan = plan /\ WentOn(stop)
        /\ views'.edit \in {edit, None} /\ (Needed("edit")' => views'.edit = edit)
    BY <1>3 DEF PlanLeaves, ViewsLeft
  <2>2. mode' = mode /\ setup' = setup /\ todo' = Tail(todo) /\ (stop => halt' # None)
    BY <2>1 DEF WentOn
  <2> QED BY <1>1, <1>2, <1>3, <2>1, <2>2, DecisionsFixed DEF DecidedRight, OthersKept
<1>4. CASE PlanStrip
  <2>1. views.edit = "single" /\ PlanKind("REMOVED") # "PENDING"
    BY <1>1, <1>4, PlanStripEffect DEF DecidedRight, PlanKind
  <2> QED BY <1>3, <1>4, <2>1, PlanStripEffect
<1>5. CASE PlanUnchanged
  BY <1>3, <1>5, PlanUnchangedEffect DEF PlanSkips
<1>6. CASE PlanRefused \/ PlanNoAnchor
  BY <1>3, <1>6, PlanGivenUpEffect DEF PlanSkips
<1>7. CASE PlanReplace \/ PlanInsert
  <2>1. PlanLeaves(PlanKind(NewPlan), FALSE, NewText, "single")
    BY <1>7, PlanUpdateEffect, ChangeIsPlanned
  <2>2. PlanKind(NewPlan) # "PENDING"
    BY DEF PlanKind, NewPlan
  <2> QED BY <1>3, <2>1, <2>2
<1> QED BY <1>4, <1>5, <1>6, <1>7

\* The patcher finds nothing it would have to take back.
LEMMA PatchingRightly ==
  ASSUME QuietBase, DecidedRight, Patcher
  PROVE  DecidedRight' /\ st'.comparison = st.comparison
<1> USE DEF QuietBase, TextBase, Base
<1>1. /\ mode # None /\ todo # <<>> /\ todo[1] = "patcher" /\ halt = None
      /\ OthersKept({"comparison"}) /\ st.comparison \in {"CHANGED", "UNCHANGED"}
      /\ Needed("edit") /\ WentOn(FALSE) /\ ViewsLeft(views) /\ read' = read
      /\ st'.comparison =
           IF st.comparison = "UNCHANGED" \/ (views.edit = None /\ views.updated = SourceText)
           THEN "UNCHANGED" ELSE st.comparison
  BY PatcherEffect DEF WentOn
<1>2. st.plan # "PENDING"
  <2>1. mode \in RunOptions /\ "patcher" \in PipelineSteps(mode)
    BY <1>1, StepAtHand DEF IInv, TypeOK
  <2>2. "planner" \in PipelineSteps(mode)
    BY <2>1 DEF RunOptions, PipelineSteps, CheckSteps, StripSteps, ScanSteps
  <2>3. Rank("planner") < Rank("patcher")
    BY DEF Rank
  <2> QED BY <1>1, <2>2, <2>3, StepAtHand, AxisOfStep
<1>3. st.comparison = "CHANGED" => views.edit = "single"
  BY <1>1, <1>2 DEF DecidedRight
<1>4. st'.comparison = st.comparison
  BY <1>1, <1>3, NoneAssumption
<1>5. LeavesDecisions
  BY <1>1, <1>4 DEF LeavesDecisions, OthersKept, WentOn, ViewsLeft
<1> QED BY <1>4, <1>5, LeavingDecisionsKeeps

\* Every step keeps the decisions right.
LEMMA DecisionsKept ==
  ASSUME ~Races, QuietBase, DecidedRight, [Next]_vars
  PROVE  DecidedRight'
BY StepsLeavingDecisions, LeavingDecisionsKeeps, DecisionsBegin, DecidingRightly, PlanningRightly,
   PatchingRightly DEF Next, Step

\* What has been decided, unless the run was halted, when the last steps have their turn.
LEMMA DecidedBefore ==
  ASSUME IInv, mode # None, todo # <<>>, halt = None
  PROVE  /\ todo[1] \in {"renderer", "stripper", "comparer", "planner", "patcher", "writer"}
              => st.header # "PENDING" /\ mode.cmd # "probe"
         /\ todo[1] = "renderer" => st.generation # "PENDING"
         /\ todo[1] \in {"comparer", "planner", "patcher", "writer"} =>
              /\ mode.cmd = "strip" => st.strip # "PENDING"
              /\ mode.cmd = "check" => st.render # "PENDING"
         /\ todo[1] \in {"planner", "patcher", "writer"} /\ mode.cmd = "check"
              => st.comparison # "PENDING"
<1>1. mode \in RunOptions /\ todo[1] \in PipelineSteps(mode)
  BY StepAtHand DEF IInv, TypeOK
<1>2. /\ todo[1] \in {"renderer", "stripper", "comparer", "planner", "patcher", "writer"}
           => "scanner" \in PipelineSteps(mode) /\ mode.cmd # "probe"
      /\ todo[1] = "renderer" => "builder" \in PipelineSteps(mode)
      /\ todo[1] \in {"comparer", "planner", "patcher", "writer"} =>
           /\ mode.cmd = "strip" => "stripper" \in PipelineSteps(mode)
           /\ mode.cmd = "check" => {"renderer", "comparer"} \subseteq PipelineSteps(mode)
  BY <1>1 DEF RunOptions, PipelineSteps, CheckSteps, StripSteps, ScanSteps
<1>3. /\ Rank("scanner") = 4 /\ Rank("builder") = 5 /\ Rank("renderer") = 6
      /\ Rank("stripper") = 7 /\ Rank("comparer") = 8 /\ Rank("planner") = 9
      /\ Rank("patcher") = 10 /\ Rank("writer") = 11
  BY DEF Rank
<1>4. \A step \in PipelineSteps(mode) :
        Rank(step) < Rank(todo[1]) => PrimaryStatus(step, st) # "PENDING"
  BY StepAtHand
<1> QED BY <1>2, <1>3, <1>4, AxisOfStep

\* A halted run decides nothing any more.
LEMMA HaltedRests ==
  ASSUME QuietBase, Step, halt # None
  PROVE  UNCHANGED <<setup, mode, st, halt, read>>
<1> USE DEF QuietBase, TextBase, Base
<1>1. todo # <<>> => todo[1] \notin {"resolver", "prober"}
  BY StepAtHand DEF IInv, TodoOfPipeline, FreshBetweenRuns
<1>2. ASSUME NEW step
      PROVE  ~Running(step)
  BY <1>1 DEF Running, MayProceed
<1>3. Pass
  BY <1>2 DEF Step, Resolver, Prober, Sniffer, ReaderRefuses, ReaderFails, ReaderFindsEmpty,
     ReaderLoads, Scanner, Builder, BuilderRaises, Renderer, Comparer, Stripper, PlanStrip,
     PlanUnchanged, PlanRefused, PlanReplace, PlanInsert, PlanNoAnchor, Updating, Patcher, Writer
<1> QED BY <1>3, PassEffect DEF WentOn

\* A step that halts a run that has read the file says why, or has decided.
LEMMA HaltingRightly ==
  ASSUME ~Races, QuietBase, QuietInv', DecidedRight, Step, halt = None
  PROVE  HaltedRight'
<1> USE DEF QuietBase, TextBase, Base
<1> SUFFICES ASSUME st'.content = "OK", halt' # None
             PROVE  /\ st'.header # "PENDING"
                    /\ mode'.cmd = "strip" /\ st'.strip = "PENDING"
                         => st'.header = "MALFORMED" \/ ~Permits(read)'
                    /\ mode'.cmd = "check" /\ st'.comparison = "PENDING" =>
                         \/ st'.header = "MALFORMED" \/ ~Permits(read)'
                         \/ st'.render \in {"SKIPPED", "FAILED"}
  BY DEF HaltedRight
<1>1. CASE Pass
  <2>1. /\ mode # None /\ todo # <<>> /\ st' = st /\ mode' = mode /\ ~MayProceed(todo[1])
        /\ todo[1] \in Steps
    BY <1>1, PassEffect, StepAtHand DEF WentOn
  <2>2. todo[1] \notin {"resolver", "prober", "reader", "scanner", "builder", "stripper"}
    BY <2>1 DEF MayProceed, Gate
  <2>3. todo[1] # "sniffer"
    BY <2>1, StepAtHand, AxisOfStep DEF ReportInv, ReadableFs
  <2>4. todo[1] \in {"renderer", "comparer", "planner", "patcher", "writer"}
    BY <2>1, <2>2, <2>3 DEF Steps
  <2>5. todo[1] # "renderer"
    BY <2>1, DecidedBefore DEF MayProceed, Gate, DecidedRight, IInv, TypeOK, ProcessingStatus,
       GenerationStatus
  <2>6. todo[1] = "comparer" => st.render # "RENDERED"
    BY <2>1 DEF MayProceed, Gate
  <2> QED BY <2>1, <2>4, <2>5, <2>6, DecidedBefore DEF IInv, TypeOK, ProcessingStatus, RenderStatus
<1>2. CASE Resolver \/ Prober
  <2>1. st.resolve = "PENDING" /\ st'.content = st.content
    BY <1>2, ResolveEffect, StepAtHand, AxisOfStep DEF WentOn, OthersKept
  <2> QED BY <2>1 DEF QuietInv, SniffedDisk, ReportInv, ReadableFs
<1>3. CASE Sniffer
  <2>1. st.fs = "PENDING" /\ st'.content = st.content
    BY <1>3, SnifferEffect, StepAtHand, AxisOfStep DEF WentOn, OthersKept
  <2> QED BY <2>1 DEF ReportInv, ReadableFs
<1>4. CASE ReaderRefuses \/ ReaderFails
  BY <1>4, NotReadingEffect
<1>5. CASE ReaderFindsEmpty \/ ReaderLoads
  <2>1. todo[1] = "reader" /\ halt' = None
    BY <1>5, EmptyEffect, LoadEffect, AxisOfStep DEF WentOn
  <2> QED BY <2>1
<1>6. CASE Scanner
  <2>1. /\ todo[1] = "scanner" /\ st'.header = ScannedStatus /\ read' = read /\ setup' = setup
        /\ WentOn(\/ ScannedStatus = "MALFORMED"
                  \/ ScannedStatus \in {"MISSING", "DETECTED", "EMPTY"}
                     /\ ~PermittedByPolicy(st', policy))
    BY <1>6, ScannerEffect DEF WentOn
  <2>2. read' \in FileContent /\ read \in FileContent
    BY <1>6, <2>1, ScannerEffect, ReadRightly
  <2>3. ScannedStatus # "PENDING"
    BY <1>6, <2>1, ScannerEffect, ElementOfSeq, EmptySeq
       DEF ScannedStatus, ScannedHeader, TopHeader, FileContent, HeaderKinds
  <2>4. st'.header = HeaderOf(read)
    BY <2>1, <2>3, VerdictsFixed DEF QuietInv, ScannedRight
  <2>5. ScannedStatus = "MALFORMED" \/ ~PermittedByPolicy(st', policy)
    BY <2>1, <2>3, AxisOfStep DEF WentOn
  <2>6. ~PermittedByPolicy(st', policy) => ~Permits(read)
    BY <2>4 DEF PermittedByPolicy, Permits
  <2> QED BY <2>1, <2>3, <2>5, <2>6, DecisionsFixed
<1>7. CASE Builder
  <2>1. /\ todo[1] = "builder" /\ st.content = "OK" /\ st.header \notin {"PENDING", "MALFORMED"}
        /\ OthersKept({"generation"}) /\ read' = read /\ setup' = setup
        /\ mode.cmd = "check" /\ mode' = mode
        /\ WentOn(st'.generation = "SKIPPED")
        /\ st'.generation = IF ~PermittedByPolicy(st, policy) THEN "SKIPPED"
                            ELSE IF setup.fields = "none" THEN "NO_FIELDS" ELSE "GENERATED"
    BY <1>7, BuilderEffect DEF WentOn
  <2>2. st'.generation = "SKIPPED"
    BY <2>1, AxisOfStep DEF WentOn
  <2>3. ~PermittedByPolicy(st, policy) /\ st.header = HeaderOf(read)
    BY <2>1, <2>2, ReadRightly
  <2>4. ~Permits(read)
    BY <2>3 DEF PermittedByPolicy, Permits
  <2> QED BY <2>1, <2>4, DecisionsFixed DEF OthersKept
<1>8. CASE BuilderRaises
  BY <1>8, NeverRaises
<1>9. CASE Renderer
  <2>1. /\ todo[1] = "renderer" /\ mode.cmd = "check" /\ mode' = mode /\ OthersKept({"render"})
        /\ st'.render = RenderingStatus /\ WentOn(st'.render # "RENDERED")
        /\ mode # None /\ todo # <<>>
    BY <1>9, RendererEffect DEF WentOn
  <2>2. st'.render \in {"SKIPPED", "FAILED"}
    BY <2>1, AxisOfStep DEF WentOn, RenderingStatus
  <2> QED BY <2>1, <2>2, DecidedBefore DEF OthersKept
<1>10. CASE Stripper
  <2>1. /\ st'.strip = StripVerdict /\ OthersKept({"strip"}) /\ mode' = mode
        /\ mode.cmd = "strip" /\ st.header # "PENDING"
    BY <1>10, StripperEffect DEF WentOn
  <2> QED BY <2>1 DEF StripVerdict, OthersKept
<1>11. CASE Comparer
  <2>1. /\ mode # None /\ todo # <<>> /\ todo[1] = "comparer" /\ mode' = mode
        /\ OthersKept({"comparison"}) /\ st'.comparison # "PENDING"
    BY <1>11, ComparerEffect DEF WentOn
  <2> QED BY <2>1, DecidedBefore DEF OthersKept
<1>12. CASE \/ PlanStrip \/ PlanUnchanged \/ PlanRefused \/ PlanReplace \/ PlanInsert
            \/ PlanNoAnchor \/ Patcher \/ Writer
  <2>1. /\ mode # None /\ todo # <<>> /\ todo[1] \in {"planner", "patcher", "writer"}
    BY <1>12 DEF PlanStrip, PlanUnchanged, PlanRefused, PlanReplace, PlanInsert,
       PlanNoAnchor, Updating, Patcher, Writer, Running
  <2>2. /\ mode' = mode /\ st'.header = st.header /\ st'.strip = st.strip
        /\ st'.comparison = st.comparison
    <3>1. mode' = mode
      BY <1>12 DEF PlanStrip, PlanUnchanged, PlanRefused, PlanReplace, PlanInsert, PlanText,
         PlanNoAnchor, Patcher, Writer, Settle
    <3> QED BY <1>12, <3>1, PlannerEffect, PatcherEffect, WriterEffect, PatchingRightly
            DEF OthersKept
  <2> QED BY <2>1, <2>2, DecidedBefore
<1> QED BY <1>1, <1>2, <1>3, <1>4, <1>5, <1>6, <1>7, <1>8, <1>9, <1>10, <1>11, <1>12 DEF Step

\* Every step keeps it so.
LEMMA HaltsKept ==
  ASSUME ~Races, QuietBase, QuietInv', DecidedRight, HaltedRight, [Next]_vars
  PROVE  HaltedRight'
<1>1. CASE Step /\ halt = None
  BY <1>1, HaltingRightly
<1>2. CASE Step /\ halt # None
  BY <1>2, HaltedRests, DecisionsFixed DEF HaltedRight
<1>3. CASE StartRun \/ EndRun
  <2>1. halt' = None
    BY <1>3 DEF StartRun, EndRun, QuietBase, TextBase, Base, IInv, FreshBetweenRuns
  <2> QED BY <2>1 DEF HaltedRight
<1>4. CASE ExternalEdit \/ ExternalChmod \/ UNCHANGED vars
  BY <1>4, DecisionsFixed DEF ExternalEdit, ExternalChmod, vars, run, HaltedRight
<1> QED BY <1>1, <1>2, <1>3, <1>4 DEF Next

\* Undisturbed, every decision of a run is the one the file calls for, and a run is halted
\* for nothing else than what the file or the configuration is.
THEOREM Decisions ==
  ASSUME ~Races
  PROVE  Spec => [](QuietBase /\ UpdatedRight /\ DecidedRight /\ HaltedRight)
<1>1. Init => DecidedRight /\ HaltedRight
  BY DEF Init, DecidedRight, HaltedRight, AllPending, NoViews
<1>2. QuietBase /\ DecidedRight /\ [Next]_vars => DecidedRight'
  BY DecisionsKept
<1>3. QuietBase /\ QuietBase' /\ DecidedRight /\ HaltedRight /\ [Next]_vars => HaltedRight'
  BY HaltsKept DEF QuietBase
<1> QED BY <1>1, <1>2, <1>3, Updates, PTL DEF Spec

\* Of all steps only the writer writes.
LEMMA OthersWriteNothing ==
  ASSUME QuietBase, Step, ~Writer
  PROVE  st'.write = st.write /\ UNCHANGED <<setup, disk, mode, last>>
<1> USE DEF QuietBase, TextBase, Base
<1>1. UNCHANGED <<setup, mode, last>>
  BY DEF Step, Pass, Resolver, Prober, Sniffer, ReaderRefuses, ReaderFails, ReaderFindsEmpty,
     ReaderLoads, Scanner, Builder, BuilderRaises, Renderer, Comparer, Stripper, PlanStrip,
     PlanUnchanged, PlanRefused, PlanReplace, PlanInsert, PlanText, PlanNoAnchor, Patcher, Settle
<1>2. CASE \/ Pass \/ Resolver \/ Prober \/ Sniffer \/ ReaderRefuses \/ ReaderFails
           \/ ReaderFindsEmpty \/ ReaderLoads \/ Scanner \/ Builder
  BY <1>1, <1>2, PassEffect, ResolveEffect, SnifferEffect, NotReadingEffect, EmptyEffect,
     LoadEffect, ScannerEffect, BuilderEffect DEF OthersKept
<1>3. CASE \/ Renderer \/ Comparer \/ Stripper \/ PlanStrip \/ PlanUnchanged \/ PlanRefused
           \/ PlanReplace \/ PlanInsert \/ PlanNoAnchor \/ Patcher
  BY <1>1, <1>3, RendererEffect, ComparerEffect, StripperEffect, PlannerEffect, PatcherEffect
     DEF OthersKept
<1>4. CASE BuilderRaises
  BY <1>4, NeverRaises
<1> QED BY <1>2, <1>3, <1>4 DEF Step

\* A header put in front of no other is the first.
LEMMA OnlyHeader ==
  ASSUME NEW kind, NEW new, new = Prepend(kind, <<>>)
  PROVE  (IF new = <<>> THEN "missing" ELSE new[1]) = kind
<1>1. (<<kind>> \o <<>>) # <<>> /\ (<<kind>> \o <<>>)[1] = kind
  OBVIOUS
<1> QED BY <1>1 DEF Prepend

\* What the writer writes leaves the command nothing to do.
LEMMA WritingIsDone ==
  ASSUME QuietBase, UpdatedRight, OneHeaderInv, DecidedRight, Writer,
         st'.write = "WRITTEN", mode.sink # "stdout"
  PROVE  disk' # None /\ Done(disk', mode.cmd)
<1> USE DEF QuietBase, TextBase, Base
<1>1. /\ views.updated \in FileContent /\ views.updated # None /\ disk' = views.updated
      /\ st.plan \in ConcretePlans
  BY WriterEffect, NoneAssumption DEF Left, Running, MayProceed, Gate
<1>2. st.content = "OK" /\ st.header # "PENDING"
  BY <1>1 DEF IInv, DecidedFromBelow, ConcretePlans
<1>3. /\ read \in FileContent /\ st.header = HeaderOf(read) /\ read.headers \in Seq(HeaderKinds)
      /\ Len(read.headers) <= 1
  <2>1. read \in FileContent /\ st.header = HeaderOf(read)
    BY <1>2, ReadRightly
  <2> QED BY <2>1, NoneAssumption DEF OneHeaderInv, FileContent
<1>4. ~Remediates(views.updated)
  BY <1>1 DEF UpdatedRight
<1>5. CASE st.plan = "REMOVED"
  <2>1. st.strip = "READY" /\ mode.cmd = "strip"
    BY <1>5 DEF IInv, PlanRestsOnDecisions, DecidedFromBelow
  <2>2. views.updated.headers = IF Found THEN Tail(read.headers) ELSE read.headers
    BY <1>1, <2>1 DEF UpdatedRight
  <2>3. st.strip = StripOf(read)
    BY <2>1 DEF DecidedRight
  <2>4. Found \/ read.headers = <<>>
    BY <1>3, <2>1, <2>3, HeaderNames DEF StripOf, Found
  <2>5. Found => read.headers # <<>>
    BY <1>3, HeaderNames DEF Found
  <2>6. views.updated.headers = <<>>
    BY <1>3, <2>2, <2>4, <2>5, TailOfOne
  <2> QED BY <1>1, <1>4, <2>1, <2>6 DEF Done
<1>6. CASE st.plan \in {"INSERTED", "REPLACED"}
  <2>1. mode.cmd = "check" /\ views.updated.headers = Prepend(Rendering, OtherHeaders(read))
    BY <1>1, <1>6 DEF IInv, PlanRestsOnDecisions, UpdatedRight
  <2>2. OtherHeaders(read) = <<>>
    BY <1>3, HeaderNames, TailOfOne DEF OtherHeaders
  <2>3. views.updated.headers = Prepend(Rendering, <<>>)
    BY <2>1, <2>2
  <2>4. TopHeader(views.updated) = Rendering
    BY <2>3, OnlyHeader DEF TopHeader
  <2> QED BY <1>1, <1>4, <2>1, <2>4 DEF Done
<1> QED BY <1>1, <1>5, <1>6 DEF ConcretePlans

\* Where a command has nothing to do its writer has nothing to write.
LEMMA DoneStays ==
  ASSUME QuietBase, DecidedRight, Writer, Done(read, mode.cmd)
  PROVE  disk' = disk
<1> SUFFICES ASSUME disk' # disk PROVE FALSE
  OBVIOUS
<1> USE DEF QuietBase, TextBase, Base
<1>1. st.strip = "READY" \/ st.plan \in {"INSERTED", "REPLACED"}
  BY LeftAtPath
<1>2. st.content = "OK" /\ st.header # "PENDING"
  BY <1>1 DEF IInv, DecidedFromBelow
<1>3. read \in FileContent
  BY <1>2, ReadRightly
<1>4. CASE st.strip = "READY"
  <2>1. mode.cmd = "strip" /\ StripOf(read) = "READY"
    BY <1>4 DEF IInv, DecidedFromBelow, DecidedRight
  <2> QED BY <1>3, <2>1, HeaderNames DEF Done, StripOf
<1>5. CASE st.plan \in {"INSERTED", "REPLACED"}
  <2>1. mode.cmd = "check" /\ ComparisonOf(read, mode.cmd) = "CHANGED"
    BY <1>5 DEF IInv, PlanRestsOnDecisions, DecidedRight
  <2> QED BY <2>1 DEF Done, ComparisonOf
<1> QED BY <1>1, <1>4, <1>5

\* Every step keeps it so that nothing is left to do after a write.
LEMMA DoneKept ==
  ASSUME ~Races, QuietBase, UpdatedRight, OneHeaderInv, DecidedRight, WriteDone, LastDone,
         [Next]_vars
  PROVE  WriteDone' /\ LastDone'
<1> USE DEF QuietBase, TextBase, Base
<1>1. CASE Step /\ ~Writer
  <2>1. st'.write = st.write /\ UNCHANGED <<setup, disk, mode, last>>
    BY <1>1, OthersWriteNothing
  <2>2. read' = read \/ read' = disk
    BY <1>1 DEF Step, Pass, Resolver, Prober, Sniffer, ReaderRefuses, ReaderFails, ReaderFindsEmpty,
       ReaderLoads, Scanner, Builder, BuilderRaises, Renderer, Comparer, Stripper, PlanStrip,
       PlanUnchanged, PlanRefused, PlanReplace, PlanInsert, PlanText, PlanNoAnchor, Patcher
  <2> QED BY <2>1, <2>2, DecisionsFixed DEF WriteDone, LastDone
<1>2. CASE Writer
  <2>1. /\ setup' = setup /\ mode' = mode /\ last' = last /\ read' = read /\ mode # None
    BY <1>2, WriterEffect DEF WentOn
  <2>2. read # None
    <3>1. views.updated # None
      BY <1>2, WriterEffect, NoneAssumption
    <3> QED BY <3>1 DEF TextInv, UpdateKeepsText
  <2>3. WriteDone'
    BY <1>2, <2>1, WritingIsDone, DecisionsFixed DEF WriteDone
  <2>4. LastDone'
    <3> SUFFICES ASSUME last # None, last.wrote, mode.cmd = last.cmd
                 PROVE  disk' # None /\ Done(disk', last.cmd) /\ read = disk'
      BY <2>1, DecisionsFixed DEF LastDone
    <3>1. disk # None /\ Done(disk, last.cmd) /\ read = disk
      BY <2>2 DEF LastDone
    <3> QED BY <1>2, <3>1, DoneStays
  <2> QED BY <2>3, <2>4
<1>3. CASE StartRun
  <2>1. mode = None /\ UNCHANGED <<setup, disk, st, read, last>> /\ st = AllPending
    BY <1>3 DEF StartRun, IInv, FreshBetweenRuns
  <2> QED BY <2>1, DecisionsFixed DEF WriteDone, LastDone, AllPending
<1>4. CASE EndRun
  <2>1. /\ st' = AllPending /\ mode' = None /\ read' = None /\ UNCHANGED <<setup, disk>>
        /\ last' = IF halt = "exception" THEN None
                   ELSE [cmd |-> mode.cmd, apply |-> mode.apply, outcome |-> Outcome,
                         wrote |-> st.write = "WRITTEN" /\ mode.sink # "stdout"]
    BY <1>4 DEF EndRun
  <2>2. last' # None => last'.cmd = mode.cmd
                        /\ (last'.wrote <=> st.write = "WRITTEN" /\ mode.sink # "stdout")
    BY <2>1
  <2> QED BY <2>1, <2>2, DecisionsFixed DEF WriteDone, LastDone, AllPending
<1>5. CASE ExternalEdit \/ ExternalChmod
  BY <1>5 DEF ExternalEdit, ExternalChmod
<1>6. CASE UNCHANGED vars
  BY <1>6, DecisionsFixed DEF vars, run, WriteDone, LastDone
<1> QED BY <1>1, <1>2, <1>3, <1>4, <1>5, <1>6 DEF Next

\* What a finished run that was not halted has decided.
LEMMA FinishedUnhalted ==
  ASSUME IInv, Finished, halt = None
  PROVE  /\ mode.cmd = "strip" => st.header # "PENDING" /\ st.strip # "PENDING"
         /\ mode.cmd = "check" => st.header # "PENDING" /\ st.comparison # "PENDING"
                                  /\ st.render # "PENDING"
         /\ mode.cmd # "probe" /\ mode.apply => st.plan # "PENDING" /\ st.write # "PENDING"
<1>1. mode # None /\ mode \in RunOptions /\ ToSet(todo) = {}
  BY DEF Finished, IInv, TypeOK, ToSet
<1>2. ToSet(Pipeline) = PipelineSteps(mode)
  BY <1>1, PipelineShape DEF Shaped, Pipeline
<1>3. \A step \in PipelineSteps(mode) : PrimaryStatus(step, st) # "PENDING"
  BY <1>1, <1>2 DEF IInv, AxesDecidedInOrder
<1>4. /\ mode.cmd = "strip" => {"scanner", "stripper"} \subseteq PipelineSteps(mode)
      /\ mode.cmd = "check" => {"scanner", "comparer", "renderer"} \subseteq PipelineSteps(mode)
      /\ mode.cmd # "probe" /\ mode.apply => {"planner", "writer"} \subseteq PipelineSteps(mode)
  BY <1>1 DEF RunOptions, PipelineSteps, CheckSteps, StripSteps, ScanSteps
<1> QED BY <1>3, <1>4, AxisOfStep

\* A run that has nothing to do reports no change.
LEMMA NothingToReport ==
  ASSUME QuietBase, DecidedRight, HaltedRight, Finished, halt # "exception",
         read # None => Done(read, mode.cmd)
  PROVE  Outcome \notin Changes
<1> USE DEF QuietBase, TextBase, Base, Changes, AppliedOutcomes, WouldOutcomes
<1>1. CASE st.content # "OK"
  BY <1>1 DEF Outcome, MapBucket
<1>2. CASE st.content = "OK"
  <2>1. /\ read \in FileContent /\ Done(read, mode.cmd) /\ mode.cmd # "probe"
    BY <1>2, ReadRightly, NoneAssumption DEF DecidedRight
  <2>2. st.header # "PENDING" /\ mode \in RunOptions
    BY <1>2, <2>1, FinishedUnhalted DEF HaltedRight, Finished, IInv, TypeOK, RunOptions
  <2>3. st.header = HeaderOf(read)
    BY <1>2, <2>2, ReadRightly
  <2>4. st.strip = "PENDING" => (PermittedByPolicy(st, policy) <=> Permits(read))
    BY <2>3 DEF PermittedByPolicy, Permits
  <2>5. ActionIntent(st) = "strip" <=> st.strip # "PENDING"
    BY DEF ActionIntent
  <2>6. CASE mode.cmd = "strip"
    <3>1. HeaderOf(read) = "MISSING" /\ StripOf(read) = "NOT_NEEDED"
      BY <2>1, <2>6, HeaderNames DEF Done, StripOf
    <3>2. CASE st.strip # "PENDING"
      <4>1. StripOutcome(st, mode.apply) = "UNCHANGED"
        BY <3>1, <3>2 DEF DecidedRight, StripOutcome
      <4> QED BY <2>5, <3>2, <4>1 DEF Outcome, MapBucket
    <3>3. CASE st.strip = "PENDING"
      <4>1. ~Permits(read)
        BY <1>2, <2>3, <2>6, <3>1, <3>3, FinishedUnhalted DEF HaltedRight
      <4>2. HeaderOutcome(st, policy, mode.apply) \in {"ERROR", "SKIPPED"}
        BY <2>4, <3>3, <4>1 DEF HeaderOutcome
      <4> QED BY <2>5, <3>3, <4>2 DEF Outcome, MapBucket
    <3> QED BY <3>2, <3>3
  <2>7. CASE mode.cmd = "check"
    <3>1. st.strip = "PENDING" /\ TopHeader(read) = Rendering /\ ~Remediates(read)
      BY <2>1, <2>7 DEF IInv, DecidedFromBelow, Done
    <3>2. Rendering \notin {"nolines", "failed", "badall", "badsome"}
      BY <2>1, <3>1, HeaderNames DEF Rendering, Selected, HeaderKinds
    <3>3. HeaderOutcome(st, policy, mode.apply) \in {"ERROR", "SKIPPED", "UNCHANGED"}
      <4>1. CASE st.comparison # "PENDING"
        <5>1. st.comparison = "UNCHANGED"
          BY <2>7, <3>1, <3>2, <4>1 DEF DecidedRight, ComparisonOf, BadHeader
        <5> QED BY <5>1 DEF HeaderOutcome
      <4>2. CASE st.comparison = "PENDING"
        <5>1. \/ st.header = "MALFORMED" \/ ~Permits(read)
              \/ st.render \in {"SKIPPED", "FAILED"}
          BY <1>2, <2>7, <4>2, FinishedUnhalted DEF HaltedRight
        <5>2. st.render \notin {"SKIPPED", "FAILED"}
          BY <3>2 DEF RenderedAsConfigured, RenderingStatus
        <5> QED BY <2>4, <3>1, <5>1, <5>2 DEF HeaderOutcome
      <4> QED BY <4>1, <4>2
    <3> QED BY <2>5, <3>1, <3>3 DEF Outcome, MapBucket
  <2> QED BY <2>1, <2>2, <2>6, <2>7 DEF RunOptions
<1> QED BY <1>1, <1>2

\* After a write the same command finds nothing more to do, if no file had two TopMark
\* headers to begin with (PlannerStep, ComparerStep, StripperStep, map_bucket), undisturbed.
THEOREM SecondRunIsIdle ==
  ASSUME ~Races, \A c \in Contents : Len(c.headers) <= 1
  PROVE  Spec => []ApplyIsIdempotent
<1>1. Init => OneHeaderInv /\ WriteDone /\ LastDone
  BY DEF Init, OneHeaderInv, AtMostOneHeader, WriteDone, LastDone, AllPending
<1>2. QuietBase /\ UpdatedRight /\ OneHeaderInv /\ [Next]_vars => OneHeaderInv'
  BY OneHeaderKept
<1>3. QuietBase /\ UpdatedRight /\ DecidedRight /\ OneHeaderInv /\ WriteDone /\ LastDone
      /\ [Next]_vars => WriteDone' /\ LastDone'
  BY DoneKept
<1>4. QuietBase /\ DecidedRight /\ HaltedRight /\ LastDone => ApplyIsIdempotent
  <2> SUFFICES ASSUME QuietBase, DecidedRight, HaltedRight, LastDone, ReportsAgain, last.wrote
               PROVE  Outcome \notin Changes
    BY DEF ApplyIsIdempotent
  <2>1. Finished /\ halt # "exception" /\ last # None /\ mode.cmd = last.cmd
    BY DEF ReportsAgain
  <2>2. read # None => Done(read, mode.cmd)
    BY <2>1 DEF LastDone
  <2> QED BY <2>1, <2>2, NothingToReport
<1> QED BY <1>1, <1>2, <1>3, <1>4, Decisions, PTL DEF Spec

------------------------------------------------------------------------------
(***************************************************************************)
(* What a run comes to, undisturbed and when nothing fails, can be told    *)
(* before it starts: the same whether it applies or not.                   *)
(***************************************************************************)

\* The file as the run found it.
Original == IF st.write = "PENDING" THEN disk ELSE read

\* The run gets as far as to look for a header.
Looks(c) == access # "none" /\ Accepts(c)

\* The two kinds of file for which a dry run promises too much.
Odd(c, cmd) ==
  /\ Looks(c)
  /\ \/ cmd # "probe" /\ BadHeader(c)
     \/ cmd = "check" /\ HeaderOf(c) # "MALFORMED" /\ Permits(c) /\ Rendering = "nolines"

\* The command has something to do with the file and may do it.
Foreseen(c, cmd) ==
  /\ Looks(c) /\ (EmptyLike(c) => policy.allowEmpty) /\ Permits(c)
  /\ \/ cmd = "strip" /\ StripOf(c) = "READY"
     \/ /\ cmd = "check" /\ HeaderOf(c) # "MALFORMED" /\ Rendering # "failed"
        /\ ComparisonOf(c, cmd) = "CHANGED"

\* What it then reports.
Named(c, cmd, apply) ==
  IF cmd = "strip" THEN (IF apply THEN "STRIPPED" ELSE "WOULD_STRIP")
  ELSE IF HeaderOf(c) = "MISSING" THEN (IF apply THEN "INSERTED" ELSE "WOULD_INSERT")
  ELSE (IF apply THEN "UPDATED" ELSE "WOULD_UPDATE")

\* A run is halted before it has read the file only by a file that is not accepted, it
\* decides nothing the policy does not permit, and what it writes is written.
GatesRight ==
  /\ st.resolve \notin {"PENDING", "RESOLVED"} => halt # None
  /\ st.content \notin {"PENDING", "OK"} => halt # None
  /\ st.content = "OK" => access # "none"
  /\ st.content # "OK" /\ halt # None /\ mode.cmd # "probe" => ~Looks(disk)
  /\ st.header # "PENDING" /\ ~Permits(read) => halt # None
  /\ st.strip # "PENDING" => Permits(read)
  /\ st.write # "PENDING" => mode.apply /\ st.content = "OK"
  /\ st.write # "FAILED"

\* What a finished run reports is what could be foreseen.
ReportsForeseen ==
  Finished /\ halt # "exception" /\ ~Odd(Original, mode.cmd) =>
    IF Foreseen(Original, mode.cmd) THEN Outcome = Named(Original, mode.cmd, mode.apply)
    ELSE Outcome \notin Changes

\* What the last dry run reported could be foreseen from the file the run at hand found.
LastForeseen ==
  last # None /\ ~last.apply /\ (mode = None \/ mode.cmd = last.cmd)
  /\ ~Odd(Original, last.cmd) =>
    IF Foreseen(Original, last.cmd) THEN last.outcome = Named(Original, last.cmd, FALSE)
    ELSE last.outcome \notin WouldOutcomes

\* What is foreseen depends on the file, the configuration and the rights alone.
LEMMA ForeseenFixed ==
  ASSUME setup' = setup, access' = access, NEW c, NEW cmd, NEW apply
  PROVE  /\ Looks(c)' = Looks(c) /\ Odd(c, cmd)' = Odd(c, cmd)
         /\ Foreseen(c, cmd)' = Foreseen(c, cmd) /\ Named(c, cmd, apply)' = Named(c, cmd, apply)
<1>1. /\ policy' = policy /\ Rendering' = Rendering /\ Permits(c)' = Permits(c)
      /\ StripOf(c)' = StripOf(c) /\ ComparisonOf(c, cmd)' = ComparisonOf(c, cmd)
      /\ HeaderOf(c)' = HeaderOf(c) /\ Looks(c)' = Looks(c)
  BY DecisionsFixed, VerdictsFixed DEF Looks
<1> QED BY <1>1 DEF Odd, Foreseen, Named, EmptyLike, BadHeader

\* Undisturbed, the rights stay what they are.
LEMMA RightsStay ==
  ASSUME ~Races, QuietBase, [Next]_vars
  PROVE  access' = access
<1> USE DEF QuietBase, TextBase, Base
<1>1. CASE \/ Pass \/ Resolver \/ Prober \/ Sniffer \/ ReaderRefuses \/ ReaderFails
           \/ ReaderFindsEmpty \/ ReaderLoads \/ Scanner \/ Builder \/ BuilderRaises
  BY <1>1 DEF Pass, Resolver, Prober, Sniffer, ReaderRefuses, ReaderFails, ReaderFindsEmpty,
     ReaderLoads, Scanner, Builder, BuilderRaises
<1>2. CASE \/ Renderer \/ Comparer \/ Stripper \/ PlanStrip \/ PlanUnchanged \/ PlanRefused
           \/ PlanReplace \/ PlanInsert \/ PlanNoAnchor \/ Patcher \/ Writer
  BY <1>2, PlannerEffect DEF Renderer, Comparer, Stripper, Patcher, Writer
<1>3. CASE StartRun \/ EndRun \/ ExternalEdit \/ ExternalChmod \/ UNCHANGED vars
  BY <1>3 DEF StartRun, EndRun, ExternalEdit, ExternalChmod, vars
<1> QED BY <1>1, <1>2, <1>3 DEF Next, Step

\* What has been decided, unless the run was halted, before the file is read and after.
LEMMA ReadBefore ==
  ASSUME IInv, mode # None, todo # <<>>, halt = None
  PROVE  /\ todo[1] = "sniffer" => st.resolve # "PENDING"
         /\ todo[1] = "reader" => st.fs # "PENDING"
         /\ todo[1] \in {"scanner", "builder", "renderer", "stripper", "comparer", "planner",
                         "patcher", "writer"} => st.content # "PENDING"
         /\ todo[1] = "prober" => mode.cmd = "probe"
         /\ todo[1] = "writer" => mode.apply
<1>1. mode \in RunOptions /\ todo[1] \in PipelineSteps(mode)
  BY StepAtHand DEF IInv, TypeOK
<1>2. /\ todo[1] = "sniffer" => "resolver" \in PipelineSteps(mode)
      /\ todo[1] = "reader" => "sniffer" \in PipelineSteps(mode)
      /\ todo[1] \in {"scanner", "builder", "renderer", "stripper", "comparer", "planner",
                      "patcher", "writer"} => "reader" \in PipelineSteps(mode)
      /\ todo[1] = "prober" => mode.cmd = "probe"
      /\ todo[1] = "writer" => mode.apply
  BY <1>1 DEF RunOptions, PipelineSteps, CheckSteps, StripSteps, ScanSteps
<1>3. /\ Rank("resolver") = 1 /\ Rank("sniffer") = 2 /\ Rank("reader") = 3
      /\ Rank("scanner") = 4 /\ Rank("builder") = 5 /\ Rank("renderer") = 6
      /\ Rank("stripper") = 7 /\ Rank("comparer") = 8 /\ Rank("planner") = 9
      /\ Rank("patcher") = 10 /\ Rank("writer") = 11
  BY DEF Rank
<1>4. \A step \in PipelineSteps(mode) :
        Rank(step) < Rank(todo[1]) => PrimaryStatus(step, st) # "PENDING"
  BY StepAtHand
<1> QED BY <1>2, <1>3, <1>4, AxisOfStep

\* A sniffer that stops at a file, or a reader that refuses it, does not accept it.
LEMMA RefusalsAreRight ==
  ASSUME ~IOMayFail, "r" \notin Accesses, QuietBase, GatesRight,
         Sniffer \/ ReaderRefuses \/ ReaderFails \/ ReaderFindsEmpty \/ ReaderLoads
  PROVE  GatesRight'
<1> USE DEF QuietBase, TextBase, Base
<1>1. /\ mode # None /\ todo # <<>> /\ halt = None /\ st.content = "PENDING"
      /\ UNCHANGED <<setup, mode, disk, access>> /\ todo[1] \in {"sniffer", "reader"}
      /\ st'.resolve = st.resolve /\ st'.write = st.write
      /\ st'.header = "PENDING" /\ st'.strip = "PENDING"
  <2>1. /\ todo[1] \in {"sniffer", "reader"} /\ halt = None /\ OthersKept({"fs", "content"})
        /\ UNCHANGED <<setup, mode, disk, access>> /\ mode # None /\ todo # <<>>
    BY SnifferEffect, NotReadingEffect, EmptyEffect, LoadEffect DEF WentOn, OthersKept
  <2>2. st.content = "PENDING"
    BY <2>1, StepAtHand, AxisOfStep DEF ReportInv, ReadableFs
  <2> QED BY <2>1, <2>2, NothingPlannedYet DEF OthersKept
<1>2. ASSUME st'.content = "OK" => halt' = None /\ access # "none",
             st'.content # "OK" /\ halt' # None => ~Looks(disk),
             st'.content \notin {"PENDING", "OK"} => halt' # None
      PROVE  GatesRight'
  BY <1>1, <1>2, ForeseenFixed DEF GatesRight
<1>3. CASE Sniffer
  <2>1. /\ todo[1] = "sniffer" /\ st'.content = "PENDING" /\ WentOn(st'.fs \notin ReadableFs)
        /\ st'.fs = IF SnifferStat = "open" THEN SniffStream ELSE SnifferStat
    BY <1>1, <1>3, SnifferEffect DEF OthersKept
  <2>2. st'.fs \in ReadableFs => halt' = None
    BY <1>1, <2>1, AxisOfStep DEF WentOn, ReadableFs
  <2>3. access \in {"rw", "none"}
    BY AccessesAssumption DEF IInv, TypeOK
  <2>4. ASSUME st'.fs \notin ReadableFs
        PROVE  ~Looks(disk)
    BY <2>1, <2>3, <2>4 DEF SnifferStat, SniffStream, ReadableFs, Looks, Accepts, BomFirst
  <2> QED BY <1>2, <2>1, <2>2, <2>4
<1>4. CASE ReaderRefuses \/ ReaderFails
  <2>1. /\ todo[1] = "reader" /\ WentOn(TRUE) /\ st'.content # "OK"
        /\ ReaderGate # "OK" \/ disk = None \/ access = "none"
    BY <1>4, NotReadingEffect
  <2>2. st.fs # "PENDING"
    BY <1>1, <2>1, ReadBefore
  <2>3. ReaderGate # "OK" => ~Accepts(disk)
    BY <1>1, <2>2, SetupsAssumption
       DEF QuietInv, SniffedDisk, ReaderGate, AllowMixedLineEndings, Accepts
  <2>4. ~Looks(disk)
    BY <2>1, <2>3 DEF Looks, Accepts
  <2> QED BY <1>2, <2>1, <2>4 DEF WentOn
<1>5. CASE ReaderFindsEmpty
  <2>1. st'.content = "OK" /\ halt' = None /\ access # "none"
    BY <1>1, <1>5, EmptyEffect, AxisOfStep DEF WentOn, ReaderFindsEmpty
  <2> QED BY <1>2, <2>1
<1>6. CASE ReaderLoads
  <2>1. /\ todo[1] = "reader" /\ WentOn(st'.content # "OK") /\ access # "none" /\ Sized(disk)
        /\ st'.content = "OK" <=> ~ReaderRejects(disk) /\ ~ReaderReflows(disk)
    BY <1>6, LoadEffect DEF ReaderLoads
  <2>2. ReaderRejects(disk) \/ ReaderReflows(disk) => ~Accepts(disk)
    BY <2>1 DEF ReaderRejects, ReaderReflows, Accepts, Capability
  <2>3. st'.content = "OK" => halt' = None
    BY <1>1, <2>1, AxisOfStep DEF WentOn
  <2> QED BY <1>2, <2>1, <2>2, <2>3 DEF Looks, WentOn
<1> QED BY <1>3, <1>4, <1>5, <1>6

\* A step that goes on from a file that was read.
LEMMA GoingOnKeepsGates ==
  ASSUME QuietBase, GatesRight, halt = None, st.content = "OK",
         UNCHANGED <<setup, mode, access, read>>, st'.resolve = st.resolve,
         st'.content = st.content,
         st'.header # "PENDING" /\ ~Permits(read) => halt' # None,
         st'.strip # "PENDING" => Permits(read),
         st'.write = st.write \/ (mode.apply /\ st'.write # "FAILED")
  PROVE  GatesRight'
BY DecisionsFixed DEF GatesRight

\* Every step keeps the gates right.
LEMMA GatesKept ==
  ASSUME ~Races, ~IOMayFail, "r" \notin Accesses, QuietBase, QuietInv', DecidedRight,
         GatesRight, [Next]_vars
  PROVE  GatesRight'
<1> USE DEF QuietBase, TextBase, Base
<1>1. access' = access
  BY RightsStay
<1>2. CASE Step /\ halt # None
  <2>1. UNCHANGED <<setup, mode, st, halt, read>>
    BY <1>2, HaltedRests
  <2>2. disk' = disk
    BY <1>2, OthersWriteNothing, WriterEffect
  <2> QED BY <1>1, <2>1, <2>2, ForeseenFixed, DecisionsFixed DEF GatesRight
<1>3. CASE Pass /\ halt = None
  <2>1. /\ mode # None /\ todo # <<>> /\ st' = st /\ ~MayProceed(todo[1]) /\ todo[1] \in Steps
        /\ UNCHANGED <<setup, mode, disk, read>>
    BY <1>3, PassEffect, StepAtHand DEF WentOn
  <2>2. todo[1] \notin {"resolver", "prober", "reader"}
    BY <1>3, <2>1 DEF MayProceed, Gate
  <2>3. todo[1] # "sniffer"
    BY <1>3, <2>1, ReadBefore DEF MayProceed, Gate, GatesRight
  <2>4. st.content = "OK"
    BY <1>3, <2>1, <2>2, <2>3, ReadBefore DEF Steps, GatesRight
  <2>5. st.header # "PENDING" => Permits(read)
    BY <1>3 DEF GatesRight
  <2> QED BY <1>1, <1>3, <2>1, <2>4, <2>5, GoingOnKeepsGates DEF GatesRight
<1>4. CASE (Resolver \/ Prober) /\ halt = None
  <2>1. /\ todo[1] \in {"resolver", "prober"} /\ st'.resolve = ftype.resolve
        /\ OthersKept({"resolve"}) /\ mode # None /\ todo # <<>>
        /\ WentOn(todo[1] = "prober" \/ ftype.resolve # "RESOLVED")
        /\ UNCHANGED <<setup, mode, disk, read>>
    BY <1>4, ResolveEffect DEF WentOn
  <2>2. st.content = "PENDING"
    <3>1. st.resolve = "PENDING"
      BY <2>1, StepAtHand, AxisOfStep
    <3> QED BY <3>1 DEF QuietInv, SniffedDisk, ReportInv, ReadableFs
  <2>3. mode.cmd # "probe" /\ halt' # None => ftype.resolve # "RESOLVED"
    BY <1>4, <2>1, ReadBefore, AxisOfStep DEF WentOn
  <2>4. ftype.resolve # "RESOLVED" => ~Looks(disk)
    BY DEF Looks, Accepts
  <2>5. st'.resolve # "RESOLVED" => halt' # None
    BY <2>1 DEF WentOn
  <2> QED BY <1>1, <1>4, <2>1, <2>2, <2>3, <2>4, <2>5, NothingPlannedYet, ForeseenFixed
          DEF GatesRight, OthersKept
<1>5. CASE Sniffer \/ ReaderRefuses \/ ReaderFails \/ ReaderFindsEmpty \/ ReaderLoads
  BY <1>5, RefusalsAreRight
<1>6. CASE Scanner
  <2>1. /\ halt = None /\ st.content = "OK" /\ st.header = "PENDING" /\ OthersKept({"header"})
        /\ st'.header = ScannedStatus /\ UNCHANGED <<setup, mode, read>>
        /\ WentOn(\/ ScannedStatus = "MALFORMED"
                  \/ ScannedStatus \in {"MISSING", "DETECTED", "EMPTY"}
                     /\ ~PermittedByPolicy(st', policy))
    BY <1>6, ScannerEffect DEF WentOn
  <2>2. st.strip = "PENDING" /\ st'.strip = "PENDING"
    BY <2>1 DEF IInv, DecidedFromBelow, OthersKept
  <2>3. st'.header # "PENDING" => st'.header = HeaderOf(read)
    BY <2>1, VerdictsFixed DEF QuietInv, ScannedRight
  <2>4. st'.header # "PENDING" /\ ~Permits(read) => halt' # None
    BY <2>1, <2>2, <2>3 DEF PermittedByPolicy, Permits, WentOn
  <2> QED BY <1>1, <2>1, <2>2, <2>4, GoingOnKeepsGates DEF OthersKept
<1>7. CASE \/ Builder \/ Renderer \/ Comparer \/ PlanStrip \/ PlanUnchanged \/ PlanRefused
           \/ PlanReplace \/ PlanInsert \/ PlanNoAnchor \/ Patcher
  <2>1. /\ mode # None /\ todo # <<>> /\ halt = None
        /\ todo[1] \in {"builder", "renderer", "comparer", "planner", "patcher"}
        /\ UNCHANGED <<setup, mode, read>>
    <3>1. UNCHANGED <<setup, mode>> /\ mode # None /\ todo # <<>>
      BY <1>7 DEF Builder, Renderer, Comparer, PlanStrip, PlanUnchanged, PlanRefused, PlanReplace,
         PlanInsert, PlanText, PlanNoAnchor, Patcher, Settle, Updating, Running
    <3> QED BY <1>7, <3>1, BuilderEffect, RendererEffect, ComparerEffect, PlannerEffect,
            PatcherEffect
  <2>2. /\ st'.resolve = st.resolve /\ st'.content = st.content /\ st'.header = st.header
        /\ st'.strip = st.strip /\ st'.write = st.write
    BY <1>7, BuilderEffect, RendererEffect, ComparerEffect, PlannerEffect, PatcherEffect
       DEF OthersKept
  <2>3. st.content = "OK"
    BY <2>1, ReadBefore DEF GatesRight
  <2> QED BY <1>1, <2>1, <2>2, <2>3, GoingOnKeepsGates DEF GatesRight
<1>8. CASE BuilderRaises
  BY <1>8, NeverRaises
<1>9. CASE Stripper
  <2>1. /\ halt = None /\ st.content = "OK" /\ st.header # "PENDING" /\ OthersKept({"strip"})
        /\ UNCHANGED <<setup, mode, read>>
    BY <1>9, StripperEffect DEF WentOn
  <2>2. Permits(read)
    BY <2>1 DEF GatesRight
  <2> QED BY <1>1, <2>1, <2>2, GoingOnKeepsGates DEF OthersKept
<1>10. CASE Writer
  <2>1. /\ mode # None /\ todo # <<>> /\ todo[1] = "writer" /\ halt = None
        /\ OthersKept({"write"}) /\ UNCHANGED <<setup, mode, read>>
        /\ st'.write \in WriteResults
    BY <1>10, WriterEffect DEF WentOn
  <2>2. st.content = "OK" /\ mode.apply
    BY <2>1, ReadBefore DEF GatesRight
  <2>3. access = "rw"
    BY <2>2, AccessesAssumption DEF GatesRight, IInv, TypeOK
  <2>4. st'.write # "FAILED"
    BY <2>1, <2>3 DEF WriteResults, SinkCanWrite
  <2> QED BY <1>1, <2>1, <2>2, <2>4, GoingOnKeepsGates DEF OthersKept, GatesRight
<1>11. CASE StartRun \/ EndRun
  <2>1. st' = AllPending /\ halt' = None
    BY <1>11 DEF StartRun, EndRun, IInv, FreshBetweenRuns
  <2> QED BY <2>1 DEF GatesRight, AllPending
<1>12. CASE UNCHANGED vars
  BY <1>12, ForeseenFixed, DecisionsFixed DEF vars, run, GatesRight
<1>13. CASE ExternalEdit \/ ExternalChmod
  BY <1>13 DEF ExternalEdit, ExternalChmod
<1> QED BY <1>2, <1>3, <1>4, <1>5, <1>6, <1>7, <1>8, <1>9, <1>10, <1>11, <1>12, <1>13
        DEF Next, Step

\* A finished run that read the file has looked for a header, and was halted for a reason.
LEMMA FinishedReading ==
  ASSUME QuietBase, DecidedRight, HaltedRight, GatesRight, Finished, halt # "exception",
         st.content = "OK"
  PROVE  /\ Original = read /\ read \in FileContent /\ Looks(read)
         /\ st.header # "PENDING" /\ st.header = HeaderOf(read)
         /\ mode.cmd \in {"check", "strip"}
         /\ Outcome = IF EmptyLike(read) /\ ~policy.allowEmpty THEN "UNCHANGED"
                      ELSE IF st.strip # "PENDING" THEN StripOutcome(st, mode.apply)
                      ELSE HeaderOutcome(st, policy, mode.apply)
         /\ mode.cmd = "strip" /\ st.strip = "PENDING" => st.header = "MALFORMED" \/ ~Permits(read)
         /\ mode.cmd = "check" /\ st.comparison = "PENDING" =>
              st.header = "MALFORMED" \/ ~Permits(read) \/ st.render \in {"SKIPPED", "FAILED"}
<1> USE DEF QuietBase, TextBase, Base
<1>1. /\ mode \in RunOptions /\ mode.cmd # "probe"
  BY DEF Finished, DecidedRight, IInv, TypeOK
<1>2. mode.cmd \in {"check", "strip"}
  BY <1>1 DEF RunOptions
<1>3. st.header # "PENDING"
  BY <1>2, FinishedUnhalted DEF HaltedRight
<1>4. /\ read \in FileContent /\ st.header = HeaderOf(read) /\ Original = read
  BY <1>3, ReadRightly DEF Original
<1>5. Looks(read) /\ st.fs = FsOf(read)
  BY DEF Looks, GatesRight, QuietInv, LookedRight
<1>6. st.resolve = "RESOLVED" /\ st.fs \in ReadableFs
  BY DEF QuietInv, SniffedDisk, ReportInv, ReadableFs
<1>7. EmptyUnchangedByDefault(st, policy, facts) <=> EmptyLike(read) /\ ~policy.allowEmpty
  <2>1. st.fs = "EMPTY" <=> ~Sized(read)
    BY <1>5 DEF FsOf
  <2> QED BY <2>1 DEF EmptyUnchangedByDefault, AllowInsertIntoEmptyLike, IsEmptyForInsert,
                      EmptyLike, TextInv, ContextIsOfRead
<1>8. Outcome = IF EmptyLike(read) /\ ~policy.allowEmpty THEN "UNCHANGED"
                ELSE IF st.strip # "PENDING" THEN StripOutcome(st, mode.apply)
                ELSE HeaderOutcome(st, policy, mode.apply)
  BY <1>6, <1>7 DEF Outcome, MapBucket, ReadableFs, ActionIntent
<1>9. /\ mode.cmd = "strip" /\ st.strip = "PENDING" => st.header = "MALFORMED" \/ ~Permits(read)
      /\ mode.cmd = "check" /\ st.comparison = "PENDING" =>
           st.header = "MALFORMED" \/ ~Permits(read) \/ st.render \in {"SKIPPED", "FAILED"}
  BY FinishedUnhalted DEF HaltedRight
<1> QED BY <1>2, <1>3, <1>4, <1>5, <1>8, <1>9

\* A finished run that did not read the file would not have been let to.
LEMMA FinishedUnread ==
  ASSUME QuietBase, GatesRight, Finished, st.content # "OK"
  PROVE  Outcome \notin Changes /\ (mode.cmd # "probe" => ~Looks(Original))
<1> USE DEF QuietBase, TextBase, Base
<1>1. Outcome \notin Changes
  BY DEF Outcome, MapBucket, Changes, AppliedOutcomes, WouldOutcomes
<1>2. ASSUME mode.cmd # "probe" PROVE halt # None
  <2>1. mode # None /\ mode \in RunOptions /\ ToSet(todo) = {}
    BY DEF Finished, IInv, TypeOK, ToSet
  <2>2. "reader" \in ToSet(Pipeline)
    BY <1>2, <2>1, PipelineShape
       DEF Shaped, Pipeline, RunOptions, PipelineSteps, CheckSteps, StripSteps, ScanSteps
  <2>3. halt = None => st.content # "PENDING"
    BY <2>1, <2>2, AxisOfStep DEF IInv, AxesDecidedInOrder
  <2> QED BY <2>3 DEF GatesRight
<1>3. mode.cmd # "probe" => ~Looks(Original)
  BY <1>2 DEF GatesRight, Original
<1> QED BY <1>1, <1>3

\* What a finished run reports could be foreseen from the file it found.
LEMMA FinishedForeseen ==
  ASSUME QuietBase, DecidedRight, HaltedRight, GatesRight
  PROVE  ReportsForeseen
<1> USE DEF QuietBase, TextBase, Base
<1> SUFFICES ASSUME Finished, halt # "exception", ~Odd(Original, mode.cmd)
             PROVE  IF Foreseen(Original, mode.cmd)
                    THEN Outcome = Named(Original, mode.cmd, mode.apply)
                    ELSE Outcome \notin Changes
  BY DEF ReportsForeseen
<1>1. CASE st.content # "OK"
  BY <1>1, FinishedUnread DEF Foreseen
<1>2. CASE st.content = "OK"
  <2>1. /\ Original = read /\ read \in FileContent /\ Looks(read)
        /\ st.header # "PENDING" /\ st.header = HeaderOf(read)
        /\ mode.cmd \in {"check", "strip"}
        /\ Outcome = IF EmptyLike(read) /\ ~policy.allowEmpty THEN "UNCHANGED"
                     ELSE IF st.strip # "PENDING" THEN StripOutcome(st, mode.apply)
                     ELSE HeaderOutcome(st, policy, mode.apply)
    BY <1>2, FinishedReading
  <2>2. st.strip = "PENDING" => (PermittedByPolicy(st, policy) <=> Permits(read))
    BY <2>1 DEF PermittedByPolicy, Permits
  <2>3. ASSUME NEW o \in {"UNCHANGED", "ERROR", "SKIPPED"}
        PROVE  o \notin Changes
    BY DEF Changes, AppliedOutcomes, WouldOutcomes
  <2>4. CASE EmptyLike(read) /\ ~policy.allowEmpty
    BY <2>1, <2>3, <2>4 DEF Foreseen
  <2>5. CASE ~(EmptyLike(read) /\ ~policy.allowEmpty) /\ mode.cmd = "strip"
    <3>1. CASE st.strip # "PENDING"
      <4>1. st.strip = StripOf(read) /\ Permits(read)
        BY <3>1 DEF DecidedRight, GatesRight
      <4>2. Outcome = StripOutcome(st, mode.apply)
        BY <2>1, <2>5, <3>1
      <4> QED BY <2>1, <2>3, <2>5, <4>1, <4>2 DEF StripOutcome, Foreseen, Named
    <3>2. CASE st.strip = "PENDING"
      <4>1. st.header = "MALFORMED" \/ ~Permits(read)
        BY <1>2, <2>5, <3>2, FinishedReading
      <4>2. ~Foreseen(read, mode.cmd)
        BY <2>1, <2>5, <4>1 DEF Foreseen, StripOf
      <4>3. HeaderOutcome(st, policy, mode.apply) \in {"ERROR", "SKIPPED"}
        BY <2>2, <3>2, <4>1 DEF HeaderOutcome
      <4> QED BY <2>1, <2>3, <2>5, <3>2, <4>2, <4>3
    <3> QED BY <3>1, <3>2
  <2>6. CASE ~(EmptyLike(read) /\ ~policy.allowEmpty) /\ mode.cmd = "check"
    <3>1. st.strip = "PENDING" /\ Outcome = HeaderOutcome(st, policy, mode.apply)
      BY <2>1, <2>6 DEF IInv, DecidedFromBelow
    <3>2. CASE st.header = "MALFORMED" \/ ~Permits(read)
      <4>1. HeaderOutcome(st, policy, mode.apply) \in {"ERROR", "SKIPPED"}
        BY <2>2, <3>1, <3>2 DEF HeaderOutcome
      <4> QED BY <2>1, <2>3, <2>6, <3>1, <3>2, <4>1 DEF Foreseen
    <3>3. CASE st.header # "MALFORMED" /\ Permits(read) /\ st.comparison = "PENDING"
      <4>1. st.render \in {"SKIPPED", "FAILED"} /\ Rendering # "nolines"
        BY <1>2, <2>1, <2>6, <3>3, FinishedReading DEF Odd
      <4>2. Rendering = "failed" /\ st.render = "FAILED"
        BY <4>1 DEF RenderedAsConfigured, RenderingStatus
      <4> QED BY <2>1, <2>3, <2>6, <3>1, <4>2 DEF Foreseen, HeaderOutcome
    <3>4. CASE st.header # "MALFORMED" /\ Permits(read) /\ st.comparison # "PENDING"
      <4>1. /\ st.comparison = ComparisonOf(read, mode.cmd) /\ ~BadHeader(read)
            /\ st.render = "RENDERED"
        BY <2>1, <2>6, <3>1, <3>4 DEF DecidedRight, Odd, IInv, DecidedFromBelow
      <4>2. Rendering # "failed"
        BY <4>1 DEF RenderedAsConfigured, RenderingStatus
      <4>3. CASE st.comparison = "UNCHANGED"
        BY <2>1, <2>3, <2>6, <3>1, <3>4, <2>2, <4>1, <4>3 DEF Foreseen, HeaderOutcome
      <4>4. CASE st.comparison = "CHANGED"
        <5>1. Foreseen(read, mode.cmd)
          BY <2>1, <2>6, <3>4, <4>1, <4>2, <4>4 DEF Foreseen
        <5>2. Outcome = ChangedOutcome(st, mode.apply)
          BY <2>2, <3>1, <3>4, <4>1, <4>4 DEF HeaderOutcome, ChangeIsDue, GatesRight
        <5>3. ChangedOutcome(st, mode.apply) = Named(read, mode.cmd, mode.apply)
          BY <2>1, <2>6, <3>1 DEF ChangedOutcome, ActionIntent, Named
        <5> QED BY <2>1, <5>1, <5>2, <5>3
      <4> QED BY <4>1, <4>3, <4>4 DEF ComparisonOf
    <3> QED BY <3>2, <3>3, <3>4
  <2> QED BY <2>1, <2>4, <2>5, <2>6
<1> QED BY <1>1, <1>2

\* Every step keeps what was foreseen.
LEMMA ForeseenKept ==
  ASSUME ~Races, QuietBase, GatesRight, ReportsForeseen, LastForeseen, [Next]_vars
  PROVE  LastForeseen'
<1> USE DEF QuietBase, TextBase, Base
<1>1. access' = access
  BY RightsStay
<1>2. ASSUME UNCHANGED <<setup, last>>, Original' = Original, mode = None \/ mode' = mode
      PROVE  LastForeseen'
  BY <1>1, <1>2, ForeseenFixed DEF LastForeseen
<1>3. CASE Step
  <2>1. mode # None /\ todo # <<>> /\ mode' = mode /\ UNCHANGED <<setup, last>>
    BY <1>3 DEF Step, Pass, Resolver, Prober, Sniffer, ReaderRefuses, ReaderFails, ReaderFindsEmpty,
       ReaderLoads, Scanner, Builder, BuilderRaises, Renderer, Comparer, Stripper, PlanStrip,
       PlanUnchanged, PlanRefused, PlanReplace, PlanInsert, PlanText, PlanNoAnchor, Updating,
       Patcher, Writer, Settle, Running
  <2>2. st.write = "PENDING"
    BY <2>1 DEF ReportInv
  <2>3. CASE Writer
    <3>1. /\ read' = read /\ st'.write # "PENDING" /\ todo[1] = "writer" /\ halt = None
      BY <2>3, WriterEffect DEF WriteResults
    <3>2. st.content = "OK"
      BY <2>1, <3>1, ReadBefore DEF GatesRight
    <3> QED BY <1>2, <2>1, <2>2, <3>1, <3>2, ReadRightly DEF Original
  <2>4. CASE ~Writer
    BY <1>2, <1>3, <2>1, <2>2, <2>4, OthersWriteNothing DEF Original
  <2> QED BY <2>3, <2>4
<1>4. CASE StartRun
  BY <1>2, <1>4 DEF StartRun, Original
<1>5. CASE EndRun
  <2>1. /\ Finished /\ st' = AllPending /\ UNCHANGED <<setup, disk>>
        /\ last' = IF halt = "exception" THEN None
                   ELSE [cmd |-> mode.cmd, apply |-> mode.apply, outcome |-> Outcome,
                         wrote |-> st.write = "WRITTEN" /\ mode.sink # "stdout"]
    BY <1>5 DEF EndRun
  <2>2. SUFFICES ASSUME last' # None, ~last'.apply, ~Odd(Original, last.cmd)'
                 PROVE  IF Foreseen(Original, last.cmd)'
                        THEN last'.outcome = Named(Original, last.cmd, FALSE)'
                        ELSE last'.outcome \notin WouldOutcomes
    BY DEF LastForeseen
  <2>3. /\ halt # "exception" /\ last'.cmd = mode.cmd /\ ~mode.apply
        /\ last'.outcome = Outcome
    BY <2>1, <2>2
  <2>4. Original = disk /\ Original' = disk
    BY <2>1, <2>3 DEF GatesRight, Original, AllPending
  <2>5. /\ Odd(Original, last.cmd)' = Odd(disk, mode.cmd)
        /\ Foreseen(Original, last.cmd)' = Foreseen(disk, mode.cmd)
        /\ Named(Original, last.cmd, FALSE)' = Named(disk, mode.cmd, FALSE)
    BY <1>1, <2>1, <2>3, <2>4, ForeseenFixed
  <2>6. mode.apply = FALSE
    BY <2>1, <2>3 DEF Finished, IInv, TypeOK, RunOptions
  <2> QED BY <2>1, <2>2, <2>3, <2>4, <2>5, <2>6 DEF ReportsForeseen, Changes
<1>6. CASE ExternalEdit \/ ExternalChmod
  BY <1>6 DEF ExternalEdit, ExternalChmod
<1>7. CASE UNCHANGED vars
  BY <1>2, <1>7 DEF vars, run, Original
<1> QED BY <1>3, <1>4, <1>5, <1>6, <1>7 DEF Next

\* A dry run, with or without --diff, predicts what --apply then reports (map_bucket and
\* the two pipelines), when nobody interferes, no read or write fails for reasons of its
\* own and the file, if it can be read at all, can be written.
THEOREM DryRunIsKept ==
  ASSUME ~Races, ~IOMayFail, "r" \notin Accesses
  PROVE  Spec => []DryRunPredictsApply
<1> USE DEF QuietBase, TextBase, Base
<1>1. Init => GatesRight /\ LastForeseen
  BY DEF Init, GatesRight, LastForeseen, AllPending
<1>2. QuietBase /\ QuietBase' /\ DecidedRight /\ GatesRight /\ [Next]_vars => GatesRight'
  BY GatesKept
<1>3. QuietBase /\ DecidedRight /\ HaltedRight /\ GatesRight => ReportsForeseen
  BY FinishedForeseen
<1>4. QuietBase /\ GatesRight /\ ReportsForeseen /\ LastForeseen /\ [Next]_vars => LastForeseen'
  BY ForeseenKept
<1>5. QuietBase /\ DecidedRight /\ HaltedRight /\ GatesRight /\ ReportsForeseen /\ LastForeseen
      /\ WriteIsReported => DryRunPredictsApply
  <2> SUFFICES ASSUME QuietBase, DecidedRight, HaltedRight, GatesRight, ReportsForeseen,
                      LastForeseen, WriteIsReported, ReportsAgain, ~last.apply, mode.apply,
                      mode.sink # "stdout", ~BadFields, st.render # "SKIPPED"
               PROVE  IF last.outcome \in WouldOutcomes THEN Outcome = AppliedForm(last.outcome)
                      ELSE Outcome \notin AppliedOutcomes /\ st.write # "WRITTEN"
    BY DEF DryRunPredictsApply
  <2>1. Finished /\ halt # "exception" /\ last # None /\ mode.cmd = last.cmd /\ mode.apply = TRUE
    BY DEF ReportsAgain, Finished, IInv, TypeOK, RunOptions
  <2>2. ~Odd(Original, mode.cmd)
    <3>1. CASE st.content # "OK"
      BY <2>1, <3>1, FinishedUnread DEF Odd
    <3>2. CASE st.content = "OK"
      <4>1. Original = read /\ read \in FileContent /\ st.header = HeaderOf(read)
            /\ (mode.cmd = "check" /\ st.comparison = "PENDING" =>
                 st.header = "MALFORMED" \/ ~Permits(read) \/ st.render \in {"SKIPPED", "FAILED"})
        BY <2>1, <3>2, FinishedReading
      <4>2. ~BadHeader(read)
        BY <4>1, HeaderNames DEF BadFields
      <4>3. mode.cmd = "check" /\ st.comparison # "PENDING" => st.render = "RENDERED"
        BY DEF IInv, DecidedFromBelow
      <4> QED BY <4>1, <4>2, <4>3 DEF Odd, RenderedAsConfigured, RenderingStatus
    <3> QED BY <3>1, <3>2
  <2>3. CASE Foreseen(Original, mode.cmd)
    BY <2>1, <2>2, <2>3 DEF ReportsForeseen, LastForeseen, Named, AppliedForm, WouldOutcomes
  <2>4. CASE ~Foreseen(Original, mode.cmd)
    <3>1. Outcome \notin Changes /\ last.outcome \notin WouldOutcomes
      BY <2>1, <2>2, <2>4 DEF ReportsForeseen, LastForeseen
    <3>2. st.write = "WRITTEN" => (st.fs = "BOM_BEFORE_SHEBANG" => read # None /\ read.shebang)
      <4>1. st.write = "WRITTEN" => st.content = "OK"
        BY DEF GatesRight
      <4> QED BY <4>1 DEF QuietInv, LookedRight, FsOf, BomFirst, TextInv, ContextIsOfRead
    <3>3. {"INSERTED", "UPDATED", "STRIPPED"} \subseteq Changes
      BY DEF Changes, AppliedOutcomes
    <3>4. st.write # "WRITTEN"
      BY <2>1, <3>1, <3>2, <3>3 DEF WriteIsReported
    <3> QED BY <3>1, <3>4 DEF Changes
  <2> QED BY <2>3, <2>4
<1> HIDE DEF QuietBase, TextBase, Base
<1> QED BY <1>1, <1>2, <1>3, <1>4, <1>5, Decisions, WritesAreReported, PTL DEF Spec
=============================================================================

-------------------------- MODULE PiHarness_proofs --------------------------
(***************************************************************************)
(* Proofs about PiHarness: through crashes, lost answers and replacements  *)
(* an effect runs once, a Turn that is over is quiet, and what is shown is *)
(* what is stored, for any harnesses, Turns, commits, profiles and faults. *)
(***************************************************************************)
EXTENDS PiHarness, FiniteSetTheorems, TLAPS

\* Claims are made in order, and only the last one can be open.  x is the harness h, d the record.
Claimed(h, x, d) ==
    /\ x.state = "unused" <=> h > d.run
    /\ x.state = "open" => h = d.run
    /\ x.state \in {"unused", "claimed"} => x.task = 0 /\ x.effect = "none"

\* The image of an open harness is a state of the history: the newest, unless it is poisoned.
ImageOf(x, d) ==
    x.state = "open" =>
        /\ x.head.seq <= d.head.seq
        /\ x.head.seq = d.head.seq => x.docs = d.docs
        /\ ~x.poisoned => x.head = d.head

\* A harness has a task that was begun in the history, and its effect is of that task.
TaskOf(x, d) ==
    /\ x.task # 0 => d.docs.tool[x.task] # "none"
    /\ x.effect # "none" => x.task # 0
    /\ x.effect \in {"admitted", "running"} => d.docs.tool[x.task] = "begun"
    /\ x.state = "open" /\ ~x.poisoned /\ x.effect # "none" => d.docs.tool[x.task] = "begun"

\* An effect that may still start has not started before.  r counts the starts.
NotYet(x, r) ==
    /\ x.effect = "admitted" => r[x.task] = 0
    /\ x.state = "open" /\ ~x.poisoned /\ x.task # 0 /\ x.effect = "none" => r[x.task] = 0

Fits(h, x, d, r) == Claimed(h, x, d) /\ ImageOf(x, d) /\ TaskOf(x, d) /\ NotYet(x, r)

HarnessesFit == \A h \in Harnesses : Fits(h, harness[h], disk, ran)

\* One Turn runs at a time, and a tool that has begun belongs to it.
Sound(docs) ==
    /\ \A t, u \in Running(docs) : t = u
    /\ \A t \in Turns : docs.tool[t] = "begun" => t \in Running(docs)

\* The effects of earlier harnesses are over when one is open (openPiEffects), and on AWS when it
\* is claimed (reconcile).
EarlierAreQuiet ==
    \A g \in Harnesses : g < disk.run =>
        /\ hosted => harness[g].effect = "none"
        /\ disk.run \in Harnesses /\ harness[disk.run].state = "open" => harness[g].effect = "none"

\* A task was begun by one harness.
TasksAreOwn ==
    \A g, h \in Harnesses : harness[g].task = harness[h].task /\ harness[g].task # 0 => g = h

\* What started was begun in the history first.
StartsAreBegun == \A t \in Turns : ran[t] # 0 => disk.docs.tool[t] # "none"

PublishedIsStored == disk.projected <= disk.head.seq

GrantsAreCounted == \A h \in Harnesses : \A i \in granted[h] : i <= disk.high

\* The inductive invariant.
PiInv ==
    /\ HarnessesFit /\ Sound(disk.docs) /\ EarlierAreQuiet /\ TasksAreOwn /\ StartsAreBegun
    /\ PublishedIsStored /\ GrantsAreCounted
    /\ EffectsRunOnce /\ ProjectionIsTrue /\ IdsAreFresh

IInv == TypeOK /\ PiInv

-----------------------------------------------------------------------------
(* Types and numbers *)

\* Harnesses and Turns are positive numbers, and 0 is neither.
LEMMA Numbers ==
    ASSUME Assumptions
    PROVE  /\ Harnesses \subseteq Nat \ {0} /\ Turns \subseteq Nat \ {0}
           /\ LastSeq \in Nat /\ MaxFaults \in Nat
           /\ \A h \in Harnesses : 1 .. h - 1 \subseteq Harnesses
  <1>1. Cardinality(Harnesses) \in Nat
    BY FS_CardinalityType DEF Assumptions
  <1> QED
    BY <1>1 DEF Assumptions, Turns

\* What is shown of documents is a view.
LEMMA ViewType == \A d \in Docs : View(d) \in Views
  BY DEF View, Views, Docs, Running, TurnStates, Terminal

\* The initial documents and harness.
LEMMA UnusedType ==
    ASSUME Assumptions
    PROVE  NewDocs \in Docs /\ NoHead \in Heads /\ Unused \in HarnessState
  <1>1. NewDocs \in Docs
    BY DEF NewDocs, Docs, TurnStates
  <1>2. NoHead \in Heads
    BY Numbers DEF NoHead, Heads
  <1> QED
    BY <1>1, <1>2 DEF Unused, HarnessState

\* What is left of a harness that is gone.
LEMMA GoneType ==
    ASSUME Assumptions, NEW e \in HarnessState
    PROVE  /\ Gone(e) \in HarnessState /\ Gone(e).state = "dead" /\ Gone(e).task = e.task
           /\ Gone(e).effect \in {"none", e.effect}
  <1>1. Unused \in HarnessState
    BY UnusedType
  <1>2. /\ e.epoch \in Nat /\ e.task \in Turns \cup {0}
        /\ (IF e.effect = "ended" THEN "none" ELSE e.effect) \in {"none", "admitted", "running", "ended"}
    BY DEF HarnessState
  <1> QED
    BY <1>1, <1>2 DEF Gone, HarnessState

\* A harness that is open is the last one, and no harness is before the first.
LEMMA OpenIsLast ==
    ASSUME IInv, NEW h \in Harnesses, harness[h].state = "open"
    PROVE  disk.run = h
  BY DEF IInv, PiInv, HarnessesFit, Fits, Claimed

\* The image from which a usable harness commits is the stored one.
LEMMA ImageIsStored ==
    ASSUME IInv, NEW h \in Harnesses, Usable(h)
    PROVE  harness[h].head = disk.head /\ Image(h) = disk.docs /\ disk.run = h
  <1>1. harness[h].state = "open" /\ ~harness[h].poisoned
    BY DEF Usable
  <1> QED
    BY <1>1, OpenIsLast DEF IInv, PiInv, HarnessesFit, Fits, ImageOf, Image

-----------------------------------------------------------------------------
(* The shapes of steps *)

\* The parts of a record that the harnesses depend on.
SameHistory(d, e) == e.run = d.run /\ e.head = d.head /\ e.docs = d.docs

\* A harness that moves to x opens only when the effects before it are over, has the task it had or
\* none, and starts no effect of its own once it has been replaced.
Moves(h, x) ==
    /\ Fits(h, x, disk, ran)
    /\ x.state = "open" => harness[h].state = "open" \/ \A g \in 1 .. h - 1 : harness[g].effect = "none"
    /\ x.task \in {0, harness[h].task}
    /\ h < disk.run /\ harness[h].effect = "none" => x.effect = "none"

\* A step of one harness that leaves the history alone.
LEMMA MoveKeepsInv ==
    ASSUME Assumptions, IInv, NEW h \in Harnesses, NEW x \in HarnessState, Moves(h, x),
           harness' = [harness EXCEPT ![h] = x], SameHistory(disk, disk'),
           UNCHANGED <<hosted, ran>>,
           PublishedIsStored', ProjectionIsTrue', GrantsAreCounted', IdsAreFresh'
    PROVE  PiInv'
  <1>1. harness'[h] = x /\ \A g \in Harnesses \ {h} : harness'[g] = harness[g]
    BY DEF IInv, TypeOK
  <1>2. disk'.run = disk.run /\ disk'.head = disk.head /\ disk'.docs = disk.docs
    BY DEF SameHistory
  <1>3. \A g \in Harnesses : \A y : Fits(g, y, disk, ran) => Fits(g, y, disk', ran)
    BY <1>2 DEF Fits, Claimed, ImageOf, TaskOf
  <1>4. HarnessesFit'
    BY <1>1, <1>3 DEF HarnessesFit, IInv, PiInv, Moves
  <1>5. EarlierAreQuiet'
    <2> SUFFICES ASSUME NEW g \in Harnesses, g < disk.run
                 PROVE  /\ hosted => harness'[g].effect = "none"
                        /\ disk.run \in Harnesses /\ harness'[disk.run].state = "open"
                              => harness'[g].effect = "none"
      BY <1>2 DEF EarlierAreQuiet
    <2>1. hosted => harness'[g].effect = "none"
      BY <1>1 DEF IInv, PiInv, EarlierAreQuiet, Moves
    <2>2. ASSUME disk.run \in Harnesses, harness'[disk.run].state = "open"
          PROVE  harness'[g].effect = "none"
      <3>1. g # disk.run /\ g \in 1 .. disk.run - 1
        BY <2>2, Numbers
      <3>2. CASE harness[disk.run].state = "open"
        BY <1>1, <2>2, <3>2 DEF IInv, PiInv, EarlierAreQuiet, Moves
      <3>3. CASE harness[disk.run].state # "open"
        BY <1>1, <2>2, <3>1, <3>3 DEF Moves
      <3> QED
        BY <3>2, <3>3
    <2> QED
      BY <2>1, <2>2
  <1>6. TasksAreOwn'
    BY <1>1 DEF IInv, PiInv, TasksAreOwn, Moves
  <1>7. Sound(disk.docs)' /\ StartsAreBegun' /\ EffectsRunOnce'
    BY <1>2 DEF IInv, PiInv, Sound, Running, StartsAreBegun, EffectsRunOnce
  <1> QED
    BY <1>4, <1>5, <1>6, <1>7 DEF PiInv

\* What the step of a usable harness h may make of the history: one Turn runs, and no tool that
\* was begun is forgotten, nor ends while its effect is under way.
Advances(h, new) ==
    /\ new \in Docs /\ Sound(new)
    /\ \A t \in Turns : disk.docs.tool[t] # "none" => new.tool[t] # "none"
    /\ harness[h].effect \in {"admitted", "running"} => new.tool[harness[h].task] = "begun"

\* What it may keep of an acknowledged commit.
Keeps(h, new, after) ==
    /\ after \in HarnessState /\ after.state = "open" /\ ~after.poisoned
    /\ TaskOf(after, [docs |-> new]) /\ NotYet(after, ran)
    /\ \/ after.task \in {0, harness[h].task}
       \/ \A g \in Harnesses : harness[g].task # after.task

\* A harness that failed to commit is poisoned, and goes no further.
LEMMA PoisonFits ==
    ASSUME IInv, NEW h \in Harnesses, harness[h].state = "open",
           NEW d, d.run = disk.run, d.head = disk.head \/ d.head.seq > disk.head.seq,
           d.head = disk.head => d.docs = disk.docs,
           d.head.seq \in Nat,
           \A t \in Turns : disk.docs.tool[t] # "none" => d.docs.tool[t] # "none",
           harness[h].effect \in {"admitted", "running"} => d.docs.tool[harness[h].task] = "begun"
    PROVE  /\ [harness[h] EXCEPT !.poisoned = TRUE] \in HarnessState
           /\ Fits(h, [harness[h] EXCEPT !.poisoned = TRUE], d, ran)
  <1> DEFINE x == [harness[h] EXCEPT !.poisoned = TRUE]
  <1>1. harness[h] \in HarnessState
    BY DEF IInv, TypeOK
  <1>2. /\ x \in HarnessState /\ x.state = "open" /\ x.poisoned /\ x.task = harness[h].task
        /\ x.effect = harness[h].effect /\ x.head = harness[h].head /\ x.docs = harness[h].docs
    BY <1>1 DEF HarnessState
  <1> HIDE DEF x
  <1>3. Fits(h, harness[h], disk, ran) /\ harness[h].task \in Turns \cup {0}
    BY <1>1 DEF IInv, PiInv, HarnessesFit, HarnessState
  <1>4. harness[h].head.seq \in Nat /\ disk.head.seq \in Nat
    BY <1>1 DEF HarnessState, Heads, IInv, TypeOK, RecordState
  <1>5. Claimed(h, x, d) /\ NotYet(x, ran)
    BY <1>2, <1>3 DEF Fits, Claimed, NotYet
  <1>6. ImageOf(x, d)
    BY <1>2, <1>3, <1>4 DEF Fits, ImageOf
  <1>7. TaskOf(x, d)
    BY <1>2, <1>3 DEF Fits, TaskOf
  <1> QED
    BY <1>2, <1>5, <1>6, <1>7 DEF Fits, x

\* A harness is poisoned by an error of a call that left the history alone.
LEMMA PoisonKeepsInv ==
    ASSUME Assumptions, IInv, NEW h \in Harnesses, harness[h].state = "open", Poisoned(h),
           disk' \in RecordState, SameHistory(disk, disk'),
           disk'.projected = disk.projected, disk'.snapshot = disk.snapshot,
           granted' \in [Harnesses -> SUBSET Nat], GrantsAreCounted', IdsAreFresh',
           UNCHANGED <<uses, hosted, ran>>, faults' \in 0 .. MaxFaults
    PROVE  IInv'
  <1> DEFINE x == [harness[h] EXCEPT !.poisoned = TRUE]
  <1>1. harness' = [harness EXCEPT ![h] = x]
    BY DEF Poisoned
  <1>2. x \in HarnessState /\ Fits(h, x, disk, ran)
    <2>1. disk.head.seq \in Nat
      BY DEF IInv, TypeOK, RecordState, Heads
    <2>2. harness[h].effect \in {"admitted", "running"} => disk.docs.tool[harness[h].task] = "begun"
      BY DEF IInv, PiInv, HarnessesFit, Fits, TaskOf
    <2> QED
      BY <2>1, <2>2, PoisonFits
  <1>3. x.task = harness[h].task /\ x.effect = harness[h].effect
    BY DEF IInv, TypeOK, HarnessState
  <1> HIDE DEF x
  <1>4. Moves(h, x)
    BY <1>2, <1>3 DEF Moves
  <1>5. PublishedIsStored' /\ ProjectionIsTrue'
    BY DEF SameHistory, IInv, PiInv, PublishedIsStored, ProjectionIsTrue
  <1>6. PiInv'
    BY <1>1, <1>2, <1>4, <1>5, MoveKeepsInv
  <1>7. TypeOK'
    BY <1>1, <1>2 DEF IInv, TypeOK
  <1> QED
    BY <1>6, <1>7 DEF IInv

\* What the history asks of a harness that is not open and has no effect is kept when it grows.
LEMMA RestFits ==
    ASSUME IInv, NEW g \in Harnesses, harness[g].state # "open", harness[g].effect = "none",
           NEW d, d.run = disk.run,
           \A t \in Turns : disk.docs.tool[t] # "none" => d.docs.tool[t] # "none"
    PROVE  Fits(g, harness[g], d, ran)
  <1>1. Fits(g, harness[g], disk, ran) /\ harness[g].task \in Turns \cup {0}
    BY DEF IInv, TypeOK, HarnessState, PiInv, HarnessesFit
  <1> QED
    BY <1>1 DEF Fits, Claimed, ImageOf, TaskOf, NotYet

\* While a harness is open the others are not, and have no effects.
LEMMA OthersRest ==
    ASSUME Assumptions, IInv, NEW h \in Harnesses, harness[h].state = "open",
           NEW g \in Harnesses, g # h
    PROVE  harness[g].state # "open" /\ harness[g].effect = "none"
  <1>1. disk.run = h
    BY OpenIsLast
  <1>2. harness[g].state # "open"
    BY <1>1, OpenIsLast
  <1>3. CASE g < h
    BY <1>1, <1>2, <1>3 DEF IInv, PiInv, EarlierAreQuiet
  <1>4. CASE g > h
    BY <1>1, <1>2, <1>4 DEF IInv, PiInv, HarnessesFit, Fits, Claimed
  <1> QED
    BY <1>3, <1>4, Numbers

\* The history has a new head.
Grows(new) ==
    /\ disk'.run = disk.run /\ disk'.docs = new /\ disk'.head.seq = disk.head.seq + 1
    /\ disk'.projected = disk.projected /\ disk'.high = disk.high
    /\ UNCHANGED <<hosted, ran, granted>>

\* When the history grows, what is published is older than it.
LEMMA GrowthKeepsInv ==
    ASSUME IInv, NEW new, Grows(new), Sound(new),
           \A t \in Turns : disk.docs.tool[t] # "none" => new.tool[t] # "none",
           HarnessesFit', EarlierAreQuiet', TasksAreOwn'
    PROVE  PiInv'
  <1>1. disk.head.seq \in Nat /\ disk.projected \in Nat
    BY DEF IInv, TypeOK, RecordState, Heads
  <1>2. PublishedIsStored' /\ ProjectionIsTrue'
    BY <1>1 DEF Grows, IInv, PiInv, PublishedIsStored, ProjectionIsTrue
  <1>3. Sound(disk.docs)' /\ StartsAreBegun'
    BY DEF Grows, Sound, Running, StartsAreBegun, IInv, PiInv
  <1>4. EffectsRunOnce' /\ IdsAreFresh' /\ GrantsAreCounted'
    BY DEF Grows, IInv, PiInv, EffectsRunOnce, IdsAreFresh, GrantsAreCounted
  <1> QED
    BY <1>2, <1>3, <1>4 DEF PiInv

\* A commit that arrives keeps the invariant, whether its answer does or not.
LEMMA CommitArrives ==
    ASSUME Assumptions, IInv, NEW h \in Harnesses, harness[h].state = "open",
           NEW new, Grows(new), Advances(h, new),
           NEW x \in HarnessState, harness' = [harness EXCEPT ![h] = x], x.state = "open",
           Fits(h, x, disk', ran),
           x.task \in {0, harness[h].task} \/ \A g \in Harnesses : harness[g].task # x.task
    PROVE  PiInv'
  <1>1. harness'[h] = x /\ \A g \in Harnesses \ {h} : harness'[g] = harness[g]
    BY DEF IInv, TypeOK
  <1>2. ran' = ran /\ disk'.run = disk.run /\ disk.run = h /\ hosted' = hosted
    BY OpenIsLast DEF Grows
  <1>3. HarnessesFit'
    <2>1. ASSUME NEW g \in Harnesses \ {h}
          PROVE  Fits(g, harness[g], disk', ran)
      BY OthersRest, RestFits DEF Grows, Advances
    <2> QED
      BY <1>1, <1>2, <2>1 DEF HarnessesFit
  <1>4. EarlierAreQuiet'
    <2>1. \A g \in Harnesses \ {h} : harness'[g].effect = "none"
      BY <1>1, OthersRest
    <2>2. \A g \in Harnesses : g < h => g # h
      BY Numbers
    <2> QED
      BY <1>2, <2>1, <2>2 DEF EarlierAreQuiet
  <1>5. TasksAreOwn'
    BY <1>1 DEF IInv, PiInv, TasksAreOwn
  <1> QED
    BY <1>3, <1>4, <1>5, GrowthKeepsInv DEF Advances

\* A commit keeps types and invariant, whatever becomes of it.
LEMMA CommitKeepsInv ==
    ASSUME Assumptions, IInv, NEW h \in Harnesses, NEW new, NEW after,
           Advances(h, new), Keeps(h, new, after), Commit(h, new, after)
    PROVE  IInv'
  <1> DEFINE head == [seq |-> harness[h].head.seq + 1, by |-> h]
             written == [disk EXCEPT !.head = head, !.docs = new]
             acknowledged == [after EXCEPT !.head = head, !.docs = new, !.behind = TRUE]
             poisoned == [harness[h] EXCEPT !.poisoned = TRUE]
  <1>1. /\ harness[h].state = "open" /\ ~harness[h].poisoned /\ head.seq <= LastSeq
        /\ UNCHANGED <<uses, hosted, ran, granted>>
    BY DEF Commit, Usable
  <1>2. /\ harness[h].head = disk.head /\ disk.run = h
        /\ disk \in RecordState /\ harness \in [Harnesses -> HarnessState]
        /\ disk.head.seq \in Nat
    BY <1>1, ImageIsStored DEF Usable, IInv, TypeOK, RecordState, Heads
  <1>3. head \in Heads /\ head.seq = disk.head.seq + 1
    BY <1>1, <1>2, Numbers DEF Heads
  <1> HIDE DEF head
  <1>4. /\ written \in RecordState /\ written.run = disk.run /\ written.head = head
        /\ written.docs = new /\ written.projected = disk.projected /\ written.high = disk.high
        /\ written.snapshot = disk.snapshot
    BY <1>2, <1>3 DEF RecordState, Advances
  <1>5. faults' \in 0 .. MaxFaults
    BY Numbers DEF Commit, Fault, IInv, TypeOK
  <1>6. CASE disk' = written /\ harness' = [harness EXCEPT ![h] = acknowledged]
    <2>1. after.head \in Heads /\ after \in HarnessState
      BY DEF Keeps, HarnessState
    <2>2. /\ acknowledged \in HarnessState /\ acknowledged.state = "open" /\ ~acknowledged.poisoned
          /\ acknowledged.head = head /\ acknowledged.docs = new
          /\ acknowledged.task = after.task /\ acknowledged.effect = after.effect
      BY <1>3, <2>1 DEF HarnessState, Keeps, Advances
    <2> HIDE DEF acknowledged
    <2>3. Fits(h, acknowledged, written, ran)
      <3>1. Claimed(h, acknowledged, written)
        BY <1>2, <1>4, <2>2, Numbers DEF Claimed
      <3>2. ImageOf(acknowledged, written)
        BY <1>4, <1>3, <1>2, <2>2 DEF ImageOf
      <3>3. TaskOf(acknowledged, written) /\ NotYet(acknowledged, ran)
        BY <1>4, <2>2 DEF Keeps, TaskOf, NotYet
      <3> QED
        BY <3>1, <3>2, <3>3 DEF Fits
    <2>4. Grows(new)
      BY <1>1, <1>3, <1>4, <1>6 DEF Grows
    <2>5. PiInv'
      BY <1>1, <1>6, <2>2, <2>3, <2>4, CommitArrives DEF Keeps
    <2>6. TypeOK'
      BY <1>1, <1>2, <1>4, <1>5, <1>6, <2>2 DEF IInv, TypeOK
    <2> QED
      BY <2>5, <2>6 DEF IInv
  <1>7. CASE disk' = written /\ Poisoned(h)
    <2>1. harness' = [harness EXCEPT ![h] = poisoned]
      BY <1>7 DEF Poisoned
    <2>2. poisoned \in HarnessState /\ Fits(h, poisoned, written, ran)
      <3>1. written.head.seq > disk.head.seq /\ written.head # disk.head /\ written.head.seq \in Nat
        BY <1>2, <1>3, <1>4
      <3> HIDE DEF written
      <3> QED
        BY <1>1, <1>2, <1>4, <3>1, PoisonFits DEF Advances
    <2>3. poisoned.state = "open" /\ poisoned.task = harness[h].task
      BY <1>1, <1>2 DEF HarnessState
    <2> HIDE DEF poisoned
    <2>4. Grows(new)
      BY <1>1, <1>3, <1>4, <1>7 DEF Grows
    <2>5. PiInv'
      BY <1>1, <1>7, <2>1, <2>2, <2>3, <2>4, CommitArrives
    <2>6. TypeOK'
      BY <1>1, <1>2, <1>4, <1>5, <1>7, <2>1, <2>2 DEF IInv, TypeOK
    <2> QED
      BY <2>5, <2>6 DEF IInv
  <1>8. CASE disk' = disk /\ Poisoned(h)
    <2>1. /\ SameHistory(disk, disk') /\ disk' \in RecordState
          /\ granted' \in [Harnesses -> SUBSET Nat] /\ GrantsAreCounted' /\ IdsAreFresh'
      BY <1>1, <1>2, <1>8 DEF SameHistory, IInv, PiInv, TypeOK, GrantsAreCounted, IdsAreFresh
    <2> QED
      BY <1>1, <1>5, <1>8, <2>1, PoisonKeepsInv
  <1> QED
    BY <1>6, <1>7, <1>8 DEF Commit, head

-----------------------------------------------------------------------------
(* What the engine commits *)

\* A commit with which the harness keeps its task and its effect.
LEMMA SteadyKeepsInv ==
    ASSUME Assumptions, IInv, NEW h \in Harnesses, NEW new \in Docs, Sound(new),
           \A t \in Turns : disk.docs.tool[t] # "none" => new.tool[t] # "none",
           \A t \in Turns : disk.docs.tool[t] = "begun" /\ harness[h].task = t /\ harness[h].effect # "none"
                               => new.tool[t] = "begun",
           NEW after \in HarnessState, after.state = harness[h].state,
           after.poisoned = harness[h].poisoned, after.task = harness[h].task,
           after.effect = harness[h].effect, Commit(h, new, after)
    PROVE  IInv'
  <1>1. harness[h].state = "open" /\ ~harness[h].poisoned
    BY DEF Commit, Usable
  <1>2. Fits(h, harness[h], disk, ran) /\ harness[h].task \in Turns \cup {0}
    BY DEF IInv, TypeOK, HarnessState, PiInv, HarnessesFit
  <1>3. harness[h].effect # "none" => harness[h].task \in Turns /\ new.tool[harness[h].task] = "begun"
    BY <1>1, <1>2 DEF Fits, TaskOf
  <1>4. Advances(h, new)
    BY <1>3 DEF Advances
  <1>5. TaskOf(after, [docs |-> new])
    BY <1>2, <1>3 DEF Fits, TaskOf
  <1>6. NotYet(after, ran)
    BY <1>2 DEF Fits, NotYet
  <1>7. Keeps(h, new, after)
    BY <1>1, <1>5, <1>6 DEF Keeps
  <1> QED
    BY <1>4, <1>7, CommitKeepsInv

\* A commit of the engine's that ends no tool and changes no Turn.
LEMMA QuietKeepsInv ==
    ASSUME Assumptions, IInv, NEW h \in Harnesses, NEW new \in Docs,
           new.turn = disk.docs.turn, new.tool = disk.docs.tool, Engine(h, new)
    PROVE  IInv'
  <1>1. Sound(new)
    BY DEF Sound, Running, IInv, PiInv
  <1>2. harness[h] \in HarnessState
    BY DEF IInv, TypeOK
  <1> QED
    BY <1>1, <1>2, SteadyKeepsInv DEF Engine

\* A step of the engine goes by the stored documents.
LEMMA EngineReads ==
    ASSUME IInv, NEW h \in Harnesses, NEW new, NEW after, Commit(h, new, after)
    PROVE  /\ Image(h) = disk.docs /\ disk.docs \in Docs /\ Sound(disk.docs)
           /\ harness[h] \in HarnessState /\ Usable(h) /\ Fits(h, harness[h], disk, ran)
  BY ImageIsStored DEF Commit, IInv, TypeOK, RecordState, PiInv, HarnessesFit

\* Input, functions and children change neither Turns nor tools; nor does a child's keeper.
LEMMA InputKeepsInv ==
    ASSUME Assumptions, IInv, NEW h \in Harnesses,
           \/ Keeper(h)
           \/ \E t \in Turns : \/ Steer(h, t) \/ ToolResult(h, t) \/ TakeInput(h, t)
                            \/ CallFunction(h, t) \/ Spawn(h, t) \/ CloseChild(h, t)
    PROVE  IInv'
  <1> DEFINE d == disk.docs
  <1>1. Image(h) = d /\ d \in Docs
    BY EngineReads DEF Steer, ToolResult, TakeInput, CallFunction, Spawn, CloseChild, Keeper, Engine
  <1> HIDE DEF d
  <1>2. ASSUME NEW t \in Turns, NEW v \in {"queued", "taken", "stale"}
        PROVE  /\ [d EXCEPT !.steer[t] = v] \in Docs
               /\ [d EXCEPT !.steer[t] = v].turn = d.turn /\ [d EXCEPT !.steer[t] = v].tool = d.tool
    BY <1>1 DEF Docs
  <1>3. ASSUME NEW t \in Turns, NEW v \in {"waiting", "answered"}
        PROVE  /\ [d EXCEPT !.call[t] = v] \in Docs
               /\ [d EXCEPT !.call[t] = v].turn = d.turn /\ [d EXCEPT !.call[t] = v].tool = d.tool
    BY <1>1 DEF Docs
  <1>4. ASSUME NEW v \in {"open", "closing", "closed"}
        PROVE  /\ [d EXCEPT !.child = v] \in Docs
               /\ [d EXCEPT !.child = v].turn = d.turn /\ [d EXCEPT !.child = v].tool = d.tool
    BY <1>1 DEF Docs
  <1>5. \/ \E t \in Turns, v \in {"queued", "taken", "stale"} : Engine(h, [d EXCEPT !.steer[t] = v])
        \/ \E t \in Turns, v \in {"waiting", "answered"} : Engine(h, [d EXCEPT !.call[t] = v])
        \/ \E v \in {"open", "closing", "closed"} : Engine(h, [d EXCEPT !.child = v])
    BY <1>1 DEF Steer, ToolResult, TakeInput, CallFunction, Spawn, CloseChild, Keeper
  <1> QED
    BY <1>2, <1>3, <1>4, <1>5, QuietKeepsInv DEF d

\* A Turn begins when none runs.
LEMMA StartKeepsInv ==
    ASSUME Assumptions, IInv, NEW h \in Harnesses, NEW t \in Turns, StartTurn(h, t)
    PROVE  IInv'
  <1> DEFINE d == disk.docs
             new == [d EXCEPT !.turn[t] = "live"]
  <1>1. Image(h) = d /\ d \in Docs /\ Sound(d) /\ harness[h] \in HarnessState
    BY EngineReads DEF StartTurn, Engine
  <1>2. Running(d) = {} /\ Engine(h, new)
    BY <1>1 DEF StartTurn
  <1> HIDE DEF d
  <1>3. /\ new \in Docs /\ new.tool = d.tool
        /\ new.turn[t] = "live" /\ \A u \in Turns \ {t} : new.turn[u] = d.turn[u]
    BY <1>1 DEF Docs, TurnStates
  <1> HIDE DEF new
  <1>4. Sound(new)
    BY <1>1, <1>2, <1>3 DEF Sound, Running
  <1> QED
    BY <1>1, <1>2, <1>3, <1>4, SteadyKeepsInv DEF Engine, d

\* The answer ends a Turn that has no tool under way.
LEMMA FinishKeepsInv ==
    ASSUME Assumptions, IInv, NEW h \in Harnesses, NEW t \in Turns, Finish(h, t)
    PROVE  IInv'
  <1> DEFINE d == disk.docs
             new == [d EXCEPT !.turn[t] = "done"]
  <1>1. Image(h) = d /\ d \in Docs /\ Sound(d) /\ harness[h] \in HarnessState
    BY EngineReads DEF Finish, Engine
  <1>2. d.tool[t] # "begun" /\ Engine(h, new)
    BY <1>1 DEF Finish
  <1> HIDE DEF d
  <1>3. /\ new \in Docs /\ new.tool = d.tool
        /\ new.turn[t] = "done" /\ \A u \in Turns \ {t} : new.turn[u] = d.turn[u]
    BY <1>1 DEF Docs, TurnStates, Terminal
  <1> HIDE DEF new
  <1>4. Sound(new)
    BY <1>1, <1>2, <1>3 DEF Sound, Running
  <1> QED
    BY <1>1, <1>2, <1>3, <1>4, SteadyKeepsInv DEF Engine, d

\* A cancellation, and the abortion of its run.
LEMMA CancelKeepsInv ==
    ASSUME Assumptions, IInv, NEW h \in Harnesses, (\E t \in Turns : Cancel(h, t)) \/ AbortTask(h)
    PROVE  IInv'
  <1> DEFINE d == disk.docs
             after(v) == [harness[h] EXCEPT !.cancelling = v]
  <1>1. Image(h) = d /\ d \in Docs /\ Sound(d) /\ harness[h] \in HarnessState
    BY EngineReads DEF Cancel, AbortTask
  <1>2. ASSUME NEW v \in Turns \cup {0}
        PROVE  /\ after(v) \in HarnessState /\ after(v).state = harness[h].state
               /\ after(v).poisoned = harness[h].poisoned /\ after(v).task = harness[h].task
               /\ after(v).effect = harness[h].effect
    BY <1>1 DEF HarnessState
  <1>3. ASSUME NEW t \in Turns, Cancel(h, t)
        PROVE  IInv'
    <2> DEFINE new == Cancelled(d, t)
               v == IF t \in Running(d) THEN t ELSE 0
    <2>1. Commit(h, new, after(v))
      BY <1>1, <1>3 DEF Cancel
    <2>2. new \in Docs /\ new.turn = d.turn /\ new.tool = d.tool
      BY <1>1 DEF Cancelled, Docs
    <2>3. Sound(new)
      BY <1>1, <2>2 DEF Sound, Running
    <2>4. v \in Turns \cup {0}
      OBVIOUS
    <2> HIDE DEF new, v, after
    <2> QED
      BY <1>2, <2>1, <2>2, <2>3, <2>4, SteadyKeepsInv
  <1>4. CASE AbortTask(h)
    <2> DEFINE t == harness[h].cancelling
               new == [d EXCEPT !.turn[t] = "aborting"]
    <2>1. t \in Turns /\ d.turn[t] = "live" /\ Commit(h, new, after(0))
      BY <1>1, <1>4 DEF AbortTask, HarnessState
    <2>2. /\ new \in Docs /\ new.tool = d.tool
          /\ new.turn[t] = "aborting" /\ \A u \in Turns \ {t} : new.turn[u] = d.turn[u]
      BY <1>1, <2>1 DEF Docs, TurnStates
    <2> HIDE DEF new
    <2>3. Sound(new)
      <3>1. Running(new) = Running(d)
        BY <2>1, <2>2 DEF Running
      <3> QED
        BY <1>1, <2>2, <3>1 DEF Sound
    <2> HIDE DEF after, t
    <2> QED
      BY <1>2, <2>1, <2>2, <2>3, SteadyKeepsInv
  <1> QED
    BY <1>3, <1>4

\* A tool that begins was no harness' task before, and the harness that begins it has no effect:
\* that would be of a tool of another Turn.
LEMMA BeginKeepsInv ==
    ASSUME Assumptions, IInv, NEW h \in Harnesses, NEW t \in Turns, BeginTool(h, t)
    PROVE  IInv'
  <1> DEFINE d == disk.docs
             new == [d EXCEPT !.tool[t] = "begun"]
             after == [harness[h] EXCEPT !.task = t]
  <1>1. /\ Image(h) = d /\ d \in Docs /\ Sound(d) /\ harness[h] \in HarnessState
        /\ Fits(h, harness[h], disk, ran) /\ harness[h].state = "open" /\ ~harness[h].poisoned
    BY EngineReads DEF BeginTool, Usable
  <1>2. d.turn[t] = "live" /\ d.tool[t] = "none" /\ Commit(h, new, after)
    BY <1>1 DEF BeginTool, Runs
  <1>3. harness[h].effect = "none"
    <2> SUFFICES ASSUME harness[h].effect # "none" PROVE FALSE
      OBVIOUS
    <2>1. harness[h].task \in Turns /\ d.tool[harness[h].task] = "begun"
      BY <1>1 DEF Fits, TaskOf, HarnessState
    <2>2. harness[h].task \in Running(d) /\ t \in Running(d)
      BY <1>1, <1>2, <2>1 DEF Sound, Running
    <2> QED
      BY <1>1, <1>2, <2>1, <2>2 DEF Sound
  <1>4. \A g \in Harnesses : harness[g].task # t
    <2>1. t # 0
      BY Numbers
    <2> QED
      BY <1>2, <2>1 DEF IInv, PiInv, HarnessesFit, Fits, TaskOf
  <1>5. ran[t] = 0
    BY <1>2 DEF IInv, PiInv, StartsAreBegun
  <1> HIDE DEF d
  <1>6. /\ new \in Docs /\ new.turn = d.turn
        /\ new.tool[t] = "begun" /\ \A u \in Turns \ {t} : new.tool[u] = d.tool[u]
    BY <1>1 DEF Docs
  <1>7. /\ after \in HarnessState /\ after.state = "open" /\ ~after.poisoned
        /\ after.task = t /\ after.effect = "none"
    BY <1>1, <1>3 DEF HarnessState
  <1> HIDE DEF new, after
  <1>8. Running(new) = Running(d) /\ t \in Running(d)
    BY <1>2, <1>6 DEF Running
  <1>9. Sound(new)
    BY <1>1, <1>6, <1>8 DEF Sound
  <1>10. Advances(h, new)
    BY <1>3, <1>6, <1>9 DEF Advances, d
  <1>11. Keeps(h, new, after)
    BY <1>4, <1>5, <1>6, <1>7 DEF Keeps, TaskOf, NotYet
  <1> QED
    BY <1>2, <1>10, <1>11, CommitKeepsInv

\* A tool that another engine began is reported as interrupted: its effect is over.
LEMMA InterruptKeepsInv ==
    ASSUME Assumptions, IInv, NEW h \in Harnesses, NEW t \in Turns, Interrupt(h, t)
    PROVE  IInv'
  <1> DEFINE d == disk.docs
             new == [d EXCEPT !.tool[t] = "done"]
  <1>1. Image(h) = d /\ d \in Docs /\ Sound(d) /\ harness[h] \in HarnessState
    BY EngineReads DEF Interrupt, Engine
  <1>2. harness[h].task # t /\ Engine(h, new)
    BY <1>1 DEF Interrupt
  <1> HIDE DEF d
  <1>3. /\ new \in Docs /\ new.turn = d.turn
        /\ new.tool[t] = "done" /\ \A u \in Turns \ {t} : new.tool[u] = d.tool[u]
    BY <1>1 DEF Docs
  <1> HIDE DEF new
  <1>4. Sound(new)
    BY <1>1, <1>3 DEF Sound, Running
  <1>5. \A u \in Turns : d.tool[u] # "none" => new.tool[u] # "none"
    BY <1>3
  <1>6. \A u \in Turns : d.tool[u] = "begun" /\ harness[h].task = u => new.tool[u] = "begun"
    BY <1>2, <1>3
  <1> QED
    BY <1>1, <1>2, <1>3, <1>4, <1>5, <1>6, SteadyKeepsInv DEF Engine, d

\* An aborted Turn is cancelled once the effect of its tool is over.
LEMMA AbortEndsKeepsInv ==
    ASSUME Assumptions, IInv, NEW h \in Harnesses, NEW t \in Turns, AbortEnds(h, t)
    PROVE  IInv'
  <1> DEFINE d == disk.docs
             new == [d EXCEPT !.turn[t] = "cancelled", !.tool[t] = IF @ = "begun" THEN "done" ELSE @]
  <1>1. Image(h) = d /\ d \in Docs /\ Sound(d) /\ harness[h] \in HarnessState
    BY EngineReads DEF AbortEnds, Engine
  <1>2. (harness[h].task = t => harness[h].effect = "none") /\ Engine(h, new)
    BY <1>1 DEF AbortEnds
  <1> HIDE DEF d
  <1>3. /\ new \in Docs /\ new.turn[t] = "cancelled" /\ new.tool[t] # "begun"
        /\ d.tool[t] # "none" => new.tool[t] # "none"
        /\ \A u \in Turns \ {t} : new.turn[u] = d.turn[u] /\ new.tool[u] = d.tool[u]
    <2> DEFINE v == IF d.tool[t] = "begun" THEN "done" ELSE d.tool[t]
    <2>1. v \in {"none", "done"} /\ (d.tool[t] # "none" => v # "none")
      BY <1>1 DEF Docs
    <2>2. new = [d EXCEPT !.turn[t] = "cancelled", !.tool[t] = v]
      BY <1>1 DEF Docs
    <2> HIDE DEF v, new
    <2>3. /\ [d EXCEPT !.turn[t] = "cancelled"] \in Docs
          /\ [d EXCEPT !.turn[t] = "cancelled"].tool = d.tool
          /\ [d EXCEPT !.turn[t] = "cancelled"].turn = [d.turn EXCEPT ![t] = "cancelled"]
      BY <1>1 DEF Docs, TurnStates, Terminal
    <2>4. new \in Docs /\ new.turn = [d.turn EXCEPT ![t] = "cancelled"] /\ new.tool = [d.tool EXCEPT ![t] = v]
      BY <1>1, <2>1, <2>2, <2>3 DEF Docs
    <2> QED
      BY <1>1, <2>1, <2>4 DEF Docs
  <1> HIDE DEF new
  <1>4. Sound(new)
    BY <1>1, <1>3 DEF Sound, Running
  <1>5. \A u \in Turns : d.tool[u] # "none" => new.tool[u] # "none"
    BY <1>3
  <1>6. \A u \in Turns : d.tool[u] = "begun" /\ harness[h].task = u /\ harness[h].effect # "none"
                            => new.tool[u] = "begun"
    BY <1>2, <1>3
  <1> QED
    BY <1>1, <1>2, <1>3, <1>4, <1>5, <1>6, SteadyKeepsInv DEF Engine, d

\* The result of a tool is committed when its effect is over.
LEMMA ToolEndsKeepsInv ==
    ASSUME Assumptions, IInv, NEW h \in Harnesses, ToolEnds(h)
    PROVE  IInv'
  <1> DEFINE d == disk.docs
             t == harness[h].task
             new == [d EXCEPT !.tool[t] = "done"]
             after == [harness[h] EXCEPT !.effect = "none", !.task = 0]
  <1>1. /\ Image(h) = d /\ d \in Docs /\ Sound(d) /\ harness[h] \in HarnessState
        /\ harness[h].state = "open" /\ ~harness[h].poisoned
    BY EngineReads DEF ToolEnds, Usable
  <1>2. t \in Turns /\ harness[h].effect \in {"ended", "none"} /\ Commit(h, new, after)
    BY <1>1 DEF ToolEnds, HarnessState
  <1> HIDE DEF d
  <1>3. /\ new \in Docs /\ new.turn = d.turn
        /\ new.tool[t] = "done" /\ \A u \in Turns \ {t} : new.tool[u] = d.tool[u]
    BY <1>1, <1>2 DEF Docs
  <1>4. /\ after \in HarnessState /\ after.state = "open" /\ ~after.poisoned
        /\ after.task = 0 /\ after.effect = "none"
    BY <1>1 DEF HarnessState
  <1> HIDE DEF new, after
  <1>5. Sound(new)
    BY <1>1, <1>3 DEF Sound, Running
  <1>6. Advances(h, new)
    BY <1>2, <1>3, <1>5 DEF Advances, d
  <1>7. Keeps(h, new, after)
    BY <1>4 DEF Keeps, TaskOf, NotYet
  <1> QED
    BY <1>2, <1>6, <1>7, CommitKeepsInv

-----------------------------------------------------------------------------
(* Commits of the recovery that has given up *)

\* When the last worker has stopped and recovery gives up, no harness is open and no effect is
\* under way.
LEMMA ExhaustedIsQuiet ==
    ASSUME Assumptions, IInv, Exhausted, NEW g \in Harnesses
    PROVE  harness[g].state # "open" /\ harness[g].effect = "none"
  <1>1. hosted /\ Stopped /\ harness[g] \in HarnessState
    BY DEF Exhausted, IInv, TypeOK
  <1>2. Fits(g, harness[g], disk, ran)
    BY DEF IInv, PiInv, HarnessesFit
  <1>3. CASE g = disk.run
    BY <1>1, <1>2, <1>3 DEF Stopped, Fits, Claimed
  <1>4. CASE g < disk.run
    BY <1>1, <1>2, <1>4, Numbers DEF Fits, Claimed, IInv, PiInv, EarlierAreQuiet
  <1>5. CASE g > disk.run
    BY <1>2, <1>5 DEF Fits, Claimed
  <1> QED
    <2>1. g \in Nat /\ disk.run \in Nat
      BY Numbers DEF IInv, TypeOK, RecordState
    <2> QED
      BY <1>3, <1>4, <1>5, <2>1

\* A commit of the recovery keeps types and invariant.
LEMMA RepairKeepsInv ==
    ASSUME Assumptions, IInv, Exhausted, NEW new \in Docs, RepairCommit(new), Sound(new),
           \A t \in Turns : disk.docs.tool[t] # "none" => new.tool[t] # "none"
    PROVE  IInv'
  <1>1. disk \in RecordState /\ disk.head.seq \in Nat
    BY DEF IInv, TypeOK, RecordState, Heads
  <1> DEFINE head == [seq |-> disk.head.seq + 1, by |-> 0]
  <1>2. head \in Heads /\ head.seq = disk.head.seq + 1
    BY <1>1, Numbers DEF Exhausted, Heads
  <1>3. disk' = [disk EXCEPT !.head = head, !.docs = new]
    BY <1>1 DEF RepairCommit, RecordState, Heads
  <1> HIDE DEF head
  <1>4. disk' \in RecordState /\ Grows(new)
    BY <1>1, <1>2, <1>3 DEF RecordState, Grows, RepairCommit
  <1>5. UNCHANGED <<uses, hosted, harness, ran, granted, faults>>
    BY DEF RepairCommit
  <1>6. HarnessesFit'
    BY <1>4, <1>5, ExhaustedIsQuiet, RestFits DEF HarnessesFit, Grows
  <1>7. EarlierAreQuiet' /\ TasksAreOwn'
    BY <1>4, <1>5 DEF IInv, PiInv, EarlierAreQuiet, TasksAreOwn, Grows
  <1>8. PiInv'
    BY <1>4, <1>6, <1>7, GrowthKeepsInv
  <1> QED
    BY <1>4, <1>5, <1>8 DEF IInv, TypeOK

\* Turns are marked, then ended with their tools.
LEMMA GivingUpKeepsInv ==
    ASSUME Assumptions, IInv, Mark \/ Abort
    PROVE  IInv'
  <1> DEFINE d == disk.docs
  <1>1. d \in Docs /\ Sound(d) /\ Running(d) \subseteq Turns
    BY DEF IInv, TypeOK, RecordState, PiInv, Running
  <1>2. CASE Mark
    <2> DEFINE new == [d EXCEPT !.marked = @ \cup Running(d), !.child = IF @ = "open" THEN "closing" ELSE @]
    <2>1. Exhausted /\ RepairCommit(new)
      BY <1>2 DEF Mark
    <2> HIDE DEF d
    <2>2. new \in Docs /\ new.turn = d.turn /\ new.tool = d.tool
      BY <1>1 DEF Docs
    <2> HIDE DEF new
    <2>3. Sound(new)
      BY <1>1, <2>2 DEF Sound, Running
    <2> QED
      BY <2>1, <2>2, <2>3, RepairKeepsInv DEF d
  <1>3. CASE Abort
    <2> DEFINE new == [d EXCEPT
                  !.turn = [t \in Turns |-> IF t \in Running(d) THEN "failed" ELSE @[t]],
                  !.tool = [t \in Turns |-> IF @[t] = "begun" THEN "done" ELSE @[t]],
                  !.child = IF @ = "closing" THEN "closed" ELSE @]
    <2>1. Exhausted /\ RepairCommit(new)
      BY <1>3 DEF Abort
    <2> HIDE DEF d
    <2>2. /\ new \in Docs
          /\ \A t \in Turns : /\ new.turn[t] = IF t \in Running(d) THEN "failed" ELSE d.turn[t]
                              /\ new.tool[t] = IF d.tool[t] = "begun" THEN "done" ELSE d.tool[t]
      BY <1>1 DEF Docs, TurnStates, Terminal
    <2> HIDE DEF new
    <2>3. Running(new) = {}
      BY <2>2 DEF Running
    <2>4. \A t \in Turns : new.tool[t] # "begun"
      BY <2>2
    <2>5. Sound(new)
      BY <2>3, <2>4 DEF Sound
    <2> QED
      BY <2>1, <2>2, <2>5, RepairKeepsInv DEF d
  <1> QED
    BY <1>2, <1>3

-----------------------------------------------------------------------------
(* Steps beside the history *)

\* A step of the record beside the history: a repaired projection, the end of the Session or of
\* recovery.
LEMMA RecordKeepsInv ==
    ASSUME Assumptions, IInv, Repair \/ CloseSession \/ RecordExhausted
    PROVE  IInv'
  <1>1. disk \in RecordState /\ View(disk.docs) \in Views
    BY ViewType DEF IInv, TypeOK, RecordState
  <1>2. /\ disk' \in RecordState /\ SameHistory(disk, disk') /\ disk'.high = disk.high
        /\ \/ disk'.projected = disk.head.seq /\ disk'.snapshot = View(disk.docs)
           \/ disk'.projected = disk.projected /\ disk'.snapshot = disk.snapshot
    <2>1. CASE Repair
      BY <1>1, <2>1 DEF Repair, RecordState, Heads, SameHistory
    <2>2. CASE CloseSession
      <3>1. disk.epoch + 1 \in Nat /\ disk' = [disk EXCEPT !.closed = TRUE, !.epoch = disk.epoch + 1]
        BY <1>1, <2>2 DEF CloseSession, RecordState
      <3> QED
        BY <1>1, <3>1 DEF RecordState, SameHistory
    <2>3. CASE RecordExhausted
      <3>1. disk' = [disk EXCEPT !.exhausted = TRUE]
        BY <2>3 DEF RecordExhausted
      <3> QED
        BY <1>1, <3>1 DEF RecordState, SameHistory
    <2> QED
      BY <2>1, <2>2, <2>3
  <1>3. UNCHANGED <<uses, hosted, harness, ran, granted, faults>>
    BY DEF Repair, CloseSession, RecordExhausted
  <1>4. HarnessesFit'
    BY <1>2, <1>3 DEF SameHistory, IInv, PiInv, HarnessesFit, Fits, Claimed, ImageOf, TaskOf
  <1>5. EarlierAreQuiet' /\ TasksAreOwn'
    BY <1>2, <1>3 DEF SameHistory, IInv, PiInv, EarlierAreQuiet, TasksAreOwn
  <1>6. Sound(disk.docs)' /\ StartsAreBegun' /\ EffectsRunOnce'
    BY <1>2, <1>3 DEF SameHistory, IInv, PiInv, Sound, Running, StartsAreBegun, EffectsRunOnce
  <1>7. PublishedIsStored' /\ ProjectionIsTrue'
    BY <1>1, <1>2 DEF SameHistory, IInv, PiInv, PublishedIsStored, ProjectionIsTrue, RecordState, Heads
  <1>8. GrantsAreCounted' /\ IdsAreFresh'
    BY <1>2, <1>3 DEF IInv, PiInv, GrantsAreCounted, IdsAreFresh
  <1>9. TypeOK'
    BY <1>2, <1>3 DEF IInv, TypeOK
  <1> QED
    BY <1>4, <1>5, <1>6, <1>7, <1>8, <1>9 DEF IInv, PiInv

\* A step of one harness while the record stays.
LEMMA LocalKeepsInv ==
    ASSUME Assumptions, IInv, NEW h \in Harnesses, NEW x \in HarnessState, Moves(h, x),
           harness' = [harness EXCEPT ![h] = x], UNCHANGED <<uses, hosted, disk, ran, granted>>,
           faults' \in 0 .. MaxFaults
    PROVE  IInv'
  <1>1. SameHistory(disk, disk')
    BY DEF SameHistory
  <1>2. PublishedIsStored' /\ ProjectionIsTrue' /\ GrantsAreCounted' /\ IdsAreFresh'
    BY DEF IInv, PiInv, PublishedIsStored, ProjectionIsTrue, GrantsAreCounted, IdsAreFresh
  <1>3. PiInv'
    BY <1>1, <1>2, MoveKeepsInv
  <1>4. TypeOK'
    BY DEF IInv, TypeOK
  <1> QED
    BY <1>3, <1>4 DEF IInv

\* A harness that ends keeps at most an effect that is still under way.
LEMMA EndsFit ==
    ASSUME Assumptions, IInv, NEW h \in Harnesses, harness[h].state # "unused",
           NEW x, x.state = "dead", x.task \in {0, harness[h].task},
           x.effect \in {"none", harness[h].effect}, x.effect # "none" => x.task # 0
    PROVE  Moves(h, x)
  <1>1. Fits(h, harness[h], disk, ran) /\ harness[h].task \in Turns \cup {0}
    BY DEF IInv, TypeOK, HarnessState, PiInv, HarnessesFit
  <1>2. x.task # 0 => x.task = harness[h].task
    OBVIOUS
  <1>3. Fits(h, x, disk, ran)
    BY <1>1, <1>2 DEF Fits, Claimed, ImageOf, TaskOf, NotYet
  <1> QED
    BY <1>3 DEF Moves

\* A harness dies, is closed, or opens: it loads the history when the effects
\* of those before it are over.
LEMMA LifeKeepsInv ==
    ASSUME Assumptions, IInv, NEW h \in Harnesses, Open(h) \/ Crash(h) \/ Close(h)
    PROVE  IInv'
  <1>1. /\ harness[h] \in HarnessState /\ disk \in RecordState /\ harness \in [Harnesses -> HarnessState]
        /\ Fits(h, harness[h], disk, ran)
    BY DEF IInv, TypeOK, PiInv, HarnessesFit
  <1>2. faults' \in 0 .. MaxFaults
    BY Numbers DEF Open, Crash, Close, Fault, IInv, TypeOK
  <1>3. CASE Crash(h)
    <2> DEFINE x == Gone(harness[h])
    <2>1. /\ x \in HarnessState /\ x.state = "dead" /\ x.task = harness[h].task
          /\ x.effect \in {"none", harness[h].effect}
      BY <1>1, GoneType
    <2>2. x.effect # "none" => x.task # 0
      BY <1>1, <2>1 DEF Fits, TaskOf
    <2>3. harness' = [harness EXCEPT ![h] = x] /\ UNCHANGED <<uses, hosted, disk, ran, granted>>
      BY <1>3 DEF Crash
    <2>4. harness[h].state # "unused"
      BY <1>3 DEF Crash
    <2> HIDE DEF x
    <2> QED
      BY <1>2, <2>1, <2>2, <2>3, <2>4, EndsFit, LocalKeepsInv
  <1>4. CASE Close(h)
    <2> DEFINE x == [Gone(harness[h]) EXCEPT !.effect = "none", !.task = 0]
    <2>1. x \in HarnessState /\ x.state = "dead" /\ x.task = 0 /\ x.effect = "none"
      <3>1. Gone(harness[h]) \in HarnessState /\ Gone(harness[h]).state = "dead"
        BY <1>1, GoneType
      <3> QED
        BY <3>1 DEF HarnessState
    <2>2. harness' = [harness EXCEPT ![h] = x] /\ UNCHANGED <<uses, hosted, disk, ran, granted>>
      BY <1>4 DEF Close
    <2>3. harness[h].state # "unused"
      BY <1>4 DEF Close
    <2> HIDE DEF x
    <2> QED
      BY <1>2, <2>1, <2>2, <2>3, EndsFit, LocalKeepsInv
  <1>5. CASE Open(h) /\ Active(h)
    <2> DEFINE x == [harness[h] EXCEPT !.state = "open", !.head = disk.head, !.docs = disk.docs,
                                       !.behind = disk.head.seq > 0]
    <2>1. /\ harness' = [harness EXCEPT ![h] = x] /\ UNCHANGED <<uses, hosted, disk, ran, granted>>
          /\ harness[h].state = "claimed" /\ \A g \in 1 .. h - 1 : harness[g].effect = "none"
      BY <1>5 DEF Open
    <2>2. disk.head \in Heads /\ disk.docs \in Docs /\ (disk.head.seq > 0) \in BOOLEAN
      BY <1>1 DEF RecordState
    <2>3. /\ x \in HarnessState /\ x.state = "open" /\ x.head = disk.head /\ x.docs = disk.docs
          /\ x.task = harness[h].task /\ x.effect = harness[h].effect
      BY <1>1, <2>2 DEF HarnessState
    <2> HIDE DEF x
    <2>4. x.task = 0 /\ x.effect = "none" /\ disk.run = h
      BY <1>1, <1>5, <2>1, <2>3 DEF Fits, Claimed, Active
    <2>5. disk.head.seq \in Nat
      BY <2>2 DEF Heads
    <2>6. Fits(h, x, disk, ran)
      BY <2>3, <2>4, <2>5, Numbers DEF Fits, Claimed, ImageOf, TaskOf, NotYet
    <2>7. Moves(h, x)
      BY <2>1, <2>3, <2>4, <2>6 DEF Moves
    <2> QED
      BY <1>2, <2>1, <2>3, <2>7, LocalKeepsInv
  <1>6. CASE Open(h) /\ ~Active(h)
    <2> DEFINE x == [harness[h] EXCEPT !.state = "dead"]
    <2>1. /\ harness' = [harness EXCEPT ![h] = x] /\ UNCHANGED <<uses, hosted, disk, ran, granted>>
          /\ harness[h].state = "claimed"
      BY <1>6 DEF Open
    <2>2. /\ x \in HarnessState /\ x.state = "dead" /\ x.task = harness[h].task
          /\ x.effect = harness[h].effect
      BY <1>1 DEF HarnessState
    <2> HIDE DEF x
    <2>3. x.effect = "none"
      BY <1>1, <2>1, <2>2 DEF Fits, Claimed
    <2> QED
      BY <1>2, <2>1, <2>2, <2>3, EndsFit, LocalKeepsInv
  <1> QED
    BY <1>3, <1>4, <1>5, <1>6

\* A harness that is refused a worker is gone.
LEMMA RefuseKeepsInv ==
    ASSUME Assumptions, IInv, NEW h \in Harnesses, NEW t \in Turns, Refuse(h, t)
    PROVE  IInv'
  <1> DEFINE x == [harness[h] EXCEPT !.state = "dead"]
  <1>1. /\ harness[h] \in HarnessState /\ disk \in RecordState /\ harness \in [Harnesses -> HarnessState]
        /\ Fits(h, harness[h], disk, ran)
    BY DEF IInv, TypeOK, PiInv, HarnessesFit
  <1>2. /\ harness' = [harness EXCEPT ![h] = x] /\ harness[h].state = "claimed"
        /\ UNCHANGED <<uses, hosted, ran, granted, faults>>
    BY DEF Refuse
  <1>3. /\ x \in HarnessState /\ x.state = "dead" /\ x.task = harness[h].task
        /\ x.effect = harness[h].effect
    BY <1>1 DEF HarnessState
  <1> HIDE DEF x
  <1>4. Moves(h, x)
    <2>1. x.effect = "none"
      BY <1>1, <1>2, <1>3 DEF Fits, Claimed
    <2> QED
      BY <1>2, <1>3, <2>1, EndsFit
  <1>5. disk' = [disk EXCEPT !.refused = disk.refused \cup {t}] /\ disk.refused \cup {t} \in SUBSET Turns
    BY <1>1 DEF Refuse, RecordState
  <1>6. /\ disk' \in RecordState /\ SameHistory(disk, disk') /\ disk'.projected = disk.projected
        /\ disk'.snapshot = disk.snapshot /\ disk'.high = disk.high
    BY <1>1, <1>5 DEF RecordState, SameHistory
  <1>7. PublishedIsStored' /\ ProjectionIsTrue' /\ GrantsAreCounted' /\ IdsAreFresh'
    BY <1>2, <1>6 DEF SameHistory, IInv, PiInv, PublishedIsStored, ProjectionIsTrue, GrantsAreCounted,
                      IdsAreFresh
  <1>8. PiInv'
    BY <1>2, <1>3, <1>4, <1>6, <1>7, MoveKeepsInv
  <1>9. TypeOK'
    BY <1>2, <1>3, <1>6 DEF IInv, TypeOK
  <1> QED
    BY <1>8, <1>9 DEF IInv

\* A harness that changes neither its image nor its effect fits as it did.
LEMMA SameFit ==
    ASSUME Assumptions, IInv, NEW h \in Harnesses, NEW x,
           x.state = harness[h].state, x.head = harness[h].head, x.docs = harness[h].docs,
           x.poisoned = harness[h].poisoned, x.task = harness[h].task, x.effect = harness[h].effect
    PROVE  Moves(h, x)
  <1>1. Fits(h, harness[h], disk, ran)
    BY DEF IInv, PiInv, HarnessesFit
  <1>2. Fits(h, x, disk, ran)
    BY <1>1 DEF Fits, Claimed, ImageOf, TaskOf, NotYet
  <1> QED
    BY <1>2 DEF Moves

\* The engine resumes, or finds that what it was to abort has ended.
LEMMA ResumeKeepsInv ==
    ASSUME Assumptions, IInv, NEW h \in Harnesses, RunEnded(h) \/ Resume(h)
    PROVE  IInv'
  <1>1. harness[h] \in HarnessState /\ harness \in [Harnesses -> HarnessState] /\ faults \in 0 .. MaxFaults
    BY DEF IInv, TypeOK
  <1>2. UNCHANGED <<uses, hosted, disk, ran, granted, faults>>
    BY DEF RunEnded, Resume
  <1>3. CASE RunEnded(h)
    <2> DEFINE x == [harness[h] EXCEPT !.cancelling = 0]
    <2>1. harness' = [harness EXCEPT ![h] = x]
      BY <1>3 DEF RunEnded
    <2>2. x \in HarnessState /\ Moves(h, x)
      <3>1. /\ x \in HarnessState /\ x.state = harness[h].state /\ x.head = harness[h].head
            /\ x.docs = harness[h].docs /\ x.poisoned = harness[h].poisoned
            /\ x.task = harness[h].task /\ x.effect = harness[h].effect
        BY <1>1 DEF HarnessState
      <3> HIDE DEF x
      <3> QED
        BY <3>1, SameFit
    <2> HIDE DEF x
    <2> QED
      BY <1>1, <1>2, <2>1, <2>2, LocalKeepsInv
  <1>4. CASE Resume(h)
    <2> DEFINE x == [harness[h] EXCEPT !.ready = TRUE]
    <2>1. harness' = [harness EXCEPT ![h] = x]
      BY <1>4 DEF Resume
    <2>2. x \in HarnessState /\ Moves(h, x)
      <3>1. /\ x \in HarnessState /\ x.state = harness[h].state /\ x.head = harness[h].head
            /\ x.docs = harness[h].docs /\ x.poisoned = harness[h].poisoned
            /\ x.task = harness[h].task /\ x.effect = harness[h].effect
        BY <1>1 DEF HarnessState
      <3> HIDE DEF x
      <3> QED
        BY <3>1, SameFit
    <2> HIDE DEF x
    <2> QED
      BY <1>1, <1>2, <2>1, <2>2, LocalKeepsInv
  <1> QED
    BY <1>3, <1>4

\* An effect is admitted for the task this engine began, which has not been started.
LEMMA AdmitKeepsInv ==
    ASSUME Assumptions, IInv, NEW h \in Harnesses, Admit(h)
    PROVE  IInv'
  <1> DEFINE x == [harness[h] EXCEPT !.effect = "admitted"]
  <1>1. /\ harness[h] \in HarnessState /\ harness \in [Harnesses -> HarnessState]
        /\ faults \in 0 .. MaxFaults /\ Fits(h, harness[h], disk, ran)
    BY DEF IInv, TypeOK, PiInv, HarnessesFit
  <1>2. /\ harness' = [harness EXCEPT ![h] = x] /\ UNCHANGED <<uses, hosted, disk, ran, granted, faults>>
        /\ Usable(h) /\ harness[h].task # 0 /\ harness[h].effect = "none"
        /\ Image(h).tool[harness[h].task] = "begun"
    BY DEF Admit
  <1>3. /\ x \in HarnessState /\ x.state = harness[h].state /\ x.head = harness[h].head
        /\ x.docs = harness[h].docs /\ x.poisoned = harness[h].poisoned
        /\ x.task = harness[h].task /\ x.effect = "admitted"
    BY <1>1 DEF HarnessState
  <1> HIDE DEF x
  <1>4. Image(h) = disk.docs /\ disk.run = h /\ harness[h].state = "open" /\ ~harness[h].poisoned
    BY <1>2, ImageIsStored DEF Usable
  <1>5. Fits(h, x, disk, ran)
    BY <1>1, <1>2, <1>3, <1>4 DEF Fits, Claimed, ImageOf, TaskOf, NotYet
  <1>6. Moves(h, x)
    BY <1>3, <1>4, <1>5, Numbers DEF Moves
  <1> QED
    BY <1>1, <1>2, <1>3, <1>6, LocalKeepsInv

\* The command of an effect ends, or dies with its worker.
LEMMA EndKeepsInv ==
    ASSUME Assumptions, IInv, NEW h \in Harnesses, EffectEnds(h)
    PROVE  IInv'
  <1> DEFINE e == IF harness[h].state = "dead" THEN "none" ELSE "ended"
             x == [harness[h] EXCEPT !.effect = e]
  <1>1. /\ harness[h] \in HarnessState /\ harness \in [Harnesses -> HarnessState]
        /\ faults \in 0 .. MaxFaults /\ Fits(h, harness[h], disk, ran)
    BY DEF IInv, TypeOK, PiInv, HarnessesFit
  <1>2. /\ harness' = [harness EXCEPT ![h] = x] /\ UNCHANGED <<uses, hosted, disk, ran, granted, faults>>
        /\ harness[h].effect \in {"admitted", "running"}
    BY DEF EffectEnds
  <1>3. /\ x \in HarnessState /\ x.state = harness[h].state /\ x.head = harness[h].head
        /\ x.docs = harness[h].docs /\ x.poisoned = harness[h].poisoned
        /\ x.task = harness[h].task /\ x.effect = e
    BY <1>1 DEF HarnessState
  <1> HIDE DEF x
  <1>4. Fits(h, x, disk, ran)
    BY <1>1, <1>2, <1>3 DEF Fits, Claimed, ImageOf, TaskOf, NotYet
  <1>5. Moves(h, x)
    BY <1>2, <1>3, <1>4 DEF Moves
  <1> QED
    BY <1>1, <1>2, <1>3, <1>5, LocalKeepsInv

\* The engine publishes the image it has, which is the stored one when it is as new.
LEMMA PublishKeepsInv ==
    ASSUME Assumptions, IInv, NEW h \in Harnesses, Publish(h)
    PROVE  IInv'
  <1> DEFINE x == [harness[h] EXCEPT !.behind = FALSE]
             snapshot == View(harness[h].docs)
  <1>1. /\ harness[h] \in HarnessState /\ harness \in [Harnesses -> HarnessState]
        /\ disk \in RecordState /\ Fits(h, harness[h], disk, ran)
    BY DEF IInv, TypeOK, PiInv, HarnessesFit
  <1>2. /\ harness[h].state = "open" /\ harness' = [harness EXCEPT ![h] = x]
        /\ disk' = PublishNative(h) /\ UNCHANGED <<uses, hosted, ran, granted, faults>>
    BY DEF Publish
  <1>3. /\ x \in HarnessState /\ x.state = harness[h].state /\ x.head = harness[h].head
        /\ x.docs = harness[h].docs /\ x.poisoned = harness[h].poisoned
        /\ x.task = harness[h].task /\ x.effect = harness[h].effect
    BY <1>1 DEF HarnessState
  <1> HIDE DEF x
  <1>4. snapshot \in Views
    BY <1>1, ViewType DEF HarnessState
  <1>5. disk.head.seq \in 0 .. LastSeq
    BY <1>1 DEF RecordState, Heads
  <1>6. harness[h].head.seq = disk.head.seq => snapshot = View(disk.docs)
    BY <1>1, <1>2 DEF Fits, ImageOf
  <1> HIDE DEF snapshot
  <1>7. /\ disk' \in RecordState /\ SameHistory(disk, disk') /\ disk'.high = disk.high
        /\ \/ disk'.projected = disk.head.seq /\ disk'.snapshot = View(disk.docs)
           \/ disk'.projected = disk.projected /\ disk'.snapshot = disk.snapshot
    <2>1. CASE disk' = disk
      BY <1>1, <2>1 DEF SameHistory
    <2>2. CASE /\ harness[h].head.seq = disk.head.seq
               /\ disk' = [disk EXCEPT !.projected = disk.head.seq, !.snapshot = snapshot]
      BY <1>1, <1>4, <1>5, <1>6, <2>2 DEF SameHistory, RecordState
    <2>3. \/ disk' = disk
          \/ /\ harness[h].head.seq = disk.head.seq
             /\ disk' = [disk EXCEPT !.projected = disk.head.seq, !.snapshot = snapshot]
      BY <1>2 DEF PublishNative, snapshot
    <2> QED
      BY <2>1, <2>2, <2>3
  <1>8. PublishedIsStored' /\ ProjectionIsTrue'
    BY <1>5, <1>7 DEF SameHistory, IInv, PiInv, PublishedIsStored, ProjectionIsTrue
  <1>9. GrantsAreCounted' /\ IdsAreFresh'
    BY <1>2, <1>7 DEF IInv, PiInv, GrantsAreCounted, IdsAreFresh
  <1>10. Moves(h, x)
    BY <1>3, SameFit
  <1>11. PiInv'
    BY <1>2, <1>3, <1>7, <1>8, <1>9, <1>10, MoveKeepsInv
  <1>12. TypeOK'
    BY <1>2, <1>3, <1>7 DEF IInv, TypeOK
  <1> QED
    BY <1>11, <1>12 DEF IInv

\* Identifiers are granted above all that were, whether the harness hears of it or not.
LEMMA ReserveKeepsInv ==
    ASSUME Assumptions, IInv, NEW h \in Harnesses, Reserve(h)
    PROVE  IInv'
  <1> DEFINE x == [harness[h] EXCEPT !.minted = TRUE]
  <1>1. /\ harness[h] \in HarnessState /\ harness \in [Harnesses -> HarnessState]
        /\ disk \in RecordState /\ granted \in [Harnesses -> SUBSET Nat] /\ faults \in 0 .. MaxFaults
    BY DEF IInv, TypeOK
  <1>2. /\ harness[h].state = "open" /\ UNCHANGED <<uses, hosted, ran>> /\ faults' \in 0 .. MaxFaults
    BY <1>1, Numbers DEF Reserve, Usable, Fault
  <1>3. ASSUME Poisoned(h), UNCHANGED <<disk, granted>>
        PROVE  IInv'
    BY <1>1, <1>2, <1>3, PoisonKeepsInv DEF SameHistory, IInv, PiInv, GrantsAreCounted, IdsAreFresh
  <1>4. ASSUME disk' = [disk EXCEPT !.high = @ + 1],
               granted' = [granted EXCEPT ![h] = @ \cup {disk.high + 1}],
               harness' = [harness EXCEPT ![h].minted = TRUE] \/ Poisoned(h)
        PROVE  IInv'
    <2>1. disk.high \in Nat /\ disk' = [disk EXCEPT !.high = disk.high + 1]
      BY <1>1, <1>4 DEF RecordState
    <2>2. /\ disk' \in RecordState /\ SameHistory(disk, disk') /\ disk'.high = disk.high + 1
          /\ disk'.projected = disk.projected /\ disk'.snapshot = disk.snapshot
      BY <1>1, <2>1 DEF RecordState, SameHistory
    <2>3. /\ granted' \in [Harnesses -> SUBSET Nat]
          /\ \A g \in Harnesses : granted'[g] = IF g = h THEN granted[g] \cup {disk.high + 1} ELSE granted[g]
      BY <1>1, <1>4, <2>1
    <2>4. \A g \in Harnesses : \A i \in granted[g] : i <= disk.high /\ i \in Nat
      BY <1>1 DEF IInv, PiInv, GrantsAreCounted
    <2>5. GrantsAreCounted'
      BY <2>1, <2>2, <2>3, <2>4 DEF GrantsAreCounted
    <2>6. IdsAreFresh'
      <3>1. \A g \in Harnesses : disk.high + 1 \notin granted[g]
        BY <2>1, <2>4
      <3> QED
        BY <2>3, <3>1 DEF IInv, PiInv, IdsAreFresh
    <2>7. CASE Poisoned(h)
      BY <1>2, <2>2, <2>3, <2>5, <2>6, <2>7, PoisonKeepsInv
    <2>8. CASE harness' = [harness EXCEPT ![h].minted = TRUE]
      <3>1. harness' = [harness EXCEPT ![h] = x]
        BY <2>8
      <3>2. /\ x \in HarnessState /\ x.state = harness[h].state /\ x.head = harness[h].head
            /\ x.docs = harness[h].docs /\ x.poisoned = harness[h].poisoned
            /\ x.task = harness[h].task /\ x.effect = harness[h].effect
        BY <1>1 DEF HarnessState
      <3> HIDE DEF x
      <3>3. PublishedIsStored' /\ ProjectionIsTrue'
        BY <2>2 DEF SameHistory, IInv, PiInv, PublishedIsStored, ProjectionIsTrue
      <3>4. Moves(h, x)
        BY <3>2, SameFit
      <3>5. PiInv'
        BY <1>2, <2>2, <2>5, <2>6, <3>1, <3>2, <3>3, <3>4, MoveKeepsInv
      <3>6. TypeOK'
        BY <1>2, <2>2, <2>3, <3>1, <3>2 DEF IInv, TypeOK
      <3> QED
        BY <3>5, <3>6 DEF IInv
    <2> QED
      BY <1>4, <2>7, <2>8
  <1> QED
    BY <1>3, <1>4 DEF Reserve

\* An effect starts for the first time: no other harness has its task.
LEMMA RunKeepsInv ==
    ASSUME Assumptions, IInv, NEW h \in Harnesses, RunEffect(h)
    PROVE  IInv'
  <1> DEFINE x == [harness[h] EXCEPT !.effect = "running"]
             task == harness[h].task
  <1>1. /\ harness[h] \in HarnessState /\ harness \in [Harnesses -> HarnessState]
        /\ ran \in [Turns -> Nat] /\ Fits(h, harness[h], disk, ran) /\ task \in Turns \cup {0}
    BY DEF IInv, TypeOK, HarnessState, PiInv, HarnessesFit
  <1>2. /\ harness[h].effect = "admitted" /\ harness' = [harness EXCEPT ![h] = x]
        /\ ran' = [ran EXCEPT ![task] = @ + 1] /\ UNCHANGED <<uses, hosted, disk, granted, faults>>
    BY DEF RunEffect
  <1>3. /\ x \in HarnessState /\ x.state = harness[h].state /\ x.head = harness[h].head
        /\ x.docs = harness[h].docs /\ x.poisoned = harness[h].poisoned
        /\ x.task = task /\ x.effect = "running"
    BY <1>1 DEF HarnessState
  <1> HIDE DEF x
  <1>4. task \in Turns /\ ran[task] = 0 /\ disk.docs.tool[task] = "begun"
    BY <1>1, <1>2 DEF Fits, TaskOf, NotYet
  <1>5. ran' \in [Turns -> Nat] /\ \A t \in Turns : ran'[t] = IF t = task THEN 1 ELSE ran[t]
    BY <1>1, <1>2, <1>4
  <1>6. harness'[h] = x /\ \A g \in Harnesses \ {h} : harness'[g] = harness[g]
    BY <1>1, <1>2
  <1>7. HarnessesFit'
    <2>1. Fits(h, x, disk, ran')
      BY <1>1, <1>2, <1>3, <1>4 DEF Fits, Claimed, ImageOf, TaskOf, NotYet
    <2>2. ASSUME NEW g \in Harnesses \ {h}
          PROVE  Fits(g, harness[g], disk, ran')
      <3>1. Fits(g, harness[g], disk, ran) /\ harness[g].task \in Turns \cup {0}
        BY DEF IInv, TypeOK, HarnessState, PiInv, HarnessesFit
      <3>2. harness[g].task # 0 => harness[g].task # task
        BY DEF IInv, PiInv, TasksAreOwn
      <3>3. harness[g].task # 0 => ran'[harness[g].task] = ran[harness[g].task]
        BY <1>5, <3>1, <3>2
      <3>4. NotYet(harness[g], ran')
        BY <3>1, <3>3 DEF Fits, NotYet, TaskOf
      <3> QED
        BY <3>1, <3>4 DEF Fits
    <2> QED
      BY <1>2, <1>6, <2>1, <2>2 DEF HarnessesFit
  <1>8. EarlierAreQuiet' /\ TasksAreOwn'
    BY <1>2, <1>3, <1>6 DEF IInv, PiInv, EarlierAreQuiet, TasksAreOwn
  <1>9. StartsAreBegun' /\ EffectsRunOnce'
    BY <1>2, <1>4, <1>5 DEF IInv, PiInv, StartsAreBegun, EffectsRunOnce
  <1>10. Sound(disk.docs)' /\ PublishedIsStored' /\ GrantsAreCounted' /\ ProjectionIsTrue' /\ IdsAreFresh'
    BY <1>2 DEF IInv, PiInv, Sound, Running, PublishedIsStored, GrantsAreCounted, ProjectionIsTrue,
                IdsAreFresh
  <1>11. TypeOK'
    BY <1>2, <1>3, <1>5 DEF IInv, TypeOK
  <1> QED
    BY <1>7, <1>8, <1>9, <1>10, <1>11 DEF IInv, PiInv

\* A harness is claimed when the one before it has stopped: none is open.
LEMMA ClaimKeepsInv ==
    ASSUME Assumptions, IInv, NEW h \in Harnesses, Claim(h)
    PROVE  IInv'
  <1>1. /\ harness \in [Harnesses -> HarnessState] /\ disk \in RecordState
        /\ \A g \in Harnesses : Fits(g, harness[g], disk, ran)
    BY DEF IInv, TypeOK, PiInv, HarnessesFit
  <1>2. /\ harness[h].state = "unused" /\ \A g \in 1 .. h - 1 : harness[g].state # "unused"
        /\ Stopped /\ disk' = ClaimRecord(h) /\ UNCHANGED <<uses, hosted, ran, granted, faults>>
    BY DEF Claim
  <1>3. PICK x \in HarnessState :
             /\ harness' = [harness EXCEPT ![h] = x] /\ x.state = "claimed"
             /\ x.task = 0 /\ x.effect = "none"
    <2>1. PICK mode \in Modes :
               harness' = [harness EXCEPT ![h] = [Unused EXCEPT !.state = "claimed", !.mode = mode,
                                                                !.epoch = disk.epoch + 1]]
      BY DEF Claim
    <2>2. mode \in {"execute", "cancel"} /\ disk.epoch + 1 \in Nat
      BY <1>1, <2>1 DEF Modes, RecordState
    <2>3. Unused \in HarnessState /\ Unused.task = 0 /\ Unused.effect = "none"
      BY UnusedType DEF Unused
    <2> DEFINE x == [Unused EXCEPT !.state = "claimed", !.mode = mode, !.epoch = disk.epoch + 1]
    <2>4. x \in HarnessState /\ x.state = "claimed" /\ x.task = 0 /\ x.effect = "none"
      BY <2>2, <2>3 DEF HarnessState
    <2> QED
      BY <2>1, <2>4
  <1>4. /\ disk' \in RecordState /\ disk'.run = h /\ disk'.head = disk.head /\ disk'.docs = disk.docs
        /\ disk'.projected = disk.projected /\ disk'.snapshot = disk.snapshot /\ disk'.high = disk.high
    <2> DEFINE f == IF hosted /\ HasLiveTasks(disk.docs) THEN disk.failures + 1 ELSE disk.failures
    <2>1. f \in Nat /\ disk.epoch + 1 \in Nat
      BY <1>1 DEF RecordState
    <2>2. disk' = [disk EXCEPT !.run = h, !.epoch = disk.epoch + 1, !.failures = f]
      BY <1>2 DEF ClaimRecord
    <2> HIDE DEF f
    <2> QED
      BY <1>1, <2>1, <2>2 DEF RecordState
  <1>5. harness'[h] = x /\ \A g \in Harnesses \ {h} : harness'[g] = harness[g]
    BY <1>1, <1>3
  <1>6. h \in Nat /\ disk.run \in Nat /\ Harnesses \subseteq Nat \ {0}
    BY <1>1, Numbers DEF RecordState
  <1>7. \A g \in Harnesses : g < h => g <= disk.run
    <2> SUFFICES ASSUME NEW g \in Harnesses, g < h
                 PROVE  g <= disk.run
      OBVIOUS
    <2>1. g \in 1 .. h - 1
      BY <1>6
    <2>2. ~(g > disk.run)
      BY <1>1, <1>2, <2>1 DEF Fits, Claimed
    <2> QED
      BY <1>6, <2>2
  <1>8. h > disk.run
    BY <1>1, <1>2 DEF Fits, Claimed
  <1>9. \A g \in Harnesses : harness[g].state # "open"
    BY <1>1, <1>2 DEF Fits, Claimed, Stopped
  <1>10. HarnessesFit'
    <2>1. Fits(h, x, disk', ran)
      BY <1>3, <1>4, <1>6 DEF Fits, Claimed, ImageOf, TaskOf, NotYet
    <2>2. ASSUME NEW g \in Harnesses \ {h}
          PROVE  Fits(g, harness[g], disk', ran)
      <3>1. g > disk.run <=> g > h
        BY <1>6, <1>7, <1>8
      <3>2. Claimed(g, harness[g], disk')
        BY <1>1, <1>4, <1>9, <3>1 DEF Fits, Claimed
      <3>3. ImageOf(harness[g], disk') /\ TaskOf(harness[g], disk') /\ NotYet(harness[g], ran)
        BY <1>1, <1>4, <1>9 DEF Fits, ImageOf, TaskOf
      <3> QED
        BY <3>2, <3>3 DEF Fits
    <2> QED
      BY <1>2, <1>5, <2>1, <2>2 DEF HarnessesFit
  <1>11. EarlierAreQuiet'
    <2>1. ASSUME NEW g \in Harnesses, g < h, hosted
          PROVE  harness[g].effect = "none"
      <3>1. CASE g < disk.run
        BY <2>1, <3>1 DEF IInv, PiInv, EarlierAreQuiet
      <3>2. CASE g = disk.run
        BY <1>1, <1>2, <2>1, <3>2 DEF Stopped, Fits, Claimed
      <3> QED
        BY <1>6, <1>7, <2>1, <3>1, <3>2
    <2>2. harness'[h].state # "open" /\ \A g \in Harnesses : g < h => g # h
      BY <1>3, <1>5, <1>6
    <2> QED
      BY <1>2, <1>4, <1>5, <2>1, <2>2 DEF EarlierAreQuiet
  <1>12. TasksAreOwn'
    BY <1>3, <1>5 DEF IInv, PiInv, TasksAreOwn
  <1>13. Sound(disk.docs)' /\ StartsAreBegun' /\ EffectsRunOnce'
    BY <1>2, <1>4 DEF IInv, PiInv, Sound, Running, StartsAreBegun, EffectsRunOnce
  <1>14. PublishedIsStored' /\ GrantsAreCounted' /\ ProjectionIsTrue' /\ IdsAreFresh'
    BY <1>2, <1>4 DEF IInv, PiInv, PublishedIsStored, GrantsAreCounted, ProjectionIsTrue, IdsAreFresh
  <1>15. TypeOK'
    BY <1>2, <1>3, <1>4 DEF IInv, TypeOK
  <1> QED
    BY <1>10, <1>11, <1>12, <1>13, <1>14, <1>15 DEF IInv, PiInv

-----------------------------------------------------------------------------
(* The theorems *)

\* Before the first claim there is nothing.
LEMMA InitInv ==
    ASSUME Assumptions, Init
    PROVE  IInv
  <1>1. NewDocs \in Docs /\ NoHead \in Heads /\ Unused \in HarnessState
    BY UnusedType
  <1>2. View(NewDocs) \in Views
    BY <1>1, ViewType
  <1>3. /\ disk = [run |-> 0, epoch |-> 0, closed |-> FALSE, head |-> NoHead, docs |-> NewDocs,
                   high |-> 1, projected |-> 0, snapshot |-> View(NewDocs),
                   failures |-> 0, exhausted |-> FALSE, refused |-> {}]
        /\ \A h \in Harnesses : harness[h] = Unused /\ granted[h] = {}
        /\ \A t \in Turns : ran[t] = 0
    BY DEF Init
  <1>4. TypeOK
    <2>1. disk \in RecordState
      BY <1>1, <1>2, <1>3, Numbers DEF RecordState
    <2> QED
      BY <1>1, <2>1, Numbers DEF TypeOK, Init
  <1>5. disk.run = 0 /\ disk.docs = NewDocs /\ disk.head.seq = 0 /\ disk.projected = 0 /\ disk.snapshot = View(disk.docs)
    BY <1>3 DEF NoHead
  <1>6. Unused.state = "unused" /\ Unused.task = 0 /\ Unused.effect = "none" /\ ~Unused.poisoned
    BY DEF Unused
  <1>7. \A t \in Turns : disk.docs.turn[t] = "absent" /\ disk.docs.tool[t] = "none"
    BY <1>5 DEF NewDocs
  <1>8. HarnessesFit
    BY <1>3, <1>5, <1>6, Numbers DEF HarnessesFit, Fits, Claimed, ImageOf, TaskOf, NotYet
  <1>9. EarlierAreQuiet /\ TasksAreOwn
    BY <1>3, <1>5, <1>6, Numbers DEF EarlierAreQuiet, TasksAreOwn
  <1>10. Sound(disk.docs) /\ StartsAreBegun /\ EffectsRunOnce
    BY <1>3, <1>7 DEF Sound, Running, StartsAreBegun, EffectsRunOnce
  <1>11. PublishedIsStored /\ GrantsAreCounted /\ ProjectionIsTrue /\ IdsAreFresh
    BY <1>3, <1>5 DEF PublishedIsStored, GrantsAreCounted, ProjectionIsTrue, IdsAreFresh
  <1> QED
    BY <1>4, <1>8, <1>9, <1>10, <1>11 DEF IInv, PiInv

\* Every step keeps the inductive invariant.
LEMMA NextKeepsInv ==
    ASSUME Assumptions, IInv, [Next]_vars
    PROVE  IInv'
  <1>1. CASE UNCHANGED vars
    BY <1>1 DEF vars, IInv, TypeOK, PiInv, HarnessesFit, Fits, Claimed, ImageOf, TaskOf, NotYet, Sound,
                Running, EarlierAreQuiet, TasksAreOwn, StartsAreBegun, PublishedIsStored,
                GrantsAreCounted, EffectsRunOnce, ProjectionIsTrue, IdsAreFresh
  <1>2. CASE CloseSession \/ Repair \/ RecordExhausted
    BY <1>2, RecordKeepsInv
  <1>3. CASE Mark \/ Abort
    BY <1>3, GivingUpKeepsInv
  <1>4. ASSUME NEW h \in Harnesses,
               \/ Claim(h) \/ Open(h) \/ Crash(h) \/ Close(h) \/ Reserve(h) \/ Publish(h)
               \/ RunEnded(h) \/ Resume(h) \/ Admit(h) \/ RunEffect(h) \/ EffectEnds(h)
        PROVE  IInv'
    BY <1>4, ClaimKeepsInv, LifeKeepsInv, ReserveKeepsInv, PublishKeepsInv, ResumeKeepsInv,
       AdmitKeepsInv, RunKeepsInv, EndKeepsInv
  <1>5. ASSUME NEW h \in Harnesses, ToolEnds(h)
        PROVE  IInv'
    BY <1>5, ToolEndsKeepsInv
  <1>6. ASSUME NEW h \in Harnesses, NEW t \in Turns,
               \/ StartTurn(h, t) \/ Steer(h, t) \/ Cancel(h, t) \/ ToolResult(h, t)
               \/ TakeInput(h, t) \/ BeginTool(h, t) \/ Interrupt(h, t) \/ CallFunction(h, t)
               \/ Refuse(h, t) \/ Spawn(h, t) \/ CloseChild(h, t) \/ Finish(h, t) \/ AbortEnds(h, t)
        PROVE  IInv'
    BY <1>6, StartKeepsInv, InputKeepsInv, CancelKeepsInv, BeginKeepsInv, InterruptKeepsInv,
       RefuseKeepsInv, FinishKeepsInv, AbortEndsKeepsInv
  <1>7. ASSUME NEW h \in Harnesses, AbortTask(h) \/ Keeper(h)
        PROVE  IInv'
    BY <1>7, CancelKeepsInv, InputKeepsInv
  <1> QED
    BY <1>1, <1>2, <1>3, <1>4, <1>5, <1>6, <1>7 DEF Next

\* When the record says that a Turn is over, no effect of its task is under way.
LEMMA OverFollows == IInv => OverIsQuiet
  <1> SUFFICES ASSUME IInv, NEW t \in Turns, NEW h \in Harnesses,
                      disk.docs.turn[t] \in Terminal, harness[h].task = t, ~Quiet(h)
               PROVE  FALSE
    BY DEF OverIsQuiet
  <1>1. harness[h].effect \in {"admitted", "running"}
    BY DEF Quiet, IInv, TypeOK, HarnessState
  <1>2. disk.docs.tool[t] = "begun"
    BY <1>1 DEF IInv, PiInv, HarnessesFit, Fits, TaskOf
  <1>3. disk.docs.turn[t] \in {"live", "aborting"}
    BY <1>2 DEF IInv, PiInv, Sound, Running
  <1> QED
    BY <1>3 DEF Terminal

\* The inductive invariant holds in every state.
LEMMA PiInvariant == Assumptions /\ Spec => [](Assumptions /\ IInv)
  <1>1. Assumptions /\ Init => Assumptions /\ IInv
    BY InitInv
  <1>2. (Assumptions /\ IInv) /\ [Next]_vars => (Assumptions /\ IInv)'
    <2>1. Assumptions' <=> Assumptions
      BY DEF Assumptions
    <2> QED
      BY <2>1, NextKeepsInv
  <1> QED
    BY <1>1, <1>2, PTL DEF Spec

\* The record, the harnesses and the counters keep their types: no commit passes the bound.
THEOREM PiTypes == Assumptions /\ Spec => []TypeOK
  <1>1. IInv => TypeOK
    BY DEF IInv
  <1> QED
    BY <1>1, PiInvariant, PTL

\* Through crashes, lost answers and replacements of the engine an effect is started once, a Turn
\* that is over is quiet, what is shown as the newest commit is it, and identifiers are granted once.
THEOREM KeptPi == Assumptions /\ Spec => []PiIsKept
  <1>1. IInv => PiIsKept
    BY OverFollows DEF IInv, PiInv, PiIsKept
  <1> QED
    BY <1>1, PiInvariant, PTL

=============================================================================

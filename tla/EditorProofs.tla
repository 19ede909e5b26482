---------------------------- MODULE EditorProofs ----------------------------
(***************************************************************************)
(* The editor is told of its texts' errors, whatever is edited, saved,     *)
(* closed, changed outside or restarted in between.                        *)
(***************************************************************************)
EXTENDS ToolingProofs, FiniteSetTheorems, SequenceTheorems, WellFoundedInduction, TLAPS

Texts == E!Texts \cup {NoText}
Kinds == {"live", "save", "close", "watch", "config"}
Held == {h \in [kind : Kinds, file : Files \cup {NoText}] : h.kind # "config" => h.file \in Files}
LspTask == {t \in [kind : {"overlay", "reconcile", "full"}, file : Files \cup {NoText}, text : Texts,
                   begun : BOOLEAN] : t.kind # "full" => t.file \in Files}

TextsTyped ==
  /\ lspDisk \in [Files -> Texts] /\ lspRows \in [Files -> Texts]
  /\ lspBuffer \in [Files -> [text : Texts, version : Nat]]
  /\ \A f \in Files : E!IsOpen(f) => lspBuffer[f].text \in E!Texts
  /\ lspTimers \subseteq {f \in Files : E!IsOpen(f)}

PassesTyped ==
  /\ lspEvents \in Nat /\ lspPasses \in [Files -> [version : Nat, text : Texts, again : BOOLEAN]]
  /\ \A f \in Files : lspPasses[f].version <= lspEvents /\ lspBuffer[f].version <= lspEvents

Shows == [Files -> SUBSET {"bad", "torn"}]
ShownTyped ==
  /\ lspLive \in Shows /\ lspShown \in Shows /\ lspPiped \subseteq Files
  /\ lspMissed \subseteq Files /\ lspGhosts \subseteq Files

WaitingTyped ==
  /\ lspHeld \in Seq(Held) /\ lspTasks \in Seq(LspTask)
  /\ lspWatch \in [timer : BOOLEAN, restart : BOOLEAN] /\ (lspWatch.restart => lspWatch.timer)

EditorTyped == TextsTyped /\ PassesTyped /\ ShownTyped /\ WaitingTyped

LifeTyped ==
  /\ lspCompiler \in Nat /\ lspReady \in BOOLEAN /\ lspCrossed \in BOOLEAN
  /\ lspAlive \subseteq Nat \ {0} /\ IsFiniteSet(lspAlive) /\ lspSetups \subseteq lspAlive
  /\ lspTeardowns \subseteq [of : Nat, final : BOOLEAN]
  /\ lspCompiler \notin lspSetups /\ lspCompiler \in lspAlive \cup {0}
  /\ \A t \in lspTeardowns : t.of # 0 =>
       /\ t.of \in lspAlive \ lspSetups /\ t.of # lspCompiler
       /\ \A u \in lspTeardowns : u.of = t.of => u = t

\* A compiler runs, or is being closed, or is being set up.
Life ==
  \/ lspTeardowns = {} /\ lspSetups = {} /\ lspAlive = {lspCompiler} \ {0}
  \/ /\ lspCompiler = 0 /\ lspSetups = {}
     /\ \E t \in lspTeardowns : lspTeardowns = {t} /\ lspAlive = {t.of} \ {0}
  \/ /\ lspCompiler = 0 /\ lspTeardowns = {} /\ ~lspReady
     /\ \E g \in lspSetups : lspSetups = {g} /\ lspAlive = {g}

-----------------------------------------------------------------------------
\* The handlers that wait, and the tasks in the lock.
IsHeld(kind, f) == \E i \in DOMAIN lspHeld : lspHeld[i].kind = kind /\ lspHeld[i].file = f
AnyHeld(kind) == \E i \in DOMAIN lspHeld : lspHeld[i].kind = kind

LaidOver(q, i, f) == q[i].kind = "overlay" /\ q[i].file = f
GoesOn(q) == q # <<>> /\ q[1].begun /\ q[1].kind = "full"
Awaits(q) == \E i \in DOMAIN q : q[i].kind = "full" /\ ~q[i].begun
Running == GoesOn(lspTasks)
RunLater == Awaits(lspTasks)

\* The first task of q alone may have begun, and the overlays in q are those of the passes p.
Queue(q, p) ==
  /\ \A i \in DOMAIN q : q[i].begun => i = 1
  /\ \A f \in Files : \A i, j \in DOMAIN q : LaidOver(q, i, f) /\ LaidOver(q, j, f) => i = j
  /\ \A f \in Files : p[f] # E!NoPass <=> \E i \in DOMAIN q : LaidOver(q, i, f)
  /\ \A f \in Files : p[f] # E!NoPass => p[f].text \in {"ok", "bad"}
  /\ \A f \in Files : \A i \in DOMAIN q : LaidOver(q, i, f) => q[i].text = p[f].text

TasksInv == Queue(lspTasks, lspPasses) /\ (lspCompiler = 0 => lspTasks = <<>>)

\* Before the compiler is there, there are full runs only.
FullFirst == ~lspReady => \A i \in DOMAIN lspTasks : lspTasks[i].kind = "full"

\* What a full run published, over what passes did.
Covered ==
  /\ \A f \in Files : /\ lspLive[f] \subseteq lspShown[f]
                      /\ f \notin lspPiped => lspShown[f] = lspLive[f]
  /\ Running => lspPiped = {}

-----------------------------------------------------------------------------
\* A pass or a save will speak for the text of f.
LiveDue(f) ==
  \/ f \in lspTimers \/ IsHeld("live", f) \/ IsHeld("save", f)
  \/ lspPasses[f].again
  \/ lspPasses[f] # E!NoPass /\ lspBuffer[f].version = lspPasses[f].version

\* A full run will.
Asked == lspCompiler = 0 \/ lspWatch.timer \/ RunLater \/ AnyHeld("save") \/ AnyHeld("config")

\* The last pass was of this text; or a save cleared what it had found.
LiveRight(f) == lspLive[f] = E!Errors(lspBuffer[f].text)
Saved(f) == lspLive[f] = {} /\ lspBuffer[f].text = lspDisk[f]

LiveFine(f) == f \in lspMissed \/ ~E!IsOpen(f) \/ LiveDue(f) \/ LiveRight(f) \/ Saved(f)
Lives == \A f \in Files : LiveFine(f)

\* A full run goes on with what the disk had, but for changes that will be heard of.
RunFine(f) ==
  \/ lspRows[f] = lspDisk[f] \/ IsHeld("save", f) \/ IsHeld("watch", f)
  \/ lspReady /\ (lspWatch.timer \/ RunLater)
RunsOfDisk == Running => \A f \in Files : RunFine(f)

\* Once the compiler is there, a change outside is heard of while the file is closed; before,
\* the file may be opened, and a pass will be out for it.
Noticed ==
  /\ lspReady /\ Running => \A f \in Files : IsHeld("watch", f) => ~E!IsOpen(f)
  /\ ~lspReady => \A f \in Files \ lspMissed :
       IsHeld("watch", f) /\ E!IsOpen(f) => f \in lspTimers \/ IsHeld("live", f) \/ IsHeld("save", f)

\* What an open document shows that no pass found, its file has.
AboveFine(f) ==
  \/ f \in lspMissed \/ ~E!IsOpen(f) \/ LiveDue(f) \/ Asked
  \/ lspShown[f] \subseteq lspLive[f] \cup E!Errors(lspDisk[f])
Above == \A f \in Files : AboveFine(f)

\* What its file has it shows, if no file stopped the last full run.
BelowFine(f) ==
  \/ f \in lspMissed \/ ~E!IsOpen(f) \/ LiveDue(f) \/ Asked
  \/ AnyHeld("watch") \/ Running \/ LiveRight(f)
  \/ E!Errors(lspDisk[f]) \subseteq lspShown[f]
  \/ \E g \in Files : lspDisk[g] = "torn"
Below == \A f \in Files : BelowFine(f)

-----------------------------------------------------------------------------
\* The tasks of q that will write the rows of f, and the last of them; what a task writes, where
\* the disk has d.
Works(q, f, i) == i \in DOMAIN q /\ ~q[i].begun /\ (q[i].kind = "full" \/ q[i].file = f)
IsLast(q, f, i) == Works(q, f, i) /\ \A j : Works(q, f, j) => j <= i
Effect(k, d) == IF k.kind = "full" THEN d ELSE k.text

\* What a file's rows x may be: of its text d on the disk, or of that of its document b.
Fine(d, b, x) == x = d \/ (b # E!Closed /\ x = b.text)
Leaves(q, f, d, b, x) ==
  \/ (\A i : ~Works(q, f, i)) /\ Fine(d, b, x)
  \/ \E i : IsLast(q, f, i) /\ Fine(d, b, Effect(q[i], d))

RowsDue(f) ==
  \/ lspCompiler = 0 \/ lspWatch.timer \/ IsHeld("save", f) \/ IsHeld("close", f)
  \/ ~E!IsOpen(f) /\ IsHeld("watch", f)
  \/ E!IsOpen(f) /\ \/ f \in lspTimers \/ IsHeld("live", f) \/ lspPasses[f].again
                    \/ lspBuffer[f].text = "torn"

\* The rows of f will be fine, or something will see to it.
RowFine(f) ==
  f \in lspGhosts \/ RowsDue(f) \/ Leaves(lspTasks, f, lspDisk[f], lspBuffer[f], lspRows[f])
Rowed == \A f \in Files : RowFine(f)

\* A closed file's rows are set to what the disk has, or had.
Reset(q, f, d) == \A i : IsLast(q, f, i) /\ q[i].kind = "reconcile" => q[i].text = d
Moved(f) == lspWatch.timer \/ IsHeld("save", f) \/ (~E!IsOpen(f) /\ IsHeld("watch", f))
Reconciles == \A f \in Files : Moved(f) \/ Reset(lspTasks, f, lspDisk[f])

\* Inductive.
EditorInv ==
  /\ EditorTyped /\ LifeTyped /\ TasksInv /\ Covered /\ Lives
  /\ lspCrossed \/ (Life /\ FullFirst /\ RunsOfDisk /\ Noticed /\ Above /\ Below /\ Rowed /\ Reconciles)
-----------------------------------------------------------------------------
(* Handlers and tasks.                                                     *)

\* A handler more.
LEMMA HeldMore ==
  ASSUME lspHeld \in Seq(Held), NEW k \in Kinds, NEW f \in Files \cup {NoText}, k # "config" => f \in Files,
         lspHeld' = Append(lspHeld, [kind |-> k, file |-> f])
  PROVE  /\ lspHeld' \in Seq(Held) /\ lspHeld' # <<>>
         /\ \A c, g : IsHeld(c, g)' <=> IsHeld(c, g) \/ (c = k /\ g = f)
         /\ \A c : AnyHeld(c)' <=> AnyHeld(c) \/ c = k
<1> DEFINE r == [kind |-> k, file |-> f]
<1>1. r \in Held /\ r.kind = k /\ r.file = f
  BY DEF Held
<1>2. /\ DOMAIN lspHeld = 1 .. Len(lspHeld) /\ Len(lspHeld) \in Nat
      /\ lspHeld' \in Seq(Held) /\ Len(lspHeld') = Len(lspHeld) + 1
      /\ DOMAIN lspHeld' = 1 .. Len(lspHeld) + 1
      /\ \A i \in 1 .. Len(lspHeld) : lspHeld'[i] = lspHeld[i]
      /\ lspHeld'[Len(lspHeld) + 1] = r
  BY <1>1
<1> HIDE DEF r
<1>3. lspHeld' # <<>>
  BY <1>2
<1>4. \A c, g : IsHeld(c, g)' <=> IsHeld(c, g) \/ (c = k /\ g = f)
  BY <1>1, <1>2 DEF IsHeld
<1>5. \A c : AnyHeld(c)' <=> AnyHeld(c) \/ c = k
  BY <1>1, <1>2 DEF AnyHeld
<1> QED  BY <1>2, <1>3, <1>4, <1>5

\* The first handler goes on.
LEMMA HeldLess ==
  ASSUME lspHeld \in Seq(Held), lspHeld # <<>>, lspHeld' = Tail(lspHeld)
  PROVE  /\ lspHeld' \in Seq(Held) /\ Head(lspHeld) \in Held
         /\ IsHeld(Head(lspHeld).kind, Head(lspHeld).file)
         /\ \A c, g : IsHeld(c, g)' => IsHeld(c, g)
         /\ \A c, g : IsHeld(c, g) => \/ IsHeld(c, g)'
                                      \/ c = Head(lspHeld).kind /\ g = Head(lspHeld).file
         /\ \A c : AnyHeld(c) => AnyHeld(c)' \/ c = Head(lspHeld).kind
<1>1. /\ DOMAIN lspHeld = 1 .. Len(lspHeld) /\ Len(lspHeld) \in Nat \ {0}
      /\ lspHeld' \in Seq(Held) /\ DOMAIN lspHeld' = 1 .. Len(lspHeld) - 1
      /\ \A i \in 1 .. Len(lspHeld) - 1 : lspHeld'[i] = lspHeld[i + 1]
      /\ Head(lspHeld) = lspHeld[1] /\ Head(lspHeld) \in Held
  OBVIOUS
<1>2. \A i \in 1 .. Len(lspHeld) : i = 1 \/ (i - 1 \in 1 .. Len(lspHeld) - 1 /\ lspHeld'[i - 1] = lspHeld[i])
  BY <1>1
<1>3. IsHeld(Head(lspHeld).kind, Head(lspHeld).file)
  BY <1>1 DEF IsHeld
<1>4. \A c, g : IsHeld(c, g)' => IsHeld(c, g)
  BY <1>1 DEF IsHeld
<1>5. \A c, g : IsHeld(c, g) => IsHeld(c, g)' \/ (c = Head(lspHeld).kind /\ g = Head(lspHeld).file)
  BY <1>1, <1>2 DEF IsHeld
<1>6. \A c : AnyHeld(c) => AnyHeld(c)' \/ c = Head(lspHeld).kind
  BY <1>1, <1>2 DEF AnyHeld
<1> QED  BY <1>1, <1>3, <1>4, <1>5, <1>6

\* A task more.
LEMMA TaskMore ==
  ASSUME NEW q \in Seq(LspTask), NEW k \in {"overlay", "reconcile", "full"},
         NEW f \in Files \cup {NoText}, NEW t \in Texts, k # "full" => f \in Files
  PROVE  /\ Append(q, E!Task(k, f, t)) \in Seq(LspTask)
         /\ DOMAIN q = 1 .. Len(q) /\ Len(q) \in Nat
         /\ DOMAIN Append(q, E!Task(k, f, t)) = 1 .. Len(q) + 1
         /\ \A i \in 1 .. Len(q) : Append(q, E!Task(k, f, t))[i] = q[i]
         /\ LET r == Append(q, E!Task(k, f, t))[Len(q) + 1]
            IN  r.kind = k /\ r.file = f /\ r.text = t /\ ~r.begun
<1>1. /\ E!Task(k, f, t) \in LspTask /\ E!Task(k, f, t).kind = k /\ E!Task(k, f, t).file = f
      /\ E!Task(k, f, t).text = t /\ ~E!Task(k, f, t).begun
  BY DEF E!Task, LspTask
<1> QED  BY <1>1

\* A task less.
LEMMA TaskLess ==
  ASSUME NEW q \in Seq(LspTask), q # <<>>
  PROVE  /\ Tail(q) \in Seq(LspTask) /\ Len(q) \in Nat \ {0} /\ DOMAIN q = 1 .. Len(q)
         /\ DOMAIN Tail(q) = 1 .. Len(q) - 1 /\ Len(Tail(q)) = Len(q) - 1
         /\ \A i \in 1 .. Len(q) - 1 : Tail(q)[i] = q[i + 1]
         /\ \A i \in 2 .. Len(q) : i - 1 \in 1 .. Len(q) - 1 /\ Tail(q)[i - 1] = q[i]
         /\ Head(q) = q[1] /\ q[1] \in LspTask
<1>1. /\ Tail(q) \in Seq(LspTask) /\ Len(q) \in Nat \ {0} /\ DOMAIN q = 1 .. Len(q)
      /\ DOMAIN Tail(q) = 1 .. Len(q) - 1 /\ Len(Tail(q)) = Len(q) - 1
      /\ \A i \in 1 .. Len(q) - 1 : Tail(q)[i] = q[i + 1]
      /\ Head(q) = q[1] /\ q[1] \in LspTask
  OBVIOUS
<1>2. \A i \in 2 .. Len(q) : i - 1 \in 1 .. Len(q) - 1 /\ Tail(q)[i - 1] = q[i]
  BY <1>1
<1> QED  BY <1>1, <1>2

\* The first task begins.
LEMMA TaskBegun ==
  ASSUME NEW q \in Seq(LspTask), q # <<>>
  PROVE  /\ [q EXCEPT ![1].begun = TRUE] \in Seq(LspTask)
         /\ DOMAIN q = 1 .. Len(q) /\ Len(q) \in Nat \ {0}
         /\ [q EXCEPT ![1].begun = TRUE] # <<>>
         /\ DOMAIN [q EXCEPT ![1].begun = TRUE] = 1 .. Len(q)
         /\ \A i \in 2 .. Len(q) : [q EXCEPT ![1].begun = TRUE][i] = q[i]
         /\ LET r == [q EXCEPT ![1].begun = TRUE][1]
            IN  r.kind = q[1].kind /\ r.file = q[1].file /\ r.text = q[1].text /\ r.begun
<1>1. DOMAIN q = 1 .. Len(q) /\ Len(q) \in Nat \ {0} /\ q[1] \in LspTask
  OBVIOUS
<1>2. [q[1] EXCEPT !.begun = TRUE] \in LspTask
  BY <1>1 DEF LspTask
<1> DEFINE p == [q EXCEPT ![1].begun = TRUE]
           e == [q[1] EXCEPT !.begun = TRUE]
<1>3. p = [q EXCEPT ![1] = e]
  OBVIOUS
<1>4. e.kind = q[1].kind /\ e.file = q[1].file /\ e.text = q[1].text /\ e.begun
  BY <1>1 DEF LspTask
<1> HIDE DEF e
<1>5. p \in Seq(LspTask) /\ Len(p) = Len(q) /\ \A j \in 1 .. Len(q) : p[j] = IF j = 1 THEN e ELSE q[j]
  <2>1. e \in LspTask
    BY <1>2 DEF e
  <2> HIDE DEF p
  <2> QED  BY <1>1, <1>3, <2>1, ExceptSeq
<1> HIDE DEF p
<1>6. DOMAIN p = 1 .. Len(q) /\ p # <<>>
  BY <1>1, <1>5
<1> QED  BY <1>1, <1>4, <1>5, <1>6 DEF p

-----------------------------------------------------------------------------
(* Types.                                                                  *)

LEMMA BufferFields ==
  ASSUME EditorConstants, EditorTyped, NEW f \in Files, E!IsOpen(f)
  PROVE  /\ lspBuffer[f].text \in E!Texts /\ lspBuffer[f].version \in Nat
         /\ lspBuffer[f].version <= lspEvents
BY DEF EditorTyped, TextsTyped, PassesTyped

LEMMA PassTyped ==
  ASSUME EditorConstants, EditorTyped, NEW f \in Files, E!IsOpen(f), NEW q \in Seq(LspTask),
         E!Pass(f, q), UNCHANGED <<lspBuffer, lspEvents>>
  PROVE  /\ PassesTyped' /\ lspTasks' \in Seq(LspTask)
         /\ lspLive' \in Shows /\ lspShown' \in Shows /\ lspMissed' \subseteq Files
<1>1. lspBuffer[f].text \in Texts /\ lspBuffer[f].version \in Nat /\ lspBuffer[f].version <= lspEvents
  BY BufferFields DEF Texts
<1>2. Append(q, E!Task("overlay", f, lspBuffer[f].text)) \in Seq(LspTask)
  BY <1>1, TaskMore
<1>3. lspTasks' \in Seq(LspTask)
  BY <1>2 DEF E!Pass
<1>4. lspLive' \in Shows /\ lspShown' \in Shows /\ lspMissed' \subseteq Files
  BY DEF E!Pass, E!Fast, EditorTyped, ShownTyped, Shows
<1>5. \E x \in [version : Nat, text : Texts, again : BOOLEAN] :
         lspPasses' = [lspPasses EXCEPT ![f] = x] /\ x.version <= lspEvents
  <2>1. /\ E!NoPass \in [version : Nat, text : Texts, again : BOOLEAN] /\ E!NoPass.version = 0
        /\ 0 <= lspEvents
    BY DEF E!NoPass, Texts, EditorTyped, PassesTyped
  <2>2. LET x == [version |-> lspBuffer[f].version, text |-> lspBuffer[f].text, again |-> FALSE]
        IN  x \in [version : Nat, text : Texts, again : BOOLEAN] /\ x.version <= lspEvents
    BY <1>1
  <2> QED  BY <2>1, <2>2 DEF E!Pass
<1>6. PassesTyped'
  BY <1>5 DEF EditorTyped, PassesTyped
<1> QED  BY <1>3, <1>4, <1>6

LEMMA ValidateTyped ==
  ASSUME EditorConstants, EditorTyped, NEW f \in Files \cup {NoText}, E!Validate(f)
  PROVE  lspTasks' \in Seq(LspTask) /\ ShownTyped'
<1>1. Append(lspTasks, E!Task("full", f, NoText)) \in Seq(LspTask)
  BY TaskMore DEF EditorTyped, WaitingTyped, Texts
<1>2. lspTasks' \in Seq(LspTask)
  BY <1>1 DEF E!Validate, EditorTyped, WaitingTyped
<1>3. ShownTyped'
  BY DEF E!Validate, EditorTyped, ShownTyped, Shows, EditorConstants
<1> QED  BY <1>2, <1>3

LEMMA TeardownTyped ==
  ASSUME EditorConstants, EditorTyped, LifeTyped, NEW b \in BOOLEAN, E!Teardown(b),
         UNCHANGED <<lspDisk, lspBuffer, lspEvents, lspRows, lspLive, lspGhosts, lspAlive, lspSetups, lspReady>>
  PROVE  TextsTyped' /\ PassesTyped' /\ ShownTyped' /\ LifeTyped' /\ lspTasks' \in Seq(LspTask)
<1>1. TextsTyped'
  BY DEF E!Teardown, EditorTyped, TextsTyped, E!IsOpen
<1>2. PassesTyped'
  <2>1. /\ E!NoPass \in [version : Nat, text : Texts, again : BOOLEAN] /\ E!NoPass.version = 0
        /\ 0 <= lspEvents
    BY DEF E!NoPass, Texts, EditorTyped, PassesTyped
  <2> QED  BY <2>1 DEF E!Teardown, EditorTyped, PassesTyped
<1>3. ShownTyped'
  BY DEF E!Teardown, E!Uncovered, EditorTyped, ShownTyped, TextsTyped, Shows
<1>4. LifeTyped'
  BY DEF E!Teardown, LifeTyped
<1>5. lspTasks' \in Seq(LspTask)
  BY DEF E!Teardown
<1> QED  BY <1>1, <1>2, <1>3, <1>4, <1>5

\* The language server's module counts as this one does.
LEMMA Counts == \A S : E!Cardinality(S) = Cardinality(S)
BY DEF E!Cardinality, Cardinality

\* The compiler to be set up is none of those that are up.
LEMMA NextCompiler ==
  ASSUME LifeTyped
  PROVE  E!Min((1 .. E!Cardinality(lspAlive) + 1) \ lspAlive) \in Nat \ ({0} \cup lspAlive)
<1> DEFINE n == Cardinality(lspAlive)
           S == (1 .. n + 1) \ lspAlive
<1>1. n \in Nat
  BY FS_CardinalityType DEF LifeTyped
<1>2. S # {}
  <2> SUFFICES ASSUME 1 .. n + 1 \subseteq lspAlive PROVE FALSE
    OBVIOUS
  <2>1. Cardinality(1 .. n + 1) <= n
    BY FS_Subset DEF LifeTyped
  <2>2. Cardinality(1 .. n + 1) = n + 1
    <3>1. 1 \in Int /\ n + 1 \in Int /\ ~(1 > n + 1) /\ n + 1 - 1 + 1 = n + 1
      BY <1>1
    <3> HIDE DEF n
    <3> QED  BY <3>1, FS_Interval
  <2> HIDE DEF n
  <2> QED  BY <2>1, <2>2, <1>1
<1>3. \E x \in S : \A y \in S : x <= y
  <2>1. S \subseteq Nat
    BY <1>1
  <2> HIDE DEF S
  <2> DEFINE R == {ss \in Nat \X Nat : ss[1] < ss[2]}
  <2>2. IsWellFoundedOn(R, Nat)
    BY NatLessThanWellFounded DEF OpToRel
  <2>3. \A x, y \in Nat : y < x => <<y, x>> \in R
    OBVIOUS
  <2> HIDE DEF R
  <2>4. \E x \in S : \A y \in S : ~(<<y, x>> \in R)
    BY <2>1, <2>2, <1>2, WFMin
  <2>5. PICK x \in S : \A y \in S : ~(<<y, x>> \in R)
    BY <2>4
  <2>6. \A y \in S : x <= y
    <3> SUFFICES ASSUME NEW y \in S PROVE x <= y
      OBVIOUS
    <3>1. x \in Nat /\ y \in Nat /\ ~(y < x)
      BY <2>1, <2>3, <2>5
    <3> QED  BY <3>1
  <2> QED  BY <2>6
<1>4. E!Min(S) \in S
  BY <1>3 DEF E!Min
<1>5. S = (1 .. E!Cardinality(lspAlive) + 1) \ lspAlive
  BY Counts
<1> QED  BY <1>1, <1>4, <1>5

LEMMA EditorTypes ==
  ASSUME EditorConstants, EditorTyped, LifeTyped, E!Next
  PROVE  EditorTyped' /\ LifeTyped'
<1> USE DEF EditorTyped
<1>1. ASSUME NEW f \in Files, NEW t \in E!Texts, E!Typed(f, t)
      PROVE  EditorTyped' /\ LifeTyped'
  <2>1. TextsTyped'
    BY <1>1 DEF E!Typed, E!Event, TextsTyped, Texts, E!IsOpen, PassesTyped, E!Closed, EditorConstants
  <2>2. PassesTyped'
    BY <1>1 DEF E!Typed, E!Event, TextsTyped, PassesTyped
  <2> QED  BY <1>1, <2>1, <2>2 DEF E!Typed, ShownTyped, WaitingTyped, E!life, LifeTyped
<1>2. ASSUME NEW f \in Files, E!Save(f)
      PROVE  EditorTyped' /\ LifeTyped'
  <2>1. TextsTyped' /\ PassesTyped'
    BY <1>2 DEF E!Save, E!Event, TextsTyped, Texts, E!IsOpen, PassesTyped
  <2>2. lspHeld' \in Seq(Held)
    BY <1>2, HeldMore DEF E!Save, E!Hold, WaitingTyped, Kinds
  <2> QED  BY <1>2, <2>1, <2>2 DEF E!Save, ShownTyped, WaitingTyped, E!life, LifeTyped
<1>3. ASSUME NEW f \in Files, E!Close(f)
      PROVE  EditorTyped' /\ LifeTyped'
  <2>1. TextsTyped' /\ PassesTyped'
    BY <1>3 DEF E!Close, E!Event, E!Closed, TextsTyped, Texts, E!IsOpen, PassesTyped
  <2>2. lspHeld' \in Seq(Held)
    BY <1>3, HeldMore DEF E!Close, E!Hold, WaitingTyped, Kinds
  <2>3. ShownTyped'
    BY <1>3 DEF E!Close, ShownTyped, Shows
  <2> QED  BY <1>3, <2>1, <2>2, <2>3 DEF E!Close, WaitingTyped, E!life, LifeTyped
<1>4. ASSUME NEW f \in Files, NEW t \in Texts, E!ChangeOutside(f, t)
      PROVE  EditorTyped' /\ LifeTyped'
  <2>1. TextsTyped' /\ PassesTyped'
    BY <1>4 DEF E!ChangeOutside, E!Event, TextsTyped, E!IsOpen, PassesTyped
  <2>2. lspHeld' \in Seq(Held)
    BY <1>4, HeldMore DEF E!ChangeOutside, E!Hold, WaitingTyped, Kinds
  <2> QED  BY <1>4, <2>1, <2>2 DEF E!ChangeOutside, ShownTyped, WaitingTyped, E!life, LifeTyped
<1>5. ASSUME E!ChangeConfig
      PROVE  EditorTyped' /\ LifeTyped'
  <2>1. TextsTyped' /\ PassesTyped'
    BY <1>5 DEF E!ChangeConfig, E!Event, TextsTyped, E!IsOpen, PassesTyped
  <2>2. lspHeld' \in Seq(Held)
    BY <1>5, HeldMore DEF E!ChangeConfig, E!Hold, WaitingTyped, Kinds
  <2> QED  BY <1>5, <2>1, <2>2 DEF E!ChangeConfig, ShownTyped, WaitingTyped, LifeTyped
<1>6. ASSUME NEW f \in Files, E!LiveTimer(f)
      PROVE  EditorTyped' /\ LifeTyped'
  <2>1. TextsTyped' /\ PassesTyped'
    BY <1>6 DEF E!LiveTimer, TextsTyped, E!editor, E!IsOpen, PassesTyped
  <2>2. lspHeld' \in Seq(Held)
    BY <1>6, HeldMore DEF E!LiveTimer, E!Hold, WaitingTyped, Kinds
  <2> QED  BY <1>6, <2>1, <2>2 DEF E!LiveTimer, ShownTyped, WaitingTyped, E!life, LifeTyped
<1>7. ASSUME E!Handle
      PROVE  EditorTyped' /\ LifeTyped'
  <2> DEFINE h == Head(lspHeld)
  <2>1. /\ lspHeld' \in Seq(Held) /\ h \in Held
        /\ UNCHANGED <<E!editor, E!life>>
    BY <1>7, HeldLess DEF E!Handle, WaitingTyped
  <2>2. h.kind \in Kinds /\ h.file \in Files \cup {NoText} /\ (h.kind # "config" => h.file \in Files)
    BY <2>1 DEF Held
  <2>3. LifeTyped'
    BY <2>1 DEF E!life, LifeTyped
  <2>4. CASE h.kind = "live"
    <3>1. E!LiveValidate(h.file) /\ h.file \in Files
      BY <1>7, <2>2, <2>4 DEF E!Handle
    <3>2. CASE E!IsOpen(h.file) /\ lspPasses[h.file] = E!NoPass
      <4>1. E!Pass(h.file, lspTasks) /\ UNCHANGED <<lspTimers, lspRows, lspPiped, lspWatch, lspGhosts>>
        BY <3>1, <3>2 DEF E!LiveValidate
      <4>2. /\ PassesTyped' /\ lspTasks' \in Seq(LspTask)
            /\ lspLive' \in Shows /\ lspShown' \in Shows /\ lspMissed' \subseteq Files
        BY <2>1, <3>1, <3>2, <4>1, PassTyped DEF E!editor, WaitingTyped
      <4> QED  BY <2>1, <2>3, <4>1, <4>2 DEF E!editor, TextsTyped, E!IsOpen, ShownTyped, WaitingTyped
    <3>3. CASE ~(E!IsOpen(h.file) /\ lspPasses[h.file] = E!NoPass)
      <4>1. /\ UNCHANGED <<lspTimers, lspRows, lspPiped, lspWatch, lspGhosts, lspTasks, lspLive, lspShown, lspMissed>>
            /\ lspPasses' = lspPasses \/ lspPasses' = [lspPasses EXCEPT ![h.file].again = TRUE]
        BY <3>1, <3>3 DEF E!LiveValidate
      <4>2. PassesTyped'
        <5>1. lspPasses[h.file] \in [version : Nat, text : Texts, again : BOOLEAN]
          BY <3>1 DEF PassesTyped
        <5>2. LET x == [lspPasses[h.file] EXCEPT !.again = TRUE]
              IN  x \in [version : Nat, text : Texts, again : BOOLEAN] /\ x.version = lspPasses[h.file].version
          BY <5>1
        <5> QED  BY <2>1, <3>1, <4>1, <5>2 DEF E!editor, PassesTyped
      <4> QED  BY <2>1, <2>3, <4>1, <4>2 DEF E!editor, TextsTyped, E!IsOpen, ShownTyped, WaitingTyped
    <3> QED  BY <3>2, <3>3
  <2>5. CASE h.kind = "close"
    <3>1. E!Reconcile(h.file) /\ h.file \in Files
      BY <1>7, <2>2, <2>5 DEF E!Handle
    <3>2. UNCHANGED <<lspWatch, lspTimers, lspPasses, lspLive, lspShown, lspPiped, lspMissed>>
      BY <3>1 DEF E!Reconcile
    <3>3. lspRows' \in [Files -> Texts] /\ lspGhosts' \subseteq Files
      BY <3>1 DEF E!Reconcile, TextsTyped, ShownTyped, Texts
    <3>4. Append(lspTasks, E!Task("reconcile", h.file, lspDisk[h.file])) \in Seq(LspTask)
      BY <3>1, TaskMore DEF WaitingTyped, TextsTyped
    <3>5. lspTasks' \in Seq(LspTask)
      BY <3>1, <3>4 DEF E!Reconcile, WaitingTyped
    <3> QED  BY <2>1, <2>3, <3>2, <3>3, <3>5 DEF E!editor, TextsTyped, E!IsOpen, PassesTyped, ShownTyped, WaitingTyped
  <2>6. CASE h.kind = "save"
    <3>1. E!Validate(h.file) /\ lspTimers' = lspTimers \ {h.file} /\ UNCHANGED lspWatch
      BY <1>7, <2>6 DEF E!Handle
    <3>2. lspTasks' \in Seq(LspTask) /\ ShownTyped' /\ UNCHANGED <<lspPasses, lspRows>>
      BY <2>2, <3>1, ValidateTyped DEF E!Validate
    <3> QED  BY <2>1, <2>3, <3>1, <3>2 DEF E!editor, TextsTyped, E!IsOpen, PassesTyped, WaitingTyped
  <2>7. CASE h.kind = "watch" \/ h.kind = "config"
    <3>1. UNCHANGED <<lspTimers, lspPasses, lspTasks, lspRows, lspLive, lspShown, lspPiped, lspGhosts>>
      BY <1>7, <2>7 DEF E!Handle
    <3>2. \/ lspMissed' = lspMissed \cup {f \in Files : E!IsOpen(f)} /\ lspWatch' = lspWatch
          \/ lspMissed' = lspMissed /\ lspWatch' = [lspWatch EXCEPT !.timer = TRUE]
          \/ lspMissed' = lspMissed /\ lspWatch' = [timer |-> TRUE, restart |-> TRUE]
      BY <1>7, <2>7 DEF E!Handle
    <3>3. lspMissed' \subseteq Files
      BY <3>2 DEF ShownTyped
    <3>4. lspWatch' \in [timer : BOOLEAN, restart : BOOLEAN] /\ (lspWatch'.restart => lspWatch'.timer)
      <4> DEFINE x == [lspWatch EXCEPT !.timer = TRUE]
                 y == [timer |-> TRUE, restart |-> TRUE]
      <4>1. /\ x \in [timer : BOOLEAN, restart : BOOLEAN] /\ x.timer
            /\ y \in [timer : BOOLEAN, restart : BOOLEAN] /\ y.timer
        BY DEF WaitingTyped
      <4>2. lspWatch' = x \/ lspWatch' = y \/ lspWatch' = lspWatch
        BY <3>2
      <4> HIDE DEF x, y
      <4> QED  BY <4>1, <4>2 DEF WaitingTyped
    <3> QED  BY <2>1, <2>3, <3>1, <3>3, <3>4 DEF E!editor, TextsTyped, E!IsOpen, PassesTyped, ShownTyped, WaitingTyped
  <2> QED  BY <2>2, <2>4, <2>5, <2>6, <2>7 DEF Kinds
<1>8. ASSUME E!Begin
      PROVE  EditorTyped' /\ LifeTyped'
  <2>1. [lspTasks EXCEPT ![1].begun = TRUE] \in Seq(LspTask) /\ Head(lspTasks) \in LspTask
    BY <1>8, TaskBegun, TaskLess DEF E!Begin, WaitingTyped
  <2>2. TextsTyped' /\ PassesTyped'
    BY <1>8, <2>1 DEF E!Begin, E!editor, LspTask, TextsTyped, PassesTyped, E!IsOpen
  <2>3. ShownTyped'
    BY <1>8 DEF E!Begin, E!Uncovered, ShownTyped, Shows
  <2> QED  BY <1>8, <2>1, <2>2, <2>3 DEF E!Begin, E!life, WaitingTyped, LifeTyped
<1>9. ASSUME E!End
      PROVE  EditorTyped' /\ LifeTyped'
  <2> DEFINE k == Head(lspTasks)
  <2>1. Tail(lspTasks) \in Seq(LspTask) /\ k \in LspTask
    BY <1>9, TaskLess DEF E!End, WaitingTyped
  <2>2. /\ k.kind \in {"overlay", "reconcile", "full"}
        /\ UNCHANGED <<E!editor, lspTimers, lspHeld, lspRows, lspWatch, lspGhosts>>
    BY <1>9, <2>1 DEF E!End, LspTask
  <2>3. TextsTyped'
    BY <2>2 DEF E!editor, TextsTyped, E!IsOpen
  <2>4. LifeTyped'
    BY <1>9 DEF E!End, LifeTyped
  <2>5. PassesTyped' /\ ShownTyped' /\ lspTasks' \in Seq(LspTask)
    <3>1. CASE k.kind = "overlay" /\ k.file \in Files /\ lspPasses[k.file].again /\ E!IsOpen(k.file)
      <4>1. E!Pass(k.file, Tail(lspTasks)) /\ UNCHANGED lspPiped
        BY <1>9, <3>1 DEF E!End, E!OverlayEnds
      <4> QED  BY <2>1, <2>2, <3>1, <4>1, PassTyped DEF E!editor, ShownTyped
    <3>2. CASE k.kind = "overlay" /\ k.file \in Files /\ ~(lspPasses[k.file].again /\ E!IsOpen(k.file))
      <4>1. /\ lspPasses' = [lspPasses EXCEPT ![k.file] = E!NoPass]
            /\ lspTasks' = Tail(lspTasks) /\ UNCHANGED lspPiped
            /\ \/ /\ lspLive' = [lspLive EXCEPT ![k.file] = E!Overlay(lspPasses[k.file].text)]
                  /\ lspShown' = [lspShown EXCEPT ![k.file] = E!Overlay(lspPasses[k.file].text)]
                  /\ lspMissed' \subseteq Files
               \/ UNCHANGED <<lspLive, lspShown, lspMissed>>
        BY <1>9, <3>2 DEF E!End, E!OverlayEnds, ShownTyped
      <4>2. /\ E!NoPass \in [version : Nat, text : Texts, again : BOOLEAN] /\ E!NoPass.version = 0
            /\ 0 <= lspEvents
        BY DEF E!NoPass, Texts, PassesTyped
      <4>3. PassesTyped'
        BY <2>2, <3>2, <4>1, <4>2 DEF E!editor, PassesTyped
      <4>4. ShownTyped'
        BY <2>2, <4>1 DEF ShownTyped, Shows, E!Overlay
      <4> QED  BY <2>1, <4>1, <4>3, <4>4
    <3>3. k.kind = "overlay" => k.file \in Files
      BY <2>1 DEF LspTask
    <3>4. CASE k.kind = "reconcile"
      <4> QED  BY <1>9, <2>1, <2>2, <3>4 DEF E!End, E!editor, PassesTyped, ShownTyped
    <3>5. CASE k.kind = "full"
      <4>1. ShownTyped'
        <5>1. \A f \in Files : E!Reported(f) \subseteq {"bad", "torn"}
          BY DEF E!Reported, E!Errors, E!Fast, E!Overlay
        <5>2. /\ \A f \in Files : lspShown'[f] = lspLive[f] \cup E!Reported(f) \/ lspShown'[f] = lspShown[f]
              /\ lspShown' = [f \in Files |-> lspShown'[f]] /\ lspPiped' \subseteq Files
              /\ UNCHANGED <<lspLive, lspMissed>>
          BY <1>9, <3>5, Zenon DEF E!End
        <5> QED  BY <5>1, <5>2, <2>2 DEF ShownTyped, Shows
      <4> QED  BY <1>9, <2>1, <2>2, <3>5, <4>1 DEF E!End, E!editor, PassesTyped
    <3> QED  BY <2>2, <3>1, <3>2, <3>3, <3>4, <3>5
  <2> QED  BY <2>2, <2>3, <2>4, <2>5 DEF WaitingTyped
<1>10. ASSUME E!WatchTimer
       PROVE  EditorTyped' /\ LifeTyped'
  <2>1. /\ lspWatch' \in [timer : BOOLEAN, restart : BOOLEAN] /\ (lspWatch'.restart => lspWatch'.timer)
        /\ UNCHANGED <<lspHeld, E!editor>>
    BY <1>10 DEF E!WatchTimer
  <2>2. CASE lspWatch.restart
    <3>1. TextsTyped' /\ PassesTyped' /\ ShownTyped' /\ LifeTyped' /\ lspTasks' \in Seq(LspTask)
      BY <1>10, <2>2, TeardownTyped DEF E!WatchTimer, E!editor
    <3> QED  BY <2>1, <3>1 DEF WaitingTyped
  <2>3. CASE ~lspWatch.restart
    <3>1. /\ lspTasks' \in Seq(LspTask) /\ ShownTyped' /\ UNCHANGED <<lspPasses, lspRows, lspTimers, E!life>>
      BY <1>10, <2>3, ValidateTyped DEF E!WatchTimer, E!Validate
    <3>2. TextsTyped' /\ PassesTyped' /\ LifeTyped'
      BY <2>1, <3>1 DEF E!editor, TextsTyped, E!IsOpen, PassesTyped, E!life, LifeTyped
    <3> QED  BY <2>1, <3>1, <3>2 DEF WaitingTyped
  <2> QED  BY <2>2, <2>3
<1>11. ASSUME E!Shutdown
       PROVE  EditorTyped' /\ LifeTyped'
  <2>1. TextsTyped' /\ PassesTyped' /\ ShownTyped' /\ LifeTyped' /\ lspTasks' \in Seq(LspTask)
    BY <1>11, TeardownTyped DEF E!Shutdown, E!editor
  <2> QED  BY <1>11, <2>1 DEF E!Shutdown, WaitingTyped
<1>12. ASSUME NEW t \in lspTeardowns, E!TornDown(t)
       PROVE  EditorTyped' /\ LifeTyped'
  <2> DEFINE g == E!Min((1 .. E!Cardinality(lspAlive) + 1) \ lspAlive)
  <2>1. g \in Nat \ ({0} \cup lspAlive)
    BY NextCompiler
  <2> HIDE DEF g
  <2>2. LifeTyped'
    <3>1. CASE t.final
      <4>1. /\ lspAlive' = lspAlive \ {t.of} /\ lspTeardowns' = lspTeardowns \ {t}
            /\ UNCHANGED <<lspSetups, lspReady, lspCompiler, lspCrossed>>
        BY <1>12, <3>1 DEF E!TornDown, E!CloseCompiler
      <4>2. IsFiniteSet(lspAlive')
        BY <4>1, FS_Subset DEF LifeTyped
      <4> QED  BY <4>1, <4>2 DEF LifeTyped
    <3>2. CASE ~t.final
      <4>1. /\ lspAlive' = (lspAlive \ {t.of}) \cup {g} /\ lspTeardowns' = lspTeardowns \ {t}
            /\ lspSetups' = lspSetups \cup {g} /\ lspReady' = FALSE
            /\ UNCHANGED <<lspCompiler, lspCrossed>>
        BY <1>12, <3>2 DEF E!TornDown, E!CloseCompiler, g
      <4>2. IsFiniteSet(lspAlive')
        BY <4>1, FS_Subset, FS_AddElement DEF LifeTyped
      <4> QED  BY <2>1, <4>1, <4>2 DEF LifeTyped
    <3> QED  BY <3>1, <3>2
  <2> QED  BY <1>12, <2>2 DEF E!TornDown, E!editor, E!lsp, TextsTyped, PassesTyped, E!IsOpen, ShownTyped, WaitingTyped
<1>13. ASSUME NEW g \in lspSetups, E!SetUp(g)
       PROVE  EditorTyped' /\ LifeTyped'
  <2>1. Append(lspTasks, E!Task("full", NoText, NoText)) \in Seq(LspTask)
    BY TaskMore DEF WaitingTyped, Texts
  <2>2. LifeTyped'
    BY <1>13 DEF E!SetUp, LifeTyped
  <2> QED  BY <1>13, <2>1, <2>2 DEF E!SetUp, E!editor, TextsTyped, PassesTyped, E!IsOpen, ShownTyped, WaitingTyped
<1>14. ASSUME NEW g \in lspSetups, E!SetUpFails(g)
       PROVE  EditorTyped' /\ LifeTyped'
  <2>1. IsFiniteSet(lspAlive')
    BY <1>14, FS_Subset DEF E!SetUpFails, LifeTyped
  <2>2. LifeTyped'
    BY <1>14, <2>1 DEF E!SetUpFails, LifeTyped
  <2> QED  BY <1>14, <2>2 DEF E!SetUpFails, E!editor, E!lsp, TextsTyped, PassesTyped, E!IsOpen, ShownTyped, WaitingTyped
<1>15. \A f \in Files : E!Open(f) => \E t \in E!Texts : E!Typed(f, t)
  BY DEF E!Open, E!Texts, TextsTyped, Texts
<1>16. \A f \in Files : \A t \in E!Texts : E!Edit(f, t) => E!Typed(f, t)
  BY DEF E!Edit
<1> QED  BY <1>1, <1>2, <1>3, <1>4, <1>5, <1>6, <1>7, <1>8, <1>9, <1>10, <1>11, <1>12, <1>13, <1>14, <1>15, <1>16 DEF E!Next, Texts

-----------------------------------------------------------------------------
(* The steps, case by case.                                                *)

TextsStay == UNCHANGED <<lspDisk, lspBuffer, lspEvents>>
LifeStays == UNCHANGED <<lspCompiler, lspAlive, lspTeardowns, lspSetups, lspReady, lspCrossed>>

\* The handlers that go on.
Took(kind, f) ==
  /\ lspReady /\ lspHeld # <<>> /\ lspHeld' = Tail(lspHeld)
  /\ Head(lspHeld).kind = kind /\ Head(lspHeld).file = f
  /\ TextsStay /\ LifeStays

LiveAgain(f) ==
  /\ Took("live", f) /\ E!IsOpen(f) /\ lspPasses[f] # E!NoPass
  /\ lspPasses' = [lspPasses EXCEPT ![f].again = TRUE]
  /\ UNCHANGED <<lspTimers, lspTasks, lspRows, lspLive, lspShown, lspPiped, lspWatch, lspMissed, lspGhosts>>

LivePass(f) ==
  /\ Took("live", f) /\ E!IsOpen(f) /\ lspPasses[f] = E!NoPass /\ E!Pass(f, lspTasks)
  /\ UNCHANGED <<lspTimers, lspRows, lspPiped, lspWatch, lspGhosts>>

LiveGone(f) ==
  /\ Took("live", f) /\ ~E!IsOpen(f)
  /\ UNCHANGED <<lspTimers, lspPasses, lspTasks, lspRows, lspLive, lspShown, lspPiped, lspWatch, lspMissed,
                 lspGhosts>>

CloseHeard(f) == Took("close", f) /\ E!Reconcile(f)

SaveHeard(f) ==
  /\ Took("save", f) /\ E!Validate(f)
  /\ lspTimers' = lspTimers \ {f} /\ UNCHANGED lspWatch

WatchPassed(f) ==
  /\ Took("watch", f) /\ E!IsOpen(f) /\ lspMissed' = lspMissed \cup {g \in Files : E!IsOpen(g)}
  /\ UNCHANGED <<lspTimers, lspPasses, lspTasks, lspRows, lspLive, lspShown, lspPiped, lspWatch, lspGhosts>>

WatchHeard(kind, f) ==
  /\ Took(kind, f) /\ kind \in {"watch", "config"} /\ lspWatch'.timer
  /\ UNCHANGED <<lspTimers, lspPasses, lspTasks, lspRows, lspLive, lspShown, lspPiped, lspMissed, lspGhosts>>

\* The tasks that begin.
Begun ==
  /\ E!Free /\ lspTasks # <<>> /\ ~lspTasks[1].begun /\ lspTasks' = [lspTasks EXCEPT ![1].begun = TRUE]
  /\ TextsStay /\ LifeStays
  /\ UNCHANGED <<lspTimers, lspPasses, lspHeld, lspLive, lspWatch, lspMissed, lspGhosts>>

RunBegins == Begun /\ lspTasks[1].kind = "full" /\ lspRows' = lspDisk /\ lspShown' = E!Uncovered /\ lspPiped' = {}

RowsBegin(f) ==
  /\ Begun /\ lspTasks[1].kind # "full" /\ lspTasks[1].file = f
  /\ lspRows' = [lspRows EXCEPT ![f] = lspTasks[1].text] /\ UNCHANGED <<lspShown, lspPiped>>

\* The tasks that end.
Ended ==
  /\ E!Free /\ lspTasks # <<>> /\ lspTasks[1].begun
  /\ TextsStay /\ UNCHANGED <<lspTimers, lspHeld, lspRows, lspWatch, lspGhosts>>
  /\ UNCHANGED <<lspCompiler, lspAlive, lspTeardowns, lspSetups, lspCrossed>>
  /\ lspReady' = (lspReady \/ lspTasks[1].kind = "full")

PassAgain(f) ==
  /\ Ended /\ LaidOver(lspTasks, 1, f) /\ lspPasses[f].again /\ E!IsOpen(f)
  /\ E!Pass(f, Tail(lspTasks)) /\ UNCHANGED lspPiped

PassEnds(f) ==
  /\ Ended /\ LaidOver(lspTasks, 1, f) /\ ~(lspPasses[f].again /\ E!IsOpen(f)) /\ lspTasks' = Tail(lspTasks)
  /\ lspPasses' = [lspPasses EXCEPT ![f] = E!NoPass] /\ UNCHANGED lspPiped
  /\ IF E!Current(f)
     THEN /\ lspLive' = [lspLive EXCEPT ![f] = E!Overlay(lspPasses[f].text)]
          /\ lspShown' = [lspShown EXCEPT ![f] = E!Overlay(lspPasses[f].text)]
          /\ lspMissed' = IF E!Reopened(f) THEN lspMissed \cup {f} ELSE lspMissed
     ELSE UNCHANGED <<lspLive, lspShown, lspMissed>>

ReconcileEnds ==
  /\ Ended /\ lspTasks[1].kind = "reconcile" /\ lspTasks' = Tail(lspTasks)
  /\ UNCHANGED <<lspPasses, lspLive, lspShown, lspPiped, lspMissed>>

RunEnds ==
  /\ Ended /\ lspTasks[1].kind = "full" /\ lspTasks' = Tail(lspTasks)
  /\ lspPiped' = {f \in Files : E!Reported(f) # {}}
  /\ lspShown' = [f \in Files |-> IF f \in lspPiped' THEN lspLive[f] \cup E!Reported(f) ELSE lspShown[f]]
  /\ UNCHANGED <<lspPasses, lspLive, lspMissed>>

\* The timer, and shutting down.
RunAsked ==
  /\ E!Free /\ lspWatch.timer /\ E!Validate(NoText)
  /\ TextsStay /\ LifeStays /\ UNCHANGED <<lspTimers, lspHeld>>

GoesDown ==
  /\ E!Free /\ \E b \in BOOLEAN : E!Teardown(b)
  /\ TextsStay /\ UNCHANGED <<lspHeld, lspRows, lspLive, lspGhosts, lspAlive, lspSetups, lspReady>>

\* What happens to files and documents.
FileStep(f) ==
  \/ \E t \in E!Texts : E!Typed(f, t)
  \/ E!Save(f) \/ E!Close(f) \/ E!LiveTimer(f)
  \/ \E t \in Texts : E!ChangeOutside(f, t)

HeldStep(f) ==
  \/ LiveAgain(f) \/ LivePass(f) \/ LiveGone(f) \/ CloseHeard(f) \/ SaveHeard(f) \/ WatchPassed(f)
  \/ WatchHeard("watch", f) /\ ~E!IsOpen(f)

TaskStep(f) == RowsBegin(f) \/ PassAgain(f) \/ PassEnds(f)

LifeStep ==
  \/ RunAsked \/ GoesDown
  \/ (\E t \in lspTeardowns : E!TornDown(t)) \/ (\E g \in lspSetups : E!SetUp(g) \/ E!SetUpFails(g))

LEMMA EditorSteps ==
  ASSUME EditorConstants, EditorTyped, LifeTyped, E!Next
  PROVE  \/ \E f \in Files : FileStep(f) \/ HeldStep(f) \/ TaskStep(f)
         \/ \E f \in Files \cup {NoText} : WatchHeard("config", f)
         \/ E!ChangeConfig \/ RunBegins \/ ReconcileEnds \/ RunEnds
         \/ LifeStep
<1> USE DEF EditorTyped
<1>1. ASSUME NEW f \in Files, E!Open(f) PROVE FileStep(f)
  BY <1>1 DEF E!Open, E!Texts, TextsTyped, Texts, FileStep
<1>2. ASSUME NEW f \in Files, NEW t \in E!Texts, E!Edit(f, t) PROVE FileStep(f)
  BY <1>2 DEF E!Edit, FileStep
<1>3. ASSUME E!Handle
      PROVE  (\E f \in Files : HeldStep(f)) \/ \E f \in Files \cup {NoText} : WatchHeard("config", f)
  <2> DEFINE h == Head(lspHeld)
  <2>1. h.kind \in Kinds /\ h.file \in Files \cup {NoText} /\ (h.kind # "config" => h.file \in Files)
    BY <1>3, HeldLess DEF E!Handle, WaitingTyped, Held
  <2>2. Took(h.kind, h.file)
    BY <1>3 DEF E!Handle, Took, TextsStay, LifeStays, E!editor, E!life
  <2>3. CASE h.kind = "live"
    BY <1>3, <2>1, <2>2, <2>3 DEF E!Handle, E!LiveValidate, HeldStep, LiveAgain, LivePass, LiveGone
  <2>4. CASE h.kind = "close"
    BY <1>3, <2>1, <2>2, <2>4 DEF E!Handle, HeldStep, CloseHeard
  <2>5. CASE h.kind = "save"
    BY <1>3, <2>1, <2>2, <2>5 DEF E!Handle, HeldStep, SaveHeard
  <2>6. CASE h.kind = "watch"
    <3>1. CASE E!IsOpen(h.file)
      BY <1>3, <2>1, <2>2, <2>6, <3>1 DEF E!Handle, HeldStep, WatchPassed
    <3>2. CASE ~E!IsOpen(h.file)
      <4>1. [lspWatch EXCEPT !.timer = TRUE].timer
        BY DEF WaitingTyped
      <4>2. /\ lspWatch' = [lspWatch EXCEPT !.timer = TRUE]
            /\ UNCHANGED <<lspTimers, lspPasses, lspTasks, lspRows, lspLive, lspShown, lspPiped, lspMissed, lspGhosts>>
        BY <1>3, <2>6, <3>2 DEF E!Handle
      <4>3. lspWatch'.timer
        BY <4>1, <4>2
      <4> QED  BY <2>1, <2>2, <2>6, <3>2, <4>2, <4>3 DEF HeldStep, WatchHeard
    <3> QED  BY <3>1, <3>2
  <2>7. CASE h.kind = "config"
    <3>1. /\ lspWatch' = [timer |-> TRUE, restart |-> TRUE]
          /\ UNCHANGED <<lspTimers, lspPasses, lspTasks, lspRows, lspLive, lspShown, lspPiped, lspMissed, lspGhosts>>
      BY <1>3, <2>7 DEF E!Handle
    <3> QED  BY <2>1, <2>2, <2>7, <3>1 DEF HeldStep, WatchHeard
  <2> QED  BY <2>1, <2>3, <2>4, <2>5, <2>6, <2>7 DEF Kinds
<1>4. ASSUME E!Begin
      PROVE  RunBegins \/ \E f \in Files : TaskStep(f)
  <2>1. Head(lspTasks) = lspTasks[1] /\ lspTasks[1] \in LspTask
    BY <1>4, TaskLess DEF E!Begin, WaitingTyped
  <2>2. Begun
    BY <1>4, <2>1 DEF E!Begin, Begun, TextsStay, LifeStays, E!editor, E!life
  <2> QED  BY <1>4, <2>1, <2>2 DEF E!Begin, RunBegins, TaskStep, RowsBegin, LspTask
<1>5. ASSUME E!End
      PROVE  ReconcileEnds \/ RunEnds \/ \E f \in Files : TaskStep(f)
  <2>1. Head(lspTasks) = lspTasks[1] /\ lspTasks[1] \in LspTask
    BY <1>5, TaskLess DEF E!End, WaitingTyped
  <2>2. Ended
    BY <1>5, <2>1 DEF E!End, Ended, TextsStay, E!editor
  <2>3. CASE lspTasks[1].kind = "overlay"
    <3>1. /\ E!OverlayEnds(lspTasks[1].file, Tail(lspTasks)) /\ UNCHANGED lspPiped
          /\ lspTasks[1].file \in Files
      BY <1>5, <2>1, <2>3 DEF E!End, LspTask
    <3> QED  BY <2>2, <2>3, <3>1 DEF E!OverlayEnds, TaskStep, PassAgain, PassEnds, LaidOver
  <2>4. CASE lspTasks[1].kind = "reconcile"
    BY <1>5, <2>1, <2>2, <2>4 DEF E!End, ReconcileEnds
  <2>5. CASE lspTasks[1].kind = "full"
    BY <1>5, <2>1, <2>2, <2>5, Zenon DEF E!End, RunEnds
  <2> QED  BY <2>1, <2>3, <2>4, <2>5 DEF LspTask
<1>6. ASSUME E!WatchTimer PROVE LifeStep
  BY <1>6 DEF E!WatchTimer, LifeStep, RunAsked, GoesDown, TextsStay, LifeStays, E!editor, E!life
<1>7. ASSUME E!Shutdown PROVE LifeStep
  BY <1>7 DEF E!Shutdown, LifeStep, GoesDown, TextsStay, E!editor
<1> QED  BY <1>1, <1>2, <1>3, <1>4, <1>5, <1>6, <1>7 DEF E!Next, FileStep, LifeStep, Texts

-----------------------------------------------------------------------------
(* The lock's queue.                                                       *)

LEMMA QueueMore ==
  ASSUME NEW q \in Seq(LspTask), NEW p, Queue(q, p),
         NEW k \in {"reconcile", "full"}, NEW f \in Files \cup {NoText}, NEW t \in Texts, k # "full" => f \in Files
  PROVE  Queue(Append(q, E!Task(k, f, t)), p)
<1> DEFINE r == Append(q, E!Task(k, f, t))
<1>1. /\ DOMAIN q = 1 .. Len(q) /\ Len(q) \in Nat /\ DOMAIN r = 1 .. Len(q) + 1
      /\ \A i \in 1 .. Len(q) : r[i] = q[i]
      /\ r[Len(q) + 1].kind = k /\ ~r[Len(q) + 1].begun
  BY TaskMore
<1> HIDE DEF r
<1>2. \A g : \A i \in DOMAIN r : LaidOver(r, i, g) <=> i \in DOMAIN q /\ LaidOver(q, i, g)
  BY <1>1 DEF LaidOver
<1>3. \A i \in DOMAIN q : i \in DOMAIN r /\ r[i] = q[i]
  BY <1>1
<1>4. \A i \in DOMAIN r : r[i].begun => i = 1
  BY <1>1 DEF Queue
<1> QED  BY <1>2, <1>3, <1>4 DEF Queue, r

LEMMA QueueOver ==
  ASSUME NEW q \in Seq(LspTask), NEW p \in [Files -> [version : Nat, text : Texts, again : BOOLEAN]], Queue(q, p),
         NEW f \in Files, p[f] = E!NoPass, NEW t \in {"ok", "bad"}, NEW n \in Nat, NoText \notin E!Texts
  PROVE  Queue(Append(q, E!Task("overlay", f, t)), [p EXCEPT ![f] = [version |-> n, text |-> t, again |-> FALSE]])
<1> DEFINE r == Append(q, E!Task("overlay", f, t))
           x == [version |-> n, text |-> t, again |-> FALSE]
           m == [p EXCEPT ![f] = x]
<1>0. t \in Texts /\ t \in E!Texts
  BY DEF Texts, E!Texts
<1>1. /\ DOMAIN q = 1 .. Len(q) /\ Len(q) \in Nat /\ DOMAIN r = 1 .. Len(q) + 1
      /\ \A i \in 1 .. Len(q) : r[i] = q[i]
      /\ LaidOver(r, Len(q) + 1, f) /\ r[Len(q) + 1].text = t /\ ~r[Len(q) + 1].begun
      /\ \A g : LaidOver(r, Len(q) + 1, g) => g = f
  BY <1>0, TaskMore DEF LaidOver
<1>2. m[f] = x /\ (\A g \in Files : g # f => m[g] = p[g]) /\ x # E!NoPass /\ x.text = t
  BY <1>0 DEF E!NoPass
<1> HIDE DEF r, x, m
<1>3. \A g : \A i \in DOMAIN q : i \in DOMAIN r /\ r[i] = q[i] /\ (LaidOver(r, i, g) <=> LaidOver(q, i, g))
  BY <1>1 DEF LaidOver
<1>4. \A i \in DOMAIN r : i \in DOMAIN q \/ i = Len(q) + 1
  BY <1>1
<1>5. Len(q) + 1 \in DOMAIN r
  BY <1>1
<1>6. \A i \in DOMAIN q : ~LaidOver(q, i, f)
  BY DEF Queue
<1>7. \A i \in DOMAIN r : r[i].begun => i = 1
  BY <1>1, <1>3, <1>4 DEF Queue
<1>8. \A g \in Files : \A i, j \in DOMAIN r : LaidOver(r, i, g) /\ LaidOver(r, j, g) => i = j
  BY <1>1, <1>3, <1>4, <1>6 DEF Queue
<1>9. \A g \in Files : m[g] # E!NoPass <=> \E i \in DOMAIN r : LaidOver(r, i, g)
  BY <1>1, <1>2, <1>3, <1>4, <1>5 DEF Queue
<1>10. \A g \in Files : m[g] # E!NoPass => m[g].text \in {"ok", "bad"}
  BY <1>2 DEF Queue
<1>11. \A g \in Files : \A i \in DOMAIN r : LaidOver(r, i, g) => r[i].text = m[g].text
  BY <1>1, <1>2, <1>3, <1>4, <1>6 DEF Queue
<1> QED  BY <1>7, <1>8, <1>9, <1>10, <1>11 DEF Queue, r, m, x

\* The first task ends; with an overlay, so does its pass.
LEMMA QueueLess ==
  ASSUME NEW q \in Seq(LspTask), NEW p \in [Files -> [version : Nat, text : Texts, again : BOOLEAN]], Queue(q, p),
         q # <<>>
  PROVE  /\ q[1].kind # "overlay" => Queue(Tail(q), p)
         /\ \A f \in Files : LaidOver(q, 1, f) => Queue(Tail(q), [p EXCEPT ![f] = E!NoPass])
<1> DEFINE r == Tail(q)
<1>1. /\ Len(q) \in Nat \ {0} /\ DOMAIN q = 1 .. Len(q) /\ DOMAIN r = 1 .. Len(q) - 1
      /\ \A i \in 1 .. Len(q) - 1 : r[i] = q[i + 1]
      /\ \A i \in 2 .. Len(q) : i - 1 \in 1 .. Len(q) - 1 /\ r[i - 1] = q[i]
  BY TaskLess
<1> HIDE DEF r
<1>2. \A i \in DOMAIN r : i + 1 \in DOMAIN q /\ i + 1 # 1 /\ r[i] = q[i + 1] /\ i \in Nat
  BY <1>1
<1>3. \A i \in DOMAIN q : i # 1 => i - 1 \in DOMAIN r /\ r[i - 1] = q[i]
  BY <1>1
<1>4. \A g : /\ \A i \in DOMAIN r : LaidOver(r, i, g) => LaidOver(q, i + 1, g)
             /\ \A i \in DOMAIN q : i # 1 /\ LaidOver(q, i, g) => i - 1 \in DOMAIN r /\ LaidOver(r, i - 1, g)
  BY <1>2, <1>3 DEF LaidOver
<1>5. \A i \in DOMAIN r : r[i].begun => i = 1
  BY <1>2 DEF Queue
<1>6. \A g \in Files : \A i, j \in DOMAIN r : LaidOver(r, i, g) /\ LaidOver(r, j, g) => i = j
  <2> SUFFICES ASSUME NEW g \in Files, NEW i \in DOMAIN r, NEW j \in DOMAIN r, LaidOver(r, i, g), LaidOver(r, j, g)
               PROVE  i = j
    OBVIOUS
  <2>1. i + 1 = j + 1
    BY <1>2, <1>4 DEF Queue
  <2> QED  BY <2>1, <1>2
<1>7. 1 \in DOMAIN q
  BY <1>1
<1>8. ASSUME q[1].kind # "overlay" PROVE Queue(r, p)
  <2>1. \A g : ~LaidOver(q, 1, g)
    BY <1>8 DEF LaidOver
  <2>2. \A g \in Files : p[g] # E!NoPass <=> \E i \in DOMAIN r : LaidOver(r, i, g)
    <3>1. \A g \in Files : (\E i \in DOMAIN q : LaidOver(q, i, g)) <=> \E i \in DOMAIN r : LaidOver(r, i, g)
      BY <1>2, <1>4, <2>1
    <3> QED  BY <3>1 DEF Queue
  <2>3. \A g \in Files : \A i \in DOMAIN r : LaidOver(r, i, g) => r[i].text = p[g].text
    BY <1>2, <1>4 DEF Queue
  <2> QED  BY <1>5, <1>6, <2>2, <2>3 DEF Queue
<1>9. ASSUME NEW f \in Files, LaidOver(q, 1, f) PROVE Queue(r, [p EXCEPT ![f] = E!NoPass])
  <2> DEFINE m == [p EXCEPT ![f] = E!NoPass]
  <2>0. m[f] = E!NoPass /\ \A g \in Files : g # f => m[g] = p[g]
    OBVIOUS
  <2> HIDE DEF m
  <2>1. /\ \A g : g # f => ~LaidOver(q, 1, g)
        /\ \A i \in DOMAIN r : ~LaidOver(r, i, f)
    BY <1>2, <1>4, <1>7, <1>9 DEF LaidOver, Queue
  <2>2. \A g \in Files : m[g] # E!NoPass <=> \E i \in DOMAIN r : LaidOver(r, i, g)
    BY <1>2, <1>4, <2>0, <2>1 DEF Queue
  <2>3. \A g \in Files : \A i \in DOMAIN r : LaidOver(r, i, g) => r[i].text = m[g].text
    BY <1>2, <1>4, <2>0, <2>1 DEF Queue
  <2>4. \A g \in Files : m[g] # E!NoPass => m[g].text \in {"ok", "bad"}
    BY <2>0 DEF Queue
  <2> QED  BY <1>5, <1>6, <2>2, <2>3, <2>4 DEF Queue, m
<1> QED  BY <1>8, <1>9 DEF r

LEMMA QueueBegun ==
  ASSUME NEW q \in Seq(LspTask), NEW p, Queue(q, p), q # <<>>
  PROVE  Queue([q EXCEPT ![1].begun = TRUE], p)
<1> DEFINE r == [q EXCEPT ![1].begun = TRUE]
<1>1. /\ DOMAIN q = 1 .. Len(q) /\ Len(q) \in Nat \ {0} /\ DOMAIN r = 1 .. Len(q)
      /\ \A i \in 2 .. Len(q) : r[i] = q[i]
      /\ r[1].kind = q[1].kind /\ r[1].file = q[1].file /\ r[1].text = q[1].text
  BY TaskBegun
<1> HIDE DEF r
<1>2. \A i \in DOMAIN q : r[i].kind = q[i].kind /\ r[i].file = q[i].file /\ r[i].text = q[i].text
                          /\ (i # 1 => r[i].begun = q[i].begun)
  BY <1>1
<1>3. DOMAIN r = DOMAIN q
  BY <1>1
<1> QED  BY <1>2, <1>3 DEF Queue, LaidOver, r

\* Full runs that go on, and those that are yet to begin.
LEMMA RunMore ==
  ASSUME NEW q \in Seq(LspTask), NEW k \in {"overlay", "reconcile", "full"},
         NEW f \in Files \cup {NoText}, NEW t \in Texts, k # "full" => f \in Files
  PROVE  LET r == Append(q, E!Task(k, f, t))
         IN  (GoesOn(r) <=> GoesOn(q)) /\ (Awaits(q) => Awaits(r)) /\ (k = "full" => Awaits(r))
<1> DEFINE r == Append(q, E!Task(k, f, t))
<1>1. /\ DOMAIN q = 1 .. Len(q) /\ Len(q) \in Nat /\ DOMAIN r = 1 .. Len(q) + 1
      /\ \A i \in 1 .. Len(q) : r[i] = q[i]
      /\ r[Len(q) + 1].kind = k /\ ~r[Len(q) + 1].begun
  BY TaskMore
<1>2. r # <<>> /\ (q # <<>> => Len(q) # 0) /\ (q = <<>> => Len(q) = 0)
  OBVIOUS
<1> HIDE DEF r
<1>3. GoesOn(r) <=> GoesOn(q)
  <2>1. CASE q = <<>>
    BY <1>1, <1>2, <2>1 DEF GoesOn
  <2>2. CASE q # <<>>
    <3>1. 1 \in 1 .. Len(q)
      BY <1>1, <1>2, <2>2
    <3> QED  BY <1>1, <1>2, <2>2, <3>1 DEF GoesOn
  <2> QED  BY <2>1, <2>2
<1>4. \A i \in DOMAIN q : i \in DOMAIN r /\ r[i] = q[i]
  BY <1>1
<1>5. Len(q) + 1 \in DOMAIN r
  BY <1>1
<1> QED  BY <1>1, <1>3, <1>4, <1>5 DEF Awaits, r

LEMMA RunLess ==
  ASSUME NEW q \in Seq(LspTask), NEW p, Queue(q, p), q # <<>>, q[1].begun
  PROVE  ~GoesOn(Tail(q)) /\ (Awaits(q) => Awaits(Tail(q)))
<1> DEFINE r == Tail(q)
<1>1. /\ Len(q) \in Nat \ {0} /\ DOMAIN q = 1 .. Len(q) /\ DOMAIN r = 1 .. Len(q) - 1
      /\ \A i \in 1 .. Len(q) - 1 : r[i] = q[i + 1]
      /\ \A i \in 2 .. Len(q) : i - 1 \in 1 .. Len(q) - 1 /\ r[i - 1] = q[i]
      /\ Len(r) = Len(q) - 1 /\ r \in Seq(LspTask)
  BY TaskLess
<1>2. r # <<>> => Len(r) # 0
  BY <1>1
<1> HIDE DEF r
<1>3. ~GoesOn(r)
  <2> SUFFICES ASSUME r # <<>> PROVE ~r[1].begun
    BY DEF GoesOn
  <2>1. 1 \in 1 .. Len(q) - 1 /\ r[1] = q[2] /\ 2 \in DOMAIN q
    BY <1>1, <1>2
  <2> QED  BY <2>1 DEF Queue
<1>4. \A i \in DOMAIN q : i # 1 => i - 1 \in DOMAIN r /\ r[i - 1] = q[i]
  BY <1>1
<1> QED  BY <1>3, <1>4 DEF Awaits, r

LEMMA RunBegun ==
  ASSUME NEW q \in Seq(LspTask), q # <<>>, ~q[1].begun
  PROVE  LET r == [q EXCEPT ![1].begun = TRUE]
         IN  /\ ~GoesOn(q) /\ (GoesOn(r) <=> q[1].kind = "full")
             /\ q[1].kind # "full" /\ Awaits(q) => Awaits(r)
<1> DEFINE r == [q EXCEPT ![1].begun = TRUE]
<1>1. /\ DOMAIN q = 1 .. Len(q) /\ Len(q) \in Nat \ {0} /\ DOMAIN r = 1 .. Len(q) /\ r # <<>>
      /\ \A i \in 2 .. Len(q) : r[i] = q[i]
      /\ r[1].kind = q[1].kind /\ r[1].begun
  BY TaskBegun
<1> HIDE DEF r
<1>2. \A i \in DOMAIN q : i \in DOMAIN r /\ (i # 1 => r[i] = q[i])
  BY <1>1
<1> QED  BY <1>1, <1>2 DEF GoesOn, Awaits, r

-----------------------------------------------------------------------------
(* The steps keep the parts of the invariant.                              *)

\* A pass starts, if the compiler is there and the text parses.
LEMMA PassCases ==
  ASSUME EditorConstants, EditorTyped, NEW f \in Files, E!IsOpen(f), NEW q \in Seq(LspTask), E!Pass(f, q)
  PROVE  LET b == lspBuffer[f]
         IN  \/ /\ lspCompiler = 0 /\ lspPasses' = [lspPasses EXCEPT ![f] = E!NoPass] /\ lspTasks' = q
                /\ lspMissed' = lspMissed \cup {f} /\ UNCHANGED <<lspLive, lspShown>>
             \/ /\ lspCompiler # 0 /\ b.text = "torn"
                /\ lspPasses' = [lspPasses EXCEPT ![f] = E!NoPass] /\ lspTasks' = q
                /\ lspLive' = [lspLive EXCEPT ![f] = E!Errors(b.text)]
                /\ lspShown' = [lspShown EXCEPT ![f] = E!Errors(b.text)] /\ lspMissed' = lspMissed \ {f}
             \/ /\ lspCompiler # 0 /\ b.text \in {"ok", "bad"} /\ b.version \in Nat
                /\ lspPasses' = [lspPasses EXCEPT ![f] = [version |-> b.version, text |-> b.text, again |-> FALSE]]
                /\ lspTasks' = Append(q, E!Task("overlay", f, b.text))
                /\ lspLive' = [lspLive EXCEPT ![f] = {}] /\ lspShown' = [lspShown EXCEPT ![f] = {}]
                /\ lspMissed' = lspMissed \ {f}
<1>1. lspBuffer[f].text \in {"ok", "bad", "torn"} /\ lspBuffer[f].version \in Nat
  BY BufferFields DEF E!Texts
<1>2. E!Errors("torn") = {"torn"}
  BY DEF E!Errors, E!Fast, E!Overlay
<1> QED  BY <1>1, <1>2 DEF E!Pass, E!Fast

LEMMA PassTasks ==
  ASSUME EditorConstants, EditorTyped, NEW f \in Files, E!IsOpen(f), NEW q \in Seq(LspTask), E!Pass(f, q),
         Queue(q, [lspPasses EXCEPT ![f] = E!NoPass])
  PROVE  Queue(lspTasks', lspPasses')
<1> DEFINE p == [lspPasses EXCEPT ![f] = E!NoPass]
           x == [version |-> lspBuffer[f].version, text |-> lspBuffer[f].text, again |-> FALSE]
<1>1. lspPasses \in [Files -> [version : Nat, text : Texts, again : BOOLEAN]]
  BY DEF EditorTyped, PassesTyped
<1>2. E!NoPass \in [version : Nat, text : Texts, again : BOOLEAN]
  BY DEF E!NoPass, Texts
<1>3. p \in [Files -> [version : Nat, text : Texts, again : BOOLEAN]] /\ p[f] = E!NoPass
  BY <1>1, <1>2
<1>4. [lspPasses EXCEPT ![f] = x] = [p EXCEPT ![f] = x]
  BY <1>1
<1>5. CASE lspPasses' = p /\ lspTasks' = q
  BY <1>5
<1>6. CASE /\ lspBuffer[f].text \in {"ok", "bad"} /\ lspBuffer[f].version \in Nat
           /\ lspPasses' = [lspPasses EXCEPT ![f] = x]
           /\ lspTasks' = Append(q, E!Task("overlay", f, lspBuffer[f].text))
  <2>1. lspPasses' = [p EXCEPT ![f] = x]
    BY <1>4, <1>6
  <2>2. Queue(q, p)
    OBVIOUS
  <2> HIDE DEF p
  <2>3. ASSUME NEW n \in Nat, NEW t \in {"ok", "bad"}
        PROVE  Queue(Append(q, E!Task("overlay", f, t)), [p EXCEPT ![f] = [version |-> n, text |-> t, again |-> FALSE]])
    BY <1>3, <2>2, QueueOver DEF EditorConstants
  <2>4. Queue(Append(q, E!Task("overlay", f, lspBuffer[f].text)), [p EXCEPT ![f] = x])
    BY <1>6, <2>3
  <2> HIDE DEF x
  <2> QED  BY <1>6, <2>1, <2>4
<1> QED  BY <1>5, <1>6, PassCases

\* The tasks are left alone.
LEMMA TasksStay ==
  ASSUME TasksInv, UNCHANGED <<lspTasks, lspPasses, lspCompiler>>
  PROVE  TasksInv'
BY DEF TasksInv, Queue, LaidOver

LEMMA TasksKept ==
  ASSUME EditorConstants, EditorTyped, LifeTyped, TasksInv, E!Next
  PROVE  TasksInv'
<1>1. /\ lspTasks \in Seq(LspTask) /\ lspPasses \in [Files -> [version : Nat, text : Texts, again : BOOLEAN]]
      /\ Queue(lspTasks, lspPasses)
  BY DEF EditorTyped, WaitingTyped, PassesTyped, TasksInv
<1>2. ASSUME NEW f \in Files, FileStep(f) PROVE TasksInv'
  <2>1. UNCHANGED <<lspTasks, lspPasses, lspCompiler>>
    BY <1>2 DEF FileStep, E!Typed, E!Save, E!Close, E!LiveTimer, E!ChangeOutside, E!life
  <2> QED  BY <2>1, TasksStay
<1>3. ASSUME NEW f \in Files, HeldStep(f) PROVE TasksInv'
  <2>1. lspCompiler' = lspCompiler
    BY <1>3 DEF HeldStep, LiveAgain, LivePass, LiveGone, CloseHeard, SaveHeard, WatchPassed, WatchHeard, Took,
                LifeStays
  <2>2. CASE LiveGone(f) \/ WatchPassed(f) \/ WatchHeard("watch", f)
    BY <2>1, <2>2, TasksStay DEF LiveGone, WatchPassed, WatchHeard
  <2>3. CASE LiveAgain(f)
    <3> DEFINE x == [lspPasses[f] EXCEPT !.again = TRUE]
    <3>1. lspPasses[f] \in [version : Nat, text : Texts, again : BOOLEAN]
      BY <1>1
    <3>2. x.text = lspPasses[f].text /\ x.again = TRUE /\ x # E!NoPass
      BY <3>1 DEF E!NoPass
    <3>3. lspPasses[f] # E!NoPass /\ lspPasses' = [lspPasses EXCEPT ![f] = x] /\ lspTasks' = lspTasks
      BY <2>3 DEF LiveAgain
    <3> HIDE DEF x
    <3>4. \A g \in Files : /\ lspPasses'[g].text = lspPasses[g].text
                           /\ lspPasses'[g] # E!NoPass <=> lspPasses[g] # E!NoPass
      BY <1>1, <3>2, <3>3
    <3> QED  BY <1>1, <2>1, <3>3, <3>4 DEF TasksInv, Queue, LaidOver
  <2>4. CASE LivePass(f)
    <3>1. lspPasses = [lspPasses EXCEPT ![f] = E!NoPass] /\ E!Pass(f, lspTasks) /\ E!IsOpen(f)
      BY <1>1, <2>4 DEF LivePass
    <3>2. Queue(lspTasks', lspPasses')
      BY <1>1, <3>1, PassTasks
    <3>3. lspCompiler = 0 => lspTasks' = lspTasks
      BY <3>1 DEF E!Pass
    <3> QED  BY <2>1, <3>2, <3>3 DEF TasksInv
  <2>5. CASE CloseHeard(f)
    <3>1. /\ lspPasses' = lspPasses
          /\ \/ lspTasks' = lspTasks
             \/ lspCompiler # 0 /\ lspTasks' = Append(lspTasks, E!Task("reconcile", f, lspDisk[f]))
      BY <2>5 DEF CloseHeard, E!Reconcile
    <3>2. Queue(Append(lspTasks, E!Task("reconcile", f, lspDisk[f])), lspPasses)
      BY <1>1, QueueMore DEF EditorTyped, TextsTyped
    <3> QED  BY <1>1, <2>1, <3>1, <3>2 DEF TasksInv
  <2>6. CASE SaveHeard(f)
    <3>1. /\ lspPasses' = lspPasses
          /\ \/ lspTasks' = lspTasks
             \/ lspCompiler # 0 /\ lspTasks' = Append(lspTasks, E!Task("full", f, NoText))
      BY <2>6 DEF SaveHeard, E!Validate
    <3>2. Queue(Append(lspTasks, E!Task("full", f, NoText)), lspPasses)
      BY <1>1, QueueMore DEF Texts
    <3> QED  BY <1>1, <2>1, <3>1, <3>2 DEF TasksInv
  <2> QED  BY <1>3, <2>2, <2>3, <2>4, <2>5, <2>6 DEF HeldStep
<1>4. ASSUME RunBegins \/ \E f \in Files : RowsBegin(f) PROVE TasksInv'
  <2>1. /\ lspTasks # <<>> /\ lspTasks' = [lspTasks EXCEPT ![1].begun = TRUE]
        /\ UNCHANGED <<lspPasses, lspCompiler>>
    BY <1>4 DEF RunBegins, RowsBegin, Begun, LifeStays
  <2> QED  BY <1>1, <2>1, QueueBegun DEF TasksInv
<1>5. ASSUME NEW f \in Files, PassAgain(f) \/ PassEnds(f) PROVE TasksInv'
  <2>1. lspTasks # <<>> /\ LaidOver(lspTasks, 1, f) /\ lspCompiler' = lspCompiler
    BY <1>5 DEF PassAgain, PassEnds, Ended
  <2>2. Tail(lspTasks) \in Seq(LspTask) /\ Queue(Tail(lspTasks), [lspPasses EXCEPT ![f] = E!NoPass])
    BY <1>1, <2>1, QueueLess, TaskLess
  <2>3. Queue(lspTasks', lspPasses')
    BY <1>5, <2>2, PassTasks DEF PassAgain, PassEnds
  <2> QED  BY <2>1, <2>3 DEF TasksInv
<1>6. ASSUME ReconcileEnds \/ RunEnds PROVE TasksInv'
  <2>1. /\ lspTasks # <<>> /\ lspTasks[1].kind # "overlay" /\ lspTasks' = Tail(lspTasks)
        /\ UNCHANGED <<lspPasses, lspCompiler>>
    BY <1>6 DEF ReconcileEnds, RunEnds, Ended
  <2>2. Queue(lspTasks', lspPasses')
    BY <1>1, <2>1, QueueLess
  <2> QED  BY <2>1, <2>2 DEF TasksInv
<1>7. ASSUME LifeStep PROVE TasksInv'
  <2>1. CASE RunAsked
    <3>1. /\ UNCHANGED <<lspPasses, lspCompiler>>
          /\ \/ lspTasks' = lspTasks
             \/ lspCompiler # 0 /\ lspTasks' = Append(lspTasks, E!Task("full", NoText, NoText))
      BY <2>1 DEF RunAsked, LifeStays, E!Validate
    <3>2. Queue(Append(lspTasks, E!Task("full", NoText, NoText)), lspPasses)
      BY <1>1, QueueMore DEF Texts
    <3> QED  BY <1>1, <3>1, <3>2 DEF TasksInv
  <2>2. CASE GoesDown
    <3>1. lspTasks' = <<>> /\ lspPasses' = [f \in Files |-> E!NoPass]
      BY <2>2 DEF GoesDown, E!Teardown
    <3>2. Queue(lspTasks', lspPasses')
      BY <3>1 DEF Queue
    <3> QED  BY <3>1, <3>2 DEF TasksInv
  <2>3. CASE \E t \in lspTeardowns : E!TornDown(t)
    BY <2>3, TasksStay DEF E!TornDown, E!lsp
  <2>4. CASE \E g \in lspSetups : E!SetUpFails(g)
    BY <2>4, TasksStay DEF E!SetUpFails, E!lsp
  <2>5. ASSUME NEW g \in lspSetups, E!SetUp(g) PROVE TasksInv'
    <3>1. /\ lspPasses' = lspPasses /\ lspCompiler' = g /\ g # 0
          /\ lspTasks' = Append(lspTasks, E!Task("full", NoText, NoText))
      BY <2>5 DEF E!SetUp, LifeTyped
    <3>2. Queue(lspTasks', lspPasses')
      BY <1>1, <3>1, QueueMore DEF Texts
    <3> QED  BY <3>1, <3>2 DEF TasksInv
  <2> QED  BY <1>7, <2>1, <2>2, <2>3, <2>4, <2>5 DEF LifeStep
<1>8. ASSUME E!ChangeConfig \/ \E f \in Files \cup {NoText} : WatchHeard("config", f) PROVE TasksInv'
  BY <1>8, TasksStay DEF E!ChangeConfig, WatchHeard, Took, LifeStays
<1> QED  BY <1>2, <1>3, <1>4, <1>5, <1>6, <1>7, <1>8, EditorSteps DEF TaskStep

\* While nobody crosses, the compiler's life is in one of its three stages.
LEMMA LifeKept ==
  ASSUME EditorConstants, EditorTyped, LifeTyped, TasksInv, lspCrossed \/ Life, E!Next
  PROVE  lspCrossed' \/ Life'
<1> USE DEF Life
<1>1. CASE UNCHANGED <<lspCompiler, lspAlive, lspTeardowns, lspSetups, lspReady, lspCrossed>>
  BY <1>1
<1>2. ASSUME NEW f \in Files, FileStep(f) PROVE lspCrossed' \/ Life'
  BY <1>1, <1>2 DEF FileStep, E!Typed, E!Save, E!Close, E!LiveTimer, E!ChangeOutside, E!life
<1>3. ASSUME NEW f \in Files, HeldStep(f) PROVE lspCrossed' \/ Life'
  BY <1>1, <1>3 DEF HeldStep, LiveAgain, LivePass, LiveGone, CloseHeard, SaveHeard, WatchPassed, WatchHeard, Took,
                    LifeStays
<1>4. ASSUME RunBegins \/ (\E f \in Files : RowsBegin(f)) \/ RunAsked \/ E!ChangeConfig
             \/ \E f \in Files \cup {NoText} : WatchHeard("config", f)
      PROVE  lspCrossed' \/ Life'
  BY <1>1, <1>4 DEF RunBegins, RowsBegin, Begun, LifeStays, RunAsked, WatchHeard, Took, E!ChangeConfig
<1>5. ASSUME ReconcileEnds \/ RunEnds \/ \E f \in Files : PassAgain(f) \/ PassEnds(f)
      PROVE  lspCrossed' \/ Life'
  <2>1. /\ lspTasks # <<>> /\ UNCHANGED <<lspCompiler, lspAlive, lspTeardowns, lspSetups, lspCrossed>>
        /\ lspReady' = (lspReady \/ lspTasks[1].kind = "full")
    BY <1>5 DEF ReconcileEnds, RunEnds, PassAgain, PassEnds, Ended
  <2>2. lspCompiler # 0
    BY <2>1 DEF TasksInv
  <2> QED  BY <2>1, <2>2
<1>6. ASSUME GoesDown PROVE lspCrossed' \/ Life'
  <2>1. PICK b \in BOOLEAN : E!Teardown(b)
    BY <1>6 DEF GoesDown
  <2>2. /\ lspCompiler' = 0 /\ lspTeardowns' = lspTeardowns \cup {[of |-> lspCompiler, final |-> b]}
        /\ lspCrossed' \/ (lspTeardowns = {} /\ lspSetups = {} /\ ~lspCrossed)
        /\ UNCHANGED <<lspAlive, lspSetups>>
    BY <1>6, <2>1 DEF GoesDown, E!Teardown, LifeTyped
  <2>3. CASE lspTeardowns = {} /\ lspSetups = {} /\ ~lspCrossed
    <3>1. lspAlive = {lspCompiler} \ {0} /\ lspTeardowns' = {[of |-> lspCompiler, final |-> b]}
      BY <2>2, <2>3
    <3>2. [of |-> lspCompiler, final |-> b].of = lspCompiler
      OBVIOUS
    <3> QED  BY <2>2, <2>3, <3>1, <3>2
  <2> QED  BY <2>2, <2>3
<1>7. ASSUME NEW t \in lspTeardowns, E!TornDown(t) PROVE lspCrossed' \/ Life'
  <2> DEFINE g == E!Min((1 .. E!Cardinality(lspAlive) + 1) \ lspAlive)
  <2>1. /\ lspTeardowns' = lspTeardowns \ {t} /\ UNCHANGED <<lspCompiler, lspCrossed>>
        /\ \/ lspAlive' = lspAlive \ {t.of} /\ lspSetups' = lspSetups
           \/ /\ lspAlive' = (lspAlive \ {t.of}) \cup {g} /\ lspSetups' = lspSetups \cup {g}
              /\ lspReady' = FALSE
    BY <1>7 DEF E!TornDown, E!CloseCompiler
  <2> HIDE DEF g
  <2>2. CASE lspCrossed
    BY <2>1, <2>2
  <2>3. CASE ~lspCrossed
    <3>1. lspCompiler = 0 /\ lspSetups = {} /\ lspTeardowns = {t} /\ lspAlive = {t.of} \ {0}
      BY <2>3
    <3> QED  BY <2>1, <3>1
  <2> QED  BY <2>2, <2>3
<1>8. ASSUME NEW g \in lspSetups, E!SetUp(g) \/ E!SetUpFails(g) PROVE lspCrossed' \/ Life'
  <2>1. CASE lspCrossed
    BY <1>8, <2>1 DEF E!SetUp, E!SetUpFails
  <2>2. CASE ~lspCrossed
    <3>1. lspCompiler = 0 /\ lspTeardowns = {} /\ lspSetups = {g} /\ lspAlive = {g} /\ g # 0
      BY <2>2 DEF LifeTyped
    <3> QED  BY <1>8, <3>1 DEF E!SetUp, E!SetUpFails
  <2> QED  BY <2>1, <2>2
<1> QED  BY <1>2, <1>3, <1>4, <1>5, <1>6, <1>7, <1>8, EditorSteps DEF TaskStep, LifeStep

\* No set-up or teardown is out while the compiler is there.
LEMMA LifeStages ==
  ASSUME LifeTyped, Life, TasksInv
  PROVE  /\ lspTeardowns # {} \/ lspSetups # {} => lspCompiler = 0 /\ lspTasks = <<>>
         /\ lspSetups # {} => ~lspReady
BY DEF Life, TasksInv

LEMMA FullFirstKept ==
  ASSUME EditorConstants, EditorTyped, LifeTyped, TasksInv, Life, FullFirst, E!Next
  PROVE  FullFirst'
<1> USE DEF FullFirst
<1>0. lspTasks \in Seq(LspTask)
  BY DEF EditorTyped, WaitingTyped
<1>1. CASE UNCHANGED <<lspReady, lspTasks>>
  BY <1>1
<1>2. CASE lspReady'
  BY <1>2
<1>3. ASSUME NEW f \in Files, FileStep(f) PROVE FullFirst'
  BY <1>1, <1>3 DEF FileStep, E!Typed, E!Save, E!Close, E!LiveTimer, E!ChangeOutside, E!life
<1>4. ASSUME (\E f \in Files : HeldStep(f)) \/ \E f \in Files \cup {NoText} : WatchHeard("config", f)
      PROVE  FullFirst'
  BY <1>2, <1>4 DEF HeldStep, LiveAgain, LivePass, LiveGone, CloseHeard, SaveHeard, WatchPassed, WatchHeard, Took,
                    LifeStays
<1>5. ASSUME RunBegins \/ \E f \in Files : RowsBegin(f) PROVE FullFirst'
  <2>1. /\ lspReady' = lspReady /\ lspTasks # <<>> /\ lspTasks' = [lspTasks EXCEPT ![1].begun = TRUE]
    BY <1>5 DEF RunBegins, RowsBegin, Begun, LifeStays
  <2>2. DOMAIN lspTasks' = DOMAIN lspTasks /\ \A i \in DOMAIN lspTasks : lspTasks'[i].kind = lspTasks[i].kind
    BY <1>0, <2>1, TaskBegun
  <2> QED  BY <2>1, <2>2
<1>6. ASSUME ReconcileEnds \/ RunEnds \/ \E f \in Files : PassAgain(f) \/ PassEnds(f)
      PROVE  FullFirst'
  <2>1. /\ lspTasks # <<>> /\ lspReady' = (lspReady \/ lspTasks[1].kind = "full")
    BY <1>6 DEF ReconcileEnds, RunEnds, PassAgain, PassEnds, Ended
  <2>2. 1 \in DOMAIN lspTasks
    BY <1>0, <2>1, TaskLess
  <2> QED  BY <1>2, <2>1, <2>2 DEF LifeTyped
<1>7. ASSUME NEW g \in Files \cup {NoText}, lspTasks' = Append(lspTasks, E!Task("full", g, NoText)), lspReady' = lspReady
      PROVE  FullFirst'
  <2>1. /\ DOMAIN lspTasks' = 1 .. Len(lspTasks) + 1 /\ DOMAIN lspTasks = 1 .. Len(lspTasks)
        /\ Len(lspTasks) \in Nat /\ \A i \in 1 .. Len(lspTasks) : lspTasks'[i] = lspTasks[i]
        /\ lspTasks'[Len(lspTasks) + 1].kind = "full"
    BY <1>0, <1>7, TaskMore DEF Texts
  <2> QED  BY <1>7, <2>1
<1>8. ASSUME LifeStep PROVE FullFirst'
  <2>1. CASE RunAsked
    BY <1>1, <1>7, <2>1 DEF RunAsked, LifeStays, E!Validate
  <2>2. CASE GoesDown
    BY <2>2 DEF GoesDown, E!Teardown
  <2>3. CASE \E t \in lspTeardowns : E!TornDown(t)
    BY <2>3, LifeStages DEF E!TornDown, E!lsp
  <2>4. CASE \E g \in lspSetups : E!SetUp(g)
    BY <1>7, <2>4 DEF E!SetUp
  <2>5. CASE \E g \in lspSetups : E!SetUpFails(g)
    BY <1>2, <2>5 DEF E!SetUpFails
  <2> QED  BY <1>8, <2>1, <2>2, <2>3, <2>4, <2>5 DEF LifeStep
<1> QED  BY <1>1, <1>3, <1>4, <1>5, <1>6, <1>8, EditorSteps DEF TaskStep, E!ChangeConfig

\* What the steps do to full runs, and to the handlers that wait.
LEMMA HeldRuns ==
  ASSUME EditorConstants, EditorTyped,
         NEW f \in Files \cup {NoText},
         (f \in Files /\ HeldStep(f)) \/ WatchHeard("config", f)
  PROVE  /\ lspReady /\ TextsStay /\ LifeStays
         /\ (Running' <=> Running) /\ (RunLater => RunLater')
         /\ SaveHeard(f) => lspCompiler = 0 \/ RunLater'
         /\ \E k \in Kinds :
              /\ Took(k, f) /\ IsHeld(k, f)
              /\ \A c, g : IsHeld(c, g)' => IsHeld(c, g)
              /\ \A c, g : IsHeld(c, g) => IsHeld(c, g)' \/ (c = k /\ g = f)
              /\ \A c : AnyHeld(c) => AnyHeld(c)' \/ c = k
<1>0. lspTasks \in Seq(LspTask) /\ lspHeld \in Seq(Held)
  BY DEF EditorTyped, WaitingTyped
<1>1. \E k \in Kinds : Took(k, f)
  BY DEF HeldStep, LiveAgain, LivePass, LiveGone, CloseHeard, SaveHeard, WatchPassed, WatchHeard, Kinds
<1>2. \/ lspTasks' = lspTasks
      \/ f \in Files /\ (LivePass(f) \/ CloseHeard(f) \/ SaveHeard(f))
  <2>1. LiveAgain(f) \/ LiveGone(f) \/ WatchPassed(f) => lspTasks' = lspTasks
    BY DEF LiveAgain, LiveGone, WatchPassed
  <2>2. WatchHeard("watch", f) \/ WatchHeard("config", f) => lspTasks' = lspTasks
    BY DEF WatchHeard
  <2> QED  BY <2>1, <2>2 DEF HeldStep
<1>3. lspTasks' = lspTasks => (Running' <=> Running) /\ (RunLater => RunLater')
  BY DEF Running, RunLater
<1>4. ASSUME NEW k \in {"overlay", "reconcile", "full"}, NEW t \in Texts, f \in Files,
             lspTasks' = Append(lspTasks, E!Task(k, f, t))
      PROVE  (Running' <=> Running) /\ (RunLater => RunLater') /\ (k = "full" => RunLater')
  BY <1>0, <1>4, RunMore DEF Running, RunLater
<1>5. ASSUME f \in Files, LivePass(f) PROVE (Running' <=> Running) /\ (RunLater => RunLater')
  <2>1. lspTasks' = lspTasks \/ lspTasks' = Append(lspTasks, E!Task("overlay", f, lspBuffer[f].text))
    BY <1>5 DEF LivePass, E!Pass
  <2>2. lspBuffer[f].text \in Texts
    BY <1>5, BufferFields DEF LivePass, Texts
  <2> QED  BY <1>3, <1>4, <1>5, <2>1, <2>2
<1>6. ASSUME f \in Files, CloseHeard(f) PROVE (Running' <=> Running) /\ (RunLater => RunLater')
  <2>1. lspTasks' = lspTasks \/ lspTasks' = Append(lspTasks, E!Task("reconcile", f, lspDisk[f]))
    BY <1>6 DEF CloseHeard, E!Reconcile
  <2>2. lspDisk[f] \in Texts
    BY <1>6 DEF EditorTyped, TextsTyped
  <2> QED  BY <1>3, <1>4, <1>6, <2>1, <2>2
<1>7. ASSUME f \in Files, SaveHeard(f)
      PROVE  (Running' <=> Running) /\ (RunLater => RunLater') /\ (lspCompiler = 0 \/ RunLater')
  <2>1. \/ lspCompiler = 0 /\ lspTasks' = lspTasks
        \/ lspTasks' = Append(lspTasks, E!Task("full", f, NoText))
    BY <1>7 DEF SaveHeard, E!Validate
  <2> QED  BY <1>3, <1>4, <1>7, <2>1 DEF Texts
<1>8. SaveHeard(f) => f \in Files
  BY <1>0, HeldLess DEF SaveHeard, Took, Held
<1>9. PICK k \in Kinds : Took(k, f)
  BY <1>1
<1>10. /\ IsHeld(k, f) /\ lspReady /\ TextsStay /\ LifeStays
       /\ \A c, g : IsHeld(c, g)' => IsHeld(c, g)
       /\ \A c, g : IsHeld(c, g) => IsHeld(c, g)' \/ (c = k /\ g = f)
       /\ \A c : AnyHeld(c) => AnyHeld(c)' \/ c = k
  BY <1>0, <1>9, HeldLess DEF Took
<1> QED  BY <1>2, <1>3, <1>5, <1>6, <1>7, <1>8, <1>9, <1>10

LEMMA TaskRuns ==
  ASSUME EditorConstants, EditorTyped, TasksInv
  PROVE  /\ RunBegins => Running' /\ ~Running
         /\ \A f \in Files : RowsBegin(f) => ~Running' /\ ~Running /\ (RunLater => RunLater')
         /\ \A f \in Files : PassAgain(f) \/ PassEnds(f) => ~Running' /\ ~Running /\ (RunLater => RunLater')
         /\ ReconcileEnds => ~Running' /\ ~Running /\ (RunLater => RunLater')
         /\ RunEnds => Running /\ ~Running' /\ (RunLater => RunLater')
<1>0. lspTasks \in Seq(LspTask) /\ Queue(lspTasks, lspPasses)
  BY DEF EditorTyped, WaitingTyped, TasksInv
<1>1. Begun => ~Running /\ (Running' <=> lspTasks[1].kind = "full")
               /\ (lspTasks[1].kind # "full" => (RunLater => RunLater'))
  BY <1>0, RunBegun DEF Begun, Running, RunLater
<1>2. Ended => ~GoesOn(Tail(lspTasks)) /\ (RunLater => Awaits(Tail(lspTasks))) /\ Tail(lspTasks) \in Seq(LspTask)
  BY <1>0, RunLess, TaskLess DEF Ended, RunLater
<1>3. \A f \in Files : LaidOver(lspTasks, 1, f) => ~Running
  BY DEF LaidOver, Running, GoesOn
<1>4. ASSUME NEW f \in Files, PassAgain(f) PROVE ~Running' /\ (RunLater => RunLater')
  <2>1. lspTasks' = Tail(lspTasks) \/ lspTasks' = Append(Tail(lspTasks), E!Task("overlay", f, lspBuffer[f].text))
    BY <1>4 DEF PassAgain, E!Pass
  <2>2. lspBuffer[f].text \in Texts /\ Ended
    BY <1>4, BufferFields DEF PassAgain, Texts
  <2> DEFINE q == Tail(lspTasks)
             r == Append(q, E!Task("overlay", f, lspBuffer[f].text))
  <2>3. (GoesOn(r) <=> GoesOn(q)) /\ (Awaits(q) => Awaits(r))
    BY <1>2, <2>2, RunMore
  <2>4. lspTasks' = q \/ lspTasks' = r
    BY <2>1
  <2> HIDE DEF q, r
  <2>5. ~GoesOn(q) /\ (RunLater => Awaits(q))
    BY <1>2, <2>2 DEF q
  <2> QED  BY <2>3, <2>4, <2>5 DEF Running, RunLater
<1>5. ASSUME Ended, lspTasks' = Tail(lspTasks) PROVE ~Running' /\ (RunLater => RunLater')
  BY <1>2, <1>5 DEF Running, RunLater
<1>6. RunEnds => Running
  BY DEF RunEnds, Ended, Running, GoesOn
<1>7. ReconcileEnds => ~Running
  BY DEF ReconcileEnds, Running, GoesOn
<1>8. RunBegins => Running' /\ ~Running
  BY <1>1 DEF RunBegins
<1>9. \A f \in Files : RowsBegin(f) => ~Running' /\ ~Running /\ (RunLater => RunLater')
  BY <1>1 DEF RowsBegin
<1>10. \A f \in Files : PassAgain(f) \/ PassEnds(f) => ~Running' /\ ~Running /\ (RunLater => RunLater')
  BY <1>3, <1>4, <1>5 DEF PassAgain, PassEnds
<1> QED  BY <1>5, <1>6, <1>7, <1>8, <1>9, <1>10 DEF ReconcileEnds, RunEnds

LEMMA LifeRuns ==
  ASSUME EditorConstants, EditorTyped, LifeTyped, TasksInv
  PROVE  /\ RunAsked => (Running' <=> Running) /\ (RunLater => RunLater') /\ (lspCompiler = 0 \/ RunLater')
         /\ GoesDown => ~Running' /\ ~RunLater' /\ lspCompiler' = 0
         /\ \A t \in lspTeardowns : E!TornDown(t) => UNCHANGED <<E!editor, E!lsp, lspCompiler>>
         /\ \A g \in lspSetups : E!SetUpFails(g) => UNCHANGED <<E!editor, E!lsp, lspCompiler>>
         /\ \A g \in lspSetups : E!SetUp(g) =>
              (Running' <=> Running) /\ RunLater' /\ TextsStay /\ lspReady' = lspReady /\ lspCompiler' # 0
<1>0. lspTasks \in Seq(LspTask)
  BY DEF EditorTyped, WaitingTyped
<1>1. ASSUME lspTasks' = Append(lspTasks, E!Task("full", NoText, NoText))
      PROVE  (Running' <=> Running) /\ RunLater'
  BY <1>0, <1>1, RunMore DEF Running, RunLater, Texts
<1>2. ASSUME RunAsked PROVE (Running' <=> Running) /\ (RunLater => RunLater') /\ (lspCompiler = 0 \/ RunLater')
  <2>1. \/ lspCompiler = 0 /\ lspTasks' = lspTasks
        \/ lspTasks' = Append(lspTasks, E!Task("full", NoText, NoText))
    BY <1>2 DEF RunAsked, E!Validate
  <2> QED  BY <1>1, <2>1 DEF Running, RunLater
<1>3. GoesDown => ~Running' /\ ~RunLater' /\ lspCompiler' = 0
  BY DEF GoesDown, E!Teardown, Running, RunLater, GoesOn, Awaits
<1>4. \A g \in lspSetups : E!SetUp(g) =>
              (Running' <=> Running) /\ RunLater' /\ TextsStay /\ lspReady' = lspReady /\ lspCompiler' # 0
  BY <1>1 DEF E!SetUp, E!editor, TextsStay, LifeTyped
<1> QED  BY <1>2, <1>3, <1>4 DEF E!TornDown, E!SetUpFails

\* What full runs published is what passes found, and what they report themselves.
LEMMA CoveredKept ==
  ASSUME EditorConstants, EditorTyped, LifeTyped, TasksInv, Covered, E!Next
  PROVE  Covered'
<1> USE DEF Covered
<1>0. /\ lspLive \in Shows /\ lspShown \in Shows
      /\ \A f \in Files : lspLive[f] \subseteq lspShown[f] /\ (f \notin lspPiped => lspShown[f] = lspLive[f])
      /\ Running => lspPiped = {}
  BY DEF EditorTyped, ShownTyped
<1>1. ASSUME UNCHANGED <<lspLive, lspShown, lspPiped>>, Running' => Running PROVE Covered'
  BY <1>1
<1>2. ASSUME NEW f \in Files, NEW x \in SUBSET {"bad", "torn"}, lspLive' = [lspLive EXCEPT ![f] = x],
             lspShown' = [lspShown EXCEPT ![f] = x], lspPiped' = lspPiped, Running' => Running
      PROVE  Covered'
  BY <1>0, <1>2 DEF Shows
<1>3. E!Uncovered = lspLive
  BY <1>0 DEF E!Uncovered, Shows
<1>4. ASSUME NEW f \in Files, FileStep(f) PROVE Covered'
  <2>1. CASE E!Close(f)
    BY <1>2, <2>1 DEF E!Close, Running
  <2>2. CASE ~E!Close(f)
    BY <1>1, <1>4, <2>2 DEF FileStep, E!Typed, E!Save, E!LiveTimer, E!ChangeOutside, Running
  <2> QED  BY <2>1, <2>2
<1>5. ASSUME NEW f \in Files, NEW q \in Seq(LspTask), E!IsOpen(f), E!Pass(f, q), lspPiped' = lspPiped,
             Running' => Running
      PROVE  Covered'
  <2>1. E!Errors(lspBuffer[f].text) \in SUBSET {"bad", "torn"}
    BY DEF E!Errors, E!Fast, E!Overlay
  <2> QED  BY <1>1, <1>2, <1>5, <2>1, PassCases
<1>6. ASSUME NEW f \in Files \cup {NoText}, E!Validate(f), f # NoText => f \in Files, Running' => Running PROVE Covered'
  <2>1. /\ lspPiped' = lspPiped
        /\ \/ UNCHANGED <<lspLive, lspShown>>
           \/ f \in Files /\ lspLive' = [lspLive EXCEPT ![f] = {}] /\ lspShown' = [lspShown EXCEPT ![f] = {}]
    BY <1>6 DEF E!Validate
  <2> QED  BY <1>1, <1>2, <1>6, <2>1
<1>7. ASSUME NEW f \in Files, HeldStep(f) PROVE Covered'
  <2>1. Running' => Running
    BY <1>7, HeldRuns
  <2>2. CASE LivePass(f)
    BY <1>5, <2>1, <2>2 DEF LivePass, EditorTyped, WaitingTyped
  <2>3. CASE SaveHeard(f)
    BY <1>6, <2>1, <2>3 DEF SaveHeard
  <2>4. CASE ~LivePass(f) /\ ~SaveHeard(f)
    BY <1>1, <1>7, <2>1, <2>4 DEF HeldStep, LiveAgain, LiveGone, CloseHeard, E!Reconcile, WatchPassed, WatchHeard
  <2> QED  BY <2>2, <2>3, <2>4
<1>8. ASSUME E!ChangeConfig \/ \E f \in Files \cup {NoText} : WatchHeard("config", f) PROVE Covered'
  BY <1>1, <1>8 DEF E!ChangeConfig, WatchHeard, Running
<1>9. ASSUME RunBegins PROVE Covered'
  BY <1>0, <1>3, <1>9 DEF RunBegins, Begun
<1>10. ASSUME NEW f \in Files, RowsBegin(f) PROVE Covered'
  <2>1. ~Running'
    BY <1>10, TaskRuns
  <2> QED  BY <1>1, <1>10, <2>1 DEF RowsBegin, Begun
<1>11. ASSUME NEW f \in Files, PassAgain(f) PROVE Covered'
  <2>1. ~Running'
    BY <1>11, TaskRuns
  <2>2. Tail(lspTasks) \in Seq(LspTask)
    BY <1>11, TaskLess DEF PassAgain, Ended, EditorTyped, WaitingTyped
  <2> QED  BY <1>5, <1>11, <2>1, <2>2 DEF PassAgain
<1>12. ASSUME NEW f \in Files, PassEnds(f) PROVE Covered'
  <2>1. ~Running'
    BY <1>12, TaskRuns
  <2>2. E!Overlay(lspPasses[f].text) \in SUBSET {"bad", "torn"}
    BY DEF E!Overlay
  <2> QED  BY <1>1, <1>2, <1>12, <2>1, <2>2 DEF PassEnds
<1>13. ASSUME ReconcileEnds PROVE Covered'
  <2>1. ~Running'
    BY <1>13, TaskRuns
  <2> QED  BY <1>1, <1>13, <2>1 DEF ReconcileEnds
<1>14. ASSUME RunEnds PROVE Covered'
  <2>1. Running /\ ~Running'
    BY <1>14, TaskRuns
  <2>2. \A f \in Files : lspShown[f] = lspLive[f]
    BY <1>0, <2>1
  <2>3. lspLive' = lspLive /\ \A f \in Files : \/ f \in lspPiped' /\ lspLive[f] \subseteq lspShown'[f]
                                               \/ f \notin lspPiped' /\ lspShown'[f] = lspShown[f]
    BY <1>14 DEF RunEnds
  <2> QED  BY <2>1, <2>2, <2>3
<1>15. ASSUME RunAsked PROVE Covered'
  BY <1>6, <1>15, LifeRuns DEF RunAsked
<1>16. ASSUME GoesDown PROVE Covered'
  <2>1. ~Running' /\ lspLive' = lspLive
    BY <1>16, LifeRuns DEF GoesDown
  <2>2. lspShown' = E!Uncovered \/ UNCHANGED <<lspShown, lspPiped>>
    BY <1>16 DEF GoesDown, E!Teardown
  <2> QED  BY <1>0, <1>1, <1>3, <2>1, <2>2
<1>17. ASSUME NEW g \in lspSetups, E!SetUp(g) PROVE Covered'
  BY <1>1, <1>17, LifeRuns DEF E!SetUp
<1>18. ASSUME UNCHANGED E!lsp PROVE Covered'
  BY <1>1, <1>18 DEF E!lsp, Running
<1> QED  BY <1>4, <1>7, <1>8, <1>9, <1>10, <1>11, <1>12, <1>13, <1>14, <1>15, <1>16, <1>17, <1>18, EditorSteps, LifeRuns
         DEF TaskStep, LifeStep

\* A document that a step leaves alone.
LEMMA LiveStays ==
  ASSUME Lives, NEW g \in Files,
         lspBuffer'[g] = lspBuffer[g], lspDisk'[g] = lspDisk[g], lspLive'[g] = lspLive[g],
         lspPasses'[g] = lspPasses[g], g \in lspMissed => g \in lspMissed',
         g \in lspTimers => g \in lspTimers' \/ IsHeld("live", g)',
         IsHeld("live", g) => IsHeld("live", g)', IsHeld("save", g) => IsHeld("save", g)'
  PROVE  LiveFine(g)'
<1>1. LiveFine(g)
  BY DEF Lives
<1>2. LiveDue(g) => LiveDue(g)'
  BY DEF LiveDue
<1>3. (LiveRight(g) => LiveRight(g)') /\ (Saved(g) => Saved(g)') /\ (E!IsOpen(g)' <=> E!IsOpen(g))
  BY DEF LiveRight, Saved, E!IsOpen, E!Errors, E!Fast, E!Overlay
<1> QED  BY <1>1, <1>2, <1>3 DEF LiveFine

\* A pass speaks for its document.
LEMMA PassLive ==
  ASSUME EditorConstants, EditorTyped, Lives, NEW f \in Files, E!IsOpen(f), NEW q \in Seq(LspTask), E!Pass(f, q),
         TextsStay, lspTimers' = lspTimers, \A c \in {"live", "save"} : \A g \in Files : g # f /\ IsHeld(c, g) => IsHeld(c, g)'
  PROVE  Lives'
<1>1. /\ lspLive \in Shows /\ lspPasses \in [Files -> [version : Nat, text : Texts, again : BOOLEAN]]
      /\ lspBuffer' = lspBuffer /\ lspDisk' = lspDisk
  BY DEF EditorTyped, ShownTyped, PassesTyped, TextsStay
<1>2. LiveFine(f)'
  <2>1. CASE f \in lspMissed'
    BY <2>1 DEF LiveFine
  <2>2. CASE lspLive' = [lspLive EXCEPT ![f] = E!Errors(lspBuffer[f].text)]
    <3>1. lspLive'[f] = E!Errors(lspBuffer[f].text)
      BY <1>1, <2>2 DEF Shows
    <3>2. LiveRight(f)'
      BY <1>1, <3>1 DEF LiveRight, E!Errors, E!Fast, E!Overlay
    <3> QED  BY <3>2 DEF LiveFine
  <2>3. CASE /\ lspBuffer[f].text \in {"ok", "bad"}
             /\ lspPasses' = [lspPasses EXCEPT ![f] = [version |-> lspBuffer[f].version, text |-> lspBuffer[f].text,
                                                       again |-> FALSE]]
    <3> DEFINE x == [version |-> lspBuffer[f].version, text |-> lspBuffer[f].text, again |-> FALSE]
    <3>1. x.version = lspBuffer[f].version /\ x # E!NoPass /\ lspPasses'[f] = x
      <4>1. lspBuffer[f].text \in E!Texts /\ x.text = lspBuffer[f].text /\ E!NoPass.text = NoText
        BY <2>3 DEF E!Texts, E!NoPass
      <4>2. lspPasses'[f] = x /\ x.version = lspBuffer[f].version
        BY <1>1, <2>3
      <4> QED  BY <4>1, <4>2 DEF EditorConstants
    <3> HIDE DEF x
    <3>2. LiveDue(f)'
      BY <1>1, <3>1 DEF LiveDue, E!NoPass
    <3> QED  BY <3>2 DEF LiveFine
  <2>4. f \in lspMissed \cup {f}
    OBVIOUS
  <2> QED  BY <2>1, <2>2, <2>3, <2>4, PassCases
<1>3. ASSUME NEW g \in Files, g # f PROVE LiveFine(g)'
  <2>1. lspPasses'[g] = lspPasses[g] /\ lspLive'[g] = lspLive[g] /\ (g \in lspMissed => g \in lspMissed')
    BY <1>1, <1>3, PassCases DEF Shows
  <2> QED  BY <1>1, <1>3, <2>1, LiveStays
<1> QED  BY <1>2, <1>3 DEF Lives

LEMMA LivesKept ==
  ASSUME EditorConstants, EditorTyped, LifeTyped, TasksInv, Lives, E!Next
  PROVE  Lives'
<1>0. /\ lspLive \in Shows /\ lspPasses \in [Files -> [version : Nat, text : Texts, again : BOOLEAN]]
      /\ lspTimers \subseteq {f \in Files : E!IsOpen(f)} /\ lspHeld \in Seq(Held) /\ lspTasks \in Seq(LspTask)
      /\ lspBuffer \in [Files -> [text : Texts, version : Nat]] /\ lspDisk \in [Files -> Texts]
  BY DEF EditorTyped, ShownTyped, PassesTyped, TextsTyped, WaitingTyped
<1>1. ASSUME UNCHANGED <<lspBuffer, lspDisk, lspLive, lspPasses, lspTimers>>, lspMissed \subseteq lspMissed',
             \A c \in {"live", "save"} : \A g \in Files : IsHeld(c, g) => IsHeld(c, g)'
      PROVE  Lives'
  BY <1>1, LiveStays DEF Lives
<1>2. lspHeld' = lspHeld => \A c, g : IsHeld(c, g)' <=> IsHeld(c, g)
  BY DEF IsHeld
<1>3. ASSUME NEW f \in Files, NEW t \in E!Texts, E!Typed(f, t) PROVE Lives'
  <2>1. LiveFine(f)'
    BY <1>3 DEF E!Typed, LiveFine, LiveDue
  <2>2. ASSUME NEW g \in Files, g # f PROVE LiveFine(g)'
    <3>1. lspBuffer'[g] = lspBuffer[g] /\ UNCHANGED <<lspDisk, lspLive, lspPasses, lspMissed, lspHeld>>
          /\ (g \in lspTimers => g \in lspTimers')
      BY <1>0, <1>3, <2>2 DEF E!Typed
    <3> QED  BY <1>2, <3>1, LiveStays
  <2> QED  BY <2>1, <2>2 DEF Lives
<1>4. ASSUME NEW f \in Files, E!Save(f) PROVE Lives'
  <2>1. \A c, g : IsHeld(c, g)' <=> IsHeld(c, g) \/ (c = "save" /\ g = f)
    BY <1>0, <1>4, HeldMore DEF E!Save, E!Hold, Kinds
  <2>2. LiveFine(f)'
    BY <2>1 DEF LiveFine, LiveDue
  <2>3. ASSUME NEW g \in Files, g # f PROVE LiveFine(g)'
    <3>1. lspDisk'[g] = lspDisk[g] /\ UNCHANGED <<lspBuffer, lspLive, lspPasses, lspMissed, lspTimers>>
      BY <1>0, <1>4, <2>3 DEF E!Save
    <3> QED  BY <2>1, <3>1, LiveStays
  <2> QED  BY <2>2, <2>3 DEF Lives
<1>5. ASSUME NEW f \in Files, E!Close(f) PROVE Lives'
  <2>1. \A c, g : IsHeld(c, g)' <=> IsHeld(c, g) \/ (c = "close" /\ g = f)
    BY <1>0, <1>5, HeldMore DEF E!Close, E!Hold, Kinds
  <2>2. LiveFine(f)'
    BY <1>0, <1>5 DEF E!Close, LiveFine, E!IsOpen
  <2>3. ASSUME NEW g \in Files, g # f PROVE LiveFine(g)'
    <3>1. /\ lspBuffer'[g] = lspBuffer[g] /\ lspLive'[g] = lspLive[g] /\ UNCHANGED <<lspDisk, lspPasses, lspMissed>>
          /\ (g \in lspTimers => g \in lspTimers')
      BY <1>0, <1>5, <2>3 DEF E!Close, Shows
    <3> QED  BY <2>1, <3>1, LiveStays
  <2> QED  BY <2>2, <2>3 DEF Lives
<1>6. ASSUME NEW f \in Files, NEW t \in Texts, E!ChangeOutside(f, t) PROVE Lives'
  <2>1. \A c, g : IsHeld(c, g)' <=> IsHeld(c, g) \/ (c = "watch" /\ g = f)
    BY <1>0, <1>6, HeldMore DEF E!ChangeOutside, E!Hold, Kinds
  <2>2. LiveFine(f)'
    BY <1>0, <1>6 DEF E!ChangeOutside, LiveFine, E!IsOpen
  <2>3. ASSUME NEW g \in Files, g # f PROVE LiveFine(g)'
    <3>1. /\ lspDisk'[g] = lspDisk[g] /\ UNCHANGED <<lspBuffer, lspLive, lspPasses, lspMissed, lspTimers>>
      BY <1>0, <1>6, <2>3 DEF E!ChangeOutside
    <3> QED  BY <2>1, <3>1, LiveStays
  <2> QED  BY <2>2, <2>3 DEF Lives
<1>7. ASSUME E!ChangeConfig PROVE Lives'
  <2>1. \A c, g : IsHeld(c, g)' <=> IsHeld(c, g) \/ (c = "config" /\ g = NoText)
    BY <1>0, <1>7, HeldMore DEF E!ChangeConfig, E!Hold, Kinds
  <2> QED  BY <1>1, <1>7, <2>1 DEF E!ChangeConfig
<1>8. ASSUME NEW f \in Files, E!LiveTimer(f) PROVE Lives'
  <2>1. \A c, g : IsHeld(c, g)' <=> IsHeld(c, g) \/ (c = "live" /\ g = f)
    BY <1>0, <1>8, HeldMore DEF E!LiveTimer, E!Hold, Kinds
  <2>2. UNCHANGED <<lspBuffer, lspDisk, lspLive, lspPasses, lspMissed>> /\ lspTimers' = lspTimers \ {f}
    BY <1>8 DEF E!LiveTimer, E!editor
  <2> QED  BY <2>1, <2>2, LiveStays DEF Lives
<1>9. ASSUME NEW f \in Files, HeldStep(f) PROVE Lives'
  <2>0. UNCHANGED <<lspBuffer, lspDisk>> /\ TextsStay
    BY <1>9, HeldRuns DEF TextsStay
  <2>1. PICK k \in Kinds : Took(k, f) /\ \A c, g : IsHeld(c, g) => IsHeld(c, g)' \/ (c = k /\ g = f)
    BY <1>9, HeldRuns
  <2>2. CASE LiveAgain(f)
    <3> DEFINE x == [lspPasses[f] EXCEPT !.again = TRUE]
    <3>1. lspPasses[f] \in [version : Nat, text : Texts, again : BOOLEAN]
      BY <1>0
    <3>2. x.again = TRUE
      BY <3>1
    <3>3. lspPasses' = [lspPasses EXCEPT ![f] = x] /\ UNCHANGED <<lspTimers, lspLive, lspMissed>>
      BY <2>2 DEF LiveAgain
    <3> HIDE DEF x
    <3>4. lspPasses'[f].again /\ \A g \in Files : g # f => lspPasses'[g] = lspPasses[g]
      BY <1>0, <3>2, <3>3
    <3>5. LiveFine(f)'
      BY <3>4 DEF LiveFine, LiveDue
    <3>6. \A g \in Files : g # f => LiveFine(g)'
      BY <2>0, <2>1, <3>3, <3>4, LiveStays
    <3> QED  BY <3>5, <3>6 DEF Lives
  <2>3. CASE LivePass(f)
    <3>1. E!IsOpen(f) /\ E!Pass(f, lspTasks) /\ lspTimers' = lspTimers
      BY <2>3 DEF LivePass
    <3> QED  BY <1>0, <2>0, <2>1, <3>1, PassLive
  <2>4. CASE LiveGone(f)
    <3>1. ~E!IsOpen(f) /\ UNCHANGED <<lspTimers, lspPasses, lspLive, lspMissed>>
      BY <2>4 DEF LiveGone
    <3>2. LiveFine(f)'
      BY <2>0, <3>1 DEF LiveFine, E!IsOpen
    <3>3. \A g \in Files : g # f => LiveFine(g)'
      BY <2>0, <2>1, <3>1, LiveStays
    <3> QED  BY <3>2, <3>3 DEF Lives
  <2>5. CASE CloseHeard(f)
    <3>1. k = "close" /\ UNCHANGED <<lspTimers, lspPasses, lspLive, lspMissed>>
      BY <2>1, <2>5 DEF CloseHeard, Took, E!Reconcile
    <3>2. \A c \in {"live", "save"} : \A g \in Files : IsHeld(c, g) => IsHeld(c, g)'
      BY <2>1, <3>1
    <3> QED  BY <1>1, <2>0, <3>1, <3>2
  <2>6. CASE SaveHeard(f)
    <3>1. /\ lspTimers' = lspTimers \ {f} /\ lspPasses' = lspPasses
          /\ \A g \in Files : g # f => lspLive'[g] = lspLive[g] /\ (g \in lspMissed => g \in lspMissed')
      BY <1>0, <2>6 DEF SaveHeard, E!Validate, Shows
    <3>2. \A g \in Files : g # f => LiveFine(g)'
      BY <2>0, <2>1, <3>1, LiveStays
    <3>3. f \in lspMissed' \/ (lspLive' = [lspLive EXCEPT ![f] = {}] /\ lspBuffer[f].text = lspDisk[f])
      BY <2>6 DEF SaveHeard, E!Validate, EditorConstants
    <3>4. f \in lspMissed' \/ Saved(f)'
      BY <1>0, <2>0, <3>3 DEF Saved, Shows
    <3> QED  BY <3>2, <3>4 DEF Lives, LiveFine
  <2>7. CASE WatchPassed(f) \/ WatchHeard("watch", f)
    <3>1. k = "watch" /\ UNCHANGED <<lspTimers, lspPasses, lspLive>> /\ lspMissed \subseteq lspMissed'
      BY <2>1, <2>7 DEF WatchPassed, WatchHeard, Took
    <3>2. \A c \in {"live", "save"} : \A g \in Files : IsHeld(c, g) => IsHeld(c, g)'
      BY <2>1, <3>1
    <3> QED  BY <1>1, <2>0, <3>1, <3>2
  <2> QED  BY <1>9, <2>2, <2>3, <2>4, <2>5, <2>6, <2>7 DEF HeldStep
<1>10. ASSUME NEW f \in Files \cup {NoText}, WatchHeard("config", f) PROVE Lives'
  <2>1. PICK k \in Kinds : Took(k, f) /\ \A c, g : IsHeld(c, g) => IsHeld(c, g)' \/ (c = k /\ g = f)
    BY <1>10, HeldRuns
  <2>2. k = "config" /\ UNCHANGED <<lspTimers, lspPasses, lspLive, lspMissed, lspBuffer, lspDisk>>
    BY <1>10, <2>1 DEF WatchHeard, Took, TextsStay
  <2>3. \A c \in {"live", "save"} : \A g \in Files : IsHeld(c, g) => IsHeld(c, g)'
    BY <2>1, <2>2
  <2> QED  BY <1>1, <2>2, <2>3
<1>11. ASSUME RunBegins \/ (\E f \in Files : RowsBegin(f)) \/ ReconcileEnds \/ RunEnds PROVE Lives'
  BY <1>1, <1>2, <1>11 DEF RunBegins, RowsBegin, Begun, ReconcileEnds, RunEnds, Ended, TextsStay
<1>12. ASSUME NEW f \in Files, PassAgain(f) PROVE Lives'
  <2>1. E!IsOpen(f) /\ E!Pass(f, Tail(lspTasks)) /\ lspTimers' = lspTimers /\ TextsStay /\ lspHeld' = lspHeld
    BY <1>12 DEF PassAgain, Ended
  <2>2. Tail(lspTasks) \in Seq(LspTask)
    BY <1>0, <1>12, TaskLess DEF PassAgain, Ended
  <2> QED  BY <1>2, <2>1, <2>2, PassLive
<1>13. ASSUME NEW f \in Files, PassEnds(f) PROVE Lives'
  <2>1. /\ UNCHANGED <<lspBuffer, lspDisk, lspTimers, lspHeld>>
        /\ lspPasses' = [lspPasses EXCEPT ![f] = E!NoPass] /\ lspMissed \subseteq lspMissed'
        /\ \A g \in Files : g # f => lspLive'[g] = lspLive[g]
    BY <1>0, <1>13 DEF PassEnds, Ended, TextsStay, Shows
  <2>2. \A g \in Files : g # f => LiveFine(g)'
    <3>1. \A g \in Files : g # f => lspPasses'[g] = lspPasses[g]
      BY <1>0, <2>1
    <3> QED  BY <1>2, <2>1, <3>1, LiveStays
  <2>3. CASE ~E!IsOpen(f) \/ f \in lspMissed
    BY <2>1, <2>2, <2>3 DEF Lives, LiveFine, E!IsOpen
  <2>4. CASE E!IsOpen(f) /\ f \notin lspMissed /\ E!Current(f)
    <3>1. /\ lspLive' = [lspLive EXCEPT ![f] = E!Overlay(lspPasses[f].text)]
          /\ f \in lspMissed' \/ lspBuffer[f].text = lspPasses[f].text
      BY <1>13, <2>4 DEF PassEnds, E!Current, E!Reopened
    <3>2. lspPasses[f].text \in {"ok", "bad"}
      <4>1. 1 \in DOMAIN lspTasks /\ LaidOver(lspTasks, 1, f)
        BY <1>0, <1>13, TaskLess DEF PassEnds, Ended
      <4> QED  BY <4>1 DEF TasksInv, Queue
    <3>3. lspLive'[f] = E!Errors(lspPasses[f].text)
      BY <1>0, <3>1, <3>2 DEF Shows, E!Errors, E!Fast
    <3>4. f \in lspMissed' \/ lspLive'[f] = E!Errors(lspBuffer'[f].text)
      BY <2>1, <3>1, <3>3
    <3>5. f \in lspMissed' \/ LiveRight(f)'
      BY <3>4 DEF LiveRight, E!Errors, E!Fast, E!Overlay
    <3> QED  BY <2>2, <3>5 DEF Lives, LiveFine
  <2>5. CASE E!IsOpen(f) /\ f \notin lspMissed /\ ~E!Current(f)
    <3>1. /\ UNCHANGED <<lspLive, lspMissed>> /\ ~lspPasses[f].again /\ lspBuffer[f].version # lspPasses[f].version
      BY <1>13, <2>5 DEF PassEnds, E!Current
    <3>2. LiveDue(f) => LiveDue(f)'
      BY <1>2, <2>1, <3>1 DEF LiveDue
    <3>3. (LiveRight(f) => LiveRight(f)') /\ (Saved(f) => Saved(f)')
      BY <2>1, <3>1 DEF LiveRight, Saved, E!Errors, E!Fast, E!Overlay
    <3>4. LiveFine(f)'
      BY <2>5, <3>2, <3>3 DEF Lives, LiveFine
    <3> QED  BY <2>2, <3>4 DEF Lives
  <2> QED  BY <2>2, <2>3, <2>4, <2>5 DEF Lives
<1>14. ASSUME RunAsked PROVE Lives'
  <2>1. UNCHANGED <<lspBuffer, lspDisk, lspTimers, lspPasses, lspHeld, lspLive, lspMissed>>
    BY <1>14 DEF RunAsked, TextsStay, E!Validate
  <2> QED  BY <1>1, <1>2, <2>1
<1>15. ASSUME GoesDown PROVE Lives'
  <2>1. /\ UNCHANGED <<lspBuffer, lspDisk, lspHeld, lspLive>> /\ lspPasses' = [f \in Files |-> E!NoPass]
        /\ lspMissed' = lspMissed \cup lspTimers \cup {f \in Files : lspPasses[f] # E!NoPass}
    BY <1>15 DEF GoesDown, E!Teardown, TextsStay
  <2>2. ASSUME NEW g \in Files PROVE LiveFine(g)'
    <3>1. CASE g \in lspTimers \/ lspPasses[g] # E!NoPass
      BY <2>1, <3>1 DEF LiveFine
    <3>2. CASE g \notin lspTimers /\ lspPasses[g] = E!NoPass
      BY <1>2, <2>1, <3>2, LiveStays
    <3> QED  BY <3>1, <3>2
  <2> QED  BY <2>2 DEF Lives
<1>16. ASSUME NEW g \in lspSetups, E!SetUp(g) PROVE Lives'
  BY <1>1, <1>2, <1>16 DEF E!SetUp, E!editor
<1>17. ASSUME UNCHANGED <<E!editor, E!lsp>> PROVE Lives'
  BY <1>1, <1>2, <1>17 DEF E!editor, E!lsp
<1> QED  BY <1>3, <1>4, <1>5, <1>6, <1>7, <1>8, <1>9, <1>10, <1>11, <1>12, <1>13, <1>14, <1>15, <1>16, <1>17,
            EditorSteps, LifeRuns DEF FileStep, TaskStep, LifeStep

LEMMA RunsOfDiskKept ==
  ASSUME EditorConstants, EditorTyped, LifeTyped, TasksInv, Life, RunsOfDisk, Noticed, E!Next
  PROVE  RunsOfDisk'
<1>0. /\ lspRows \in [Files -> Texts] /\ lspHeld \in Seq(Held) /\ lspTasks \in Seq(LspTask)
      /\ lspDisk \in [Files -> Texts] /\ (Running => lspTasks # <<>> /\ lspCompiler # 0)
  BY DEF EditorTyped, TextsTyped, WaitingTyped, Running, GoesOn, TasksInv
<1>1. CASE ~Running'
  BY <1>1 DEF RunsOfDisk
<1>2. ASSUME NEW f \in Files, Running => RunFine(f), lspRows'[f] = lspRows[f], lspDisk'[f] = lspDisk[f],
             \A c \in {"save", "watch"} : IsHeld(c, f) => IsHeld(c, f)', lspReady => lspReady',
             lspWatch.timer => lspWatch'.timer, RunLater => RunLater', Running
      PROVE  RunFine(f)'
  BY <1>2 DEF RunFine
<1>3. ASSUME UNCHANGED <<lspRows, lspDisk>>, lspReady => lspReady', Running' => Running, RunLater => RunLater',
             lspWatch.timer => lspWatch'.timer,
             \A c \in {"save", "watch"} : \A f \in Files : IsHeld(c, f) => IsHeld(c, f)'
      PROVE  RunsOfDisk'
  BY <1>2, <1>3 DEF RunsOfDisk
<1>4. ASSUME NEW k \in Kinds, NEW f \in Files \cup {NoText}, k # "config" => f \in Files, E!Hold(k, f)
      PROVE  /\ \A c, g : IsHeld(c, g) => IsHeld(c, g)'
             /\ IsHeld(k, f)'
  BY <1>0, <1>4, HeldMore DEF E!Hold
<1>5. /\ lspHeld' = lspHeld => \A c, g : IsHeld(c, g)' <=> IsHeld(c, g)
      /\ lspTasks' = lspTasks => (Running' <=> Running) /\ (RunLater' <=> RunLater)
  BY DEF IsHeld, Running, RunLater
<1>6. ASSUME NEW f \in Files, E!Save(f) \/ \E t \in Texts : E!ChangeOutside(f, t) PROVE RunsOfDisk'
  <2>1. PICK k \in {"save", "watch"} : E!Hold(k, f)
    BY <1>6 DEF E!Save, E!ChangeOutside
  <2>2. /\ UNCHANGED <<lspRows, lspReady, lspWatch, lspTasks>>
        /\ \A g \in Files : g # f => lspDisk'[g] = lspDisk[g]
    BY <1>0, <1>6 DEF E!Save, E!ChangeOutside, E!life
  <2>3. (\A c, g : IsHeld(c, g) => IsHeld(c, g)') /\ IsHeld(k, f)'
    BY <1>4, <2>1 DEF Kinds
  <2>4. RunFine(f)'
    BY <2>1, <2>3 DEF RunFine
  <2> QED  BY <1>2, <1>5, <2>2, <2>3, <2>4 DEF RunsOfDisk
<1>7. ASSUME NEW f \in Files, \/ \E t \in E!Texts : E!Typed(f, t)
                              \/ E!Close(f) \/ E!LiveTimer(f)
      PROVE  RunsOfDisk'
  <2>1. /\ UNCHANGED <<lspRows, lspDisk, lspReady, lspWatch, lspTasks>>
        /\ lspHeld' = lspHeld \/ E!Hold("close", f) \/ E!Hold("live", f)
    BY <1>7 DEF E!Typed, E!Close, E!LiveTimer, E!life, E!editor
  <2>2. \A c, g : IsHeld(c, g) => IsHeld(c, g)'
    BY <1>4, <1>5, <2>1 DEF Kinds
  <2> QED  BY <1>3, <1>5, <2>1, <2>2
<1>8. ASSUME E!ChangeConfig PROVE RunsOfDisk'
  <2>1. UNCHANGED <<lspRows, lspDisk, lspReady, lspWatch, lspTasks>> /\ E!Hold("config", NoText)
    BY <1>8 DEF E!ChangeConfig
  <2>2. \A c, g : IsHeld(c, g) => IsHeld(c, g)'
    BY <1>4, <2>1 DEF Kinds
  <2> QED  BY <1>3, <1>5, <2>1, <2>2
<1>9. ASSUME NEW f \in Files \cup {NoText}, (f \in Files /\ HeldStep(f)) \/ WatchHeard("config", f)
      PROVE  RunsOfDisk'
  <2>0. /\ lspReady /\ lspReady' /\ lspDisk' = lspDisk /\ lspCompiler' = lspCompiler
        /\ (Running' <=> Running) /\ (RunLater => RunLater')
    BY <1>9, HeldRuns DEF TextsStay, LifeStays
  <2>1. PICK k \in Kinds : Took(k, f) /\ \A c, g : IsHeld(c, g) => IsHeld(c, g)' \/ (c = k /\ g = f)
    BY <1>9, HeldRuns
  <2>2. CASE f \in Files /\ (LiveAgain(f) \/ LivePass(f) \/ LiveGone(f))
    <3>1. k = "live" /\ UNCHANGED <<lspRows, lspWatch>>
      BY <2>1, <2>2 DEF LiveAgain, LivePass, LiveGone, Took
    <3> QED  BY <1>3, <2>0, <2>1, <3>1
  <2>3. CASE f \in Files /\ CloseHeard(f)
    <3>1. /\ k = "close" /\ lspWatch' = lspWatch
          /\ \A g \in Files : lspRows'[g] = lspRows[g] \/ lspRows'[g] = lspDisk[g]
      BY <1>0, <2>1, <2>3 DEF CloseHeard, E!Reconcile, Took
    <3>2. ASSUME NEW g \in Files, Running PROVE RunFine(g)'
      <4>1. CASE lspRows'[g] = lspRows[g]
        BY <1>2, <2>0, <2>1, <3>1, <3>2, <4>1 DEF RunsOfDisk
      <4>2. CASE lspRows'[g] = lspDisk[g]
        BY <2>0, <4>2 DEF RunFine
      <4> QED  BY <3>1, <4>1, <4>2
    <3> QED  BY <2>0, <3>2 DEF RunsOfDisk
  <2>4. CASE f \in Files /\ SaveHeard(f)
    BY <1>0, <1>9, <2>0, <2>4, HeldRuns DEF RunsOfDisk, RunFine
  <2>5. CASE f \in Files /\ WatchPassed(f)
    <3>1. k = "watch" /\ UNCHANGED <<lspRows, lspWatch>> /\ E!IsOpen(f) /\ IsHeld("watch", f)
      BY <1>9, <2>1, <2>5, HeldRuns DEF WatchPassed, Took
    <3>2. ~Running
      BY <2>0, <2>5, <3>1 DEF Noticed
    <3> QED  BY <1>1, <2>0, <3>2
  <2>6. CASE WatchHeard("watch", f) \/ WatchHeard("config", f)
    BY <2>0, <2>6 DEF WatchHeard, RunsOfDisk, RunFine
  <2> QED  BY <1>9, <2>2, <2>3, <2>4, <2>5, <2>6 DEF HeldStep
<1>10. ASSUME RunBegins PROVE RunsOfDisk'
  BY <1>10 DEF RunBegins, Begun, TextsStay, RunsOfDisk, RunFine
<1>11. ASSUME ReconcileEnds \/ RunEnds \/ \E f \in Files : TaskStep(f) PROVE RunsOfDisk'
  BY <1>1, <1>11, TaskRuns DEF TaskStep
<1>12. ASSUME RunAsked PROVE RunsOfDisk'
  <2>1. UNCHANGED <<lspDisk, lspRows, lspReady, lspHeld>>
    BY <1>12 DEF RunAsked, TextsStay, LifeStays, E!Validate
  <2>2. (Running' <=> Running) /\ (Running => RunLater')
    BY <1>0, <1>12, LifeRuns
  <2>3. \A f \in Files : Running /\ RunFine(f) => RunFine(f)'
    BY <1>5, <2>1, <2>2 DEF RunFine
  <2> QED  BY <2>2, <2>3 DEF RunsOfDisk
<1>13. ASSUME GoesDown PROVE RunsOfDisk'
  BY <1>1, <1>13, LifeRuns
<1>14. ASSUME NEW t \in lspTeardowns, E!TornDown(t) PROVE RunsOfDisk'
  BY <1>0, <1>1, <1>5, <1>14, LifeStages, LifeRuns DEF E!lsp
<1>15. ASSUME NEW g \in lspSetups, E!SetUp(g) \/ E!SetUpFails(g) PROVE RunsOfDisk'
  <2>1. ~Running
    BY <1>0, LifeStages
  <2> QED  BY <1>1, <1>5, <1>15, <2>1, LifeRuns DEF E!lsp
<1> QED  BY <1>6, <1>7, <1>8, <1>9, <1>10, <1>11, <1>12, <1>13, <1>14, <1>15, EditorSteps DEF FileStep, LifeStep

\* What stays when the handlers, or the tasks, are left alone; and what one handler more changes.
LEMMA Waits ==
  ASSUME EditorTyped
  PROVE  /\ lspHeld' = lspHeld => /\ \A c, g : IsHeld(c, g)' <=> IsHeld(c, g)
                                  /\ \A c : AnyHeld(c)' <=> AnyHeld(c)
         /\ lspTasks' = lspTasks => (Running' <=> Running) /\ (RunLater' <=> RunLater)
         /\ \A k \in Kinds : \A f \in Files \cup {NoText} :
              (k # "config" => f \in Files) /\ E!Hold(k, f) =>
                 /\ \A c, g : IsHeld(c, g)' <=> IsHeld(c, g) \/ (c = k /\ g = f)
                 /\ \A c : AnyHeld(c)' <=> AnyHeld(c) \/ c = k
<1>1. lspHeld' = lspHeld => /\ \A c, g : IsHeld(c, g)' <=> IsHeld(c, g)
                            /\ \A c : AnyHeld(c)' <=> AnyHeld(c)
  BY DEF IsHeld, AnyHeld
<1>2. lspTasks' = lspTasks => (Running' <=> Running) /\ (RunLater' <=> RunLater)
  BY DEF Running, RunLater
<1>3. ASSUME NEW k \in Kinds, NEW f \in Files \cup {NoText}, k # "config" => f \in Files, E!Hold(k, f)
      PROVE  /\ \A c, g : IsHeld(c, g)' <=> IsHeld(c, g) \/ (c = k /\ g = f)
             /\ \A c : AnyHeld(c)' <=> AnyHeld(c) \/ c = k
  BY <1>3, HeldMore DEF EditorTyped, WaitingTyped, E!Hold
<1> QED  BY <1>1, <1>2, <1>3

\* What happens to a file and its document, and what it leaves alone.
LEMMA FileSteps ==
  ASSUME EditorConstants, EditorTyped, NEW f \in Files, FileStep(f)
  PROVE  /\ UNCHANGED <<lspPasses, lspTasks, lspRows, lspPiped, lspWatch, lspMissed, lspGhosts>>
         /\ LifeStays /\ (Running' <=> Running) /\ (RunLater' <=> RunLater)
         /\ \A c, g : IsHeld(c, g) => IsHeld(c, g)'
         /\ \A c : AnyHeld(c) => AnyHeld(c)'
         /\ \A c, g : IsHeld(c, g)' => IsHeld(c, g) \/ g = f
         /\ \A g \in Files : g # f => /\ lspBuffer'[g] = lspBuffer[g] /\ lspDisk'[g] = lspDisk[g]
                                      /\ lspLive'[g] = lspLive[g] /\ lspShown'[g] = lspShown[g]
                                      /\ g \in lspTimers' <=> g \in lspTimers
         /\ \/ /\ E!Free /\ f \in lspTimers' /\ E!IsOpen(f)' /\ UNCHANGED <<lspDisk, lspLive, lspShown, lspHeld>>
            \/ /\ E!IsOpen(f) /\ IsHeld("save", f)' /\ AnyHeld("save")'
               /\ UNCHANGED <<lspBuffer, lspLive, lspShown, lspTimers>>
               /\ \A g : IsHeld("watch", g)' => IsHeld("watch", g)
            \/ /\ ~E!IsOpen(f)' /\ IsHeld("close", f)' /\ lspDisk' = lspDisk
               /\ \A g : IsHeld("watch", g)' => IsHeld("watch", g)
            \/ /\ ~E!IsOpen(f) /\ ~E!IsOpen(f)' /\ IsHeld("watch", f)' /\ AnyHeld("watch")'
               /\ UNCHANGED <<lspBuffer, lspLive, lspShown, lspTimers>>
            \/ /\ f \in lspTimers /\ IsHeld("live", f)' /\ UNCHANGED <<lspBuffer, lspDisk, lspLive, lspShown>>
               /\ \A g : IsHeld("watch", g)' => IsHeld("watch", g)
<1>0. /\ lspLive \in Shows /\ lspShown \in Shows /\ lspDisk \in [Files -> Texts]
      /\ lspBuffer \in [Files -> [text : Texts, version : Nat]]
  BY DEF EditorTyped, ShownTyped, TextsTyped
<1>1. UNCHANGED <<lspPasses, lspTasks, lspRows, lspPiped, lspWatch, lspMissed, lspGhosts>> /\ LifeStays
  BY DEF FileStep, E!Typed, E!Save, E!Close, E!LiveTimer, E!ChangeOutside, E!life, LifeStays
<1>2. /\ (Running' <=> Running) /\ (RunLater' <=> RunLater)
      /\ lspHeld' = lspHeld => /\ \A c, g : IsHeld(c, g)' <=> IsHeld(c, g)
                               /\ \A c : AnyHeld(c)' <=> AnyHeld(c)
      /\ \A k \in Kinds : k # "config" /\ E!Hold(k, f) =>
           /\ \A c, g : IsHeld(c, g)' <=> IsHeld(c, g) \/ (c = k /\ g = f)
           /\ \A c : AnyHeld(c)' <=> AnyHeld(c) \/ c = k
  BY <1>1, Waits
<1>3. CASE \E t \in E!Texts : E!Typed(f, t)
  <2>1. /\ E!Free /\ f \in lspTimers' /\ UNCHANGED <<lspDisk, lspLive, lspShown, lspHeld>>
        /\ \A g \in Files : g # f => lspBuffer'[g] = lspBuffer[g] /\ (g \in lspTimers' <=> g \in lspTimers)
    BY <1>0, <1>3 DEF E!Typed, E!Event
  <2>2. E!IsOpen(f)'
    BY <1>0, <1>3 DEF E!Typed, E!IsOpen, E!Closed, EditorConstants
  <2> QED  BY <1>1, <1>2, <2>1, <2>2
<1>4. CASE E!Save(f)
  <2>1. /\ E!IsOpen(f) /\ E!Hold("save", f) /\ UNCHANGED <<lspBuffer, lspLive, lspShown, lspTimers>>
        /\ \A g \in Files : g # f => lspDisk'[g] = lspDisk[g]
    BY <1>0, <1>4 DEF E!Save
  <2>2. /\ \A c, g : IsHeld(c, g)' <=> IsHeld(c, g) \/ (c = "save" /\ g = f)
        /\ \A c : AnyHeld(c)' <=> AnyHeld(c) \/ c = "save"
    BY <1>2, <2>1 DEF Kinds
  <2> QED  BY <1>1, <1>2, <2>1, <2>2
<1>5. CASE E!Close(f)
  <2>1. /\ E!Hold("close", f) /\ lspDisk' = lspDisk
        /\ \A g \in Files : g # f => /\ lspBuffer'[g] = lspBuffer[g] /\ lspLive'[g] = lspLive[g]
                                     /\ lspShown'[g] = lspShown[g] /\ (g \in lspTimers' <=> g \in lspTimers)
    BY <1>0, <1>5 DEF E!Close, Shows
  <2>2. /\ \A c, g : IsHeld(c, g)' <=> IsHeld(c, g) \/ (c = "close" /\ g = f)
        /\ \A c : AnyHeld(c)' <=> AnyHeld(c) \/ c = "close"
    BY <1>2, <2>1 DEF Kinds
  <2>3. ~E!IsOpen(f)'
    BY <1>0, <1>5 DEF E!Close, E!IsOpen
  <2> QED  BY <1>1, <1>2, <2>1, <2>2, <2>3
<1>6. CASE \E t \in Texts : E!ChangeOutside(f, t)
  <2>1. /\ ~E!IsOpen(f) /\ E!Hold("watch", f) /\ UNCHANGED <<lspBuffer, lspLive, lspShown, lspTimers>>
        /\ \A g \in Files : g # f => lspDisk'[g] = lspDisk[g]
    BY <1>0, <1>6 DEF E!ChangeOutside
  <2>2. /\ \A c, g : IsHeld(c, g)' <=> IsHeld(c, g) \/ (c = "watch" /\ g = f)
        /\ \A c : AnyHeld(c)' <=> AnyHeld(c) \/ c = "watch"
    BY <1>2, <2>1 DEF Kinds
  <2>3. ~E!IsOpen(f)'
    BY <2>1 DEF E!IsOpen
  <2> QED  BY <1>1, <1>2, <2>1, <2>2, <2>3
<1>7. CASE E!LiveTimer(f)
  <2>1. /\ f \in lspTimers /\ E!Hold("live", f) /\ UNCHANGED <<lspBuffer, lspDisk, lspLive, lspShown>>
        /\ lspTimers' = lspTimers \ {f}
    BY <1>7 DEF E!LiveTimer, E!editor
  <2>2. /\ \A c, g : IsHeld(c, g)' <=> IsHeld(c, g) \/ (c = "live" /\ g = f)
        /\ \A c : AnyHeld(c)' <=> AnyHeld(c) \/ c = "live"
    BY <1>2, <2>1 DEF Kinds
  <2> QED  BY <1>1, <1>2, <2>1, <2>2
<1> QED  BY <1>3, <1>4, <1>5, <1>6, <1>7 DEF FileStep

LEMMA NoticedKept ==
  ASSUME EditorConstants, EditorTyped, LifeTyped, TasksInv, Life, FullFirst, Noticed, E!Next
  PROVE  Noticed'
<1>0. /\ lspTimers \subseteq Files /\ lspHeld \in Seq(Held) /\ lspTasks \in Seq(LspTask)
      /\ lspReady \in BOOLEAN /\ (Running => lspTasks # <<>> /\ lspCompiler # 0)
  BY DEF EditorTyped, TextsTyped, WaitingTyped, Running, GoesOn, TasksInv, LifeTyped
<1>1. /\ lspReady /\ Running => \A f \in Files : IsHeld("watch", f) => ~E!IsOpen(f)
      /\ ~lspReady => \A f \in Files \ lspMissed :
           IsHeld("watch", f) /\ E!IsOpen(f) => f \in lspTimers \/ IsHeld("live", f) \/ IsHeld("save", f)
  BY DEF Noticed
<1>2. E!Free /\ lspReady => \A c, g : ~IsHeld(c, g)
  BY DEF E!Free, IsHeld
<1>3. lspBuffer' = lspBuffer => \A f : E!IsOpen(f)' <=> E!IsOpen(f)
  BY DEF E!IsOpen
<1>4. ASSUME NEW f \in Files, FileStep(f) PROVE Noticed'
  <2>1. \A g \in Files : g # f => (E!IsOpen(g)' <=> E!IsOpen(g)) /\ (IsHeld("watch", g)' => IsHeld("watch", g))
    BY <1>4, FileSteps DEF E!IsOpen
  <2>2. lspReady' = lspReady /\ lspMissed' = lspMissed /\ (Running' <=> Running)
    BY <1>4, FileSteps DEF LifeStays
  <2>3. ASSUME lspReady, Running, NEW g \in Files, IsHeld("watch", g)' PROVE ~E!IsOpen(g)'
    BY <1>1, <1>2, <1>3, <1>4, <2>1, <2>3, FileSteps, Waits
  <2>4. ASSUME ~lspReady, NEW g \in Files \ lspMissed, IsHeld("watch", g)', E!IsOpen(g)'
        PROVE  g \in lspTimers' \/ IsHeld("live", g)' \/ IsHeld("save", g)'
    <3>1. CASE g # f
      BY <1>1, <1>4, <2>1, <2>4, <3>1, FileSteps
    <3>2. CASE g = f
      BY <1>1, <1>3, <1>4, <2>4, <3>2, FileSteps
    <3> QED  BY <3>1, <3>2
  <2> QED  BY <2>2, <2>3, <2>4 DEF Noticed
<1>5. ASSUME E!ChangeConfig PROVE Noticed'
  <2>1. UNCHANGED <<lspReady, lspTimers, lspMissed, lspTasks, lspBuffer>> /\ E!Hold("config", NoText)
    BY <1>5 DEF E!ChangeConfig
  <2>2. \A c, g : IsHeld(c, g)' <=> IsHeld(c, g) \/ (c = "config" /\ g = NoText)
    BY <2>1, Waits DEF Kinds
  <2> QED  BY <1>1, <1>3, <2>1, <2>2, Waits DEF Noticed
<1>6. ASSUME (\E f \in Files : HeldStep(f)) \/ \E f \in Files \cup {NoText} : WatchHeard("config", f)
      PROVE  Noticed'
  <2>1. /\ lspReady /\ lspReady' /\ lspBuffer' = lspBuffer /\ (Running' <=> Running)
        /\ \A c, g : IsHeld(c, g)' => IsHeld(c, g)
    BY <1>6, HeldRuns DEF TextsStay, LifeStays
  <2> QED  BY <1>1, <1>3, <2>1 DEF Noticed
<1>7. ASSUME RunBegins \/ \E f \in Files : RowsBegin(f) PROVE Noticed'
  <2>1. E!Free /\ UNCHANGED <<lspReady, lspTimers, lspMissed, lspHeld, lspBuffer>>
    BY <1>7 DEF RunBegins, RowsBegin, Begun, TextsStay, LifeStays
  <2> QED  BY <1>1, <1>2, <1>3, <2>1, Waits DEF Noticed
<1>8. ASSUME ReconcileEnds \/ RunEnds \/ \E f \in Files : PassAgain(f) \/ PassEnds(f) PROVE Noticed'
  <2>1. /\ lspTasks # <<>> /\ lspReady' = (lspReady \/ lspTasks[1].kind = "full") /\ ~Running'
    BY <1>8, TaskRuns DEF ReconcileEnds, RunEnds, PassAgain, PassEnds, Ended
  <2>2. 1 \in DOMAIN lspTasks
    BY <1>0, <2>1, TaskLess
  <2>3. lspReady'
    BY <2>1, <2>2 DEF FullFirst
  <2> QED  BY <2>1, <2>3 DEF Noticed
<1>9. ASSUME RunAsked PROVE Noticed'
  <2>1. UNCHANGED <<lspReady, lspTimers, lspMissed, lspHeld, lspBuffer>> /\ (Running' <=> Running)
    BY <1>9, LifeRuns DEF RunAsked, TextsStay, LifeStays, E!Validate
  <2> QED  BY <1>1, <1>3, <2>1, Waits DEF Noticed
<1>10. ASSUME GoesDown PROVE Noticed'
  <2>1. /\ UNCHANGED <<lspReady, lspHeld, lspBuffer>> /\ ~Running'
        /\ lspTimers \subseteq lspMissed' /\ lspMissed \subseteq lspMissed'
    BY <1>10, LifeRuns DEF GoesDown, TextsStay, E!Teardown
  <2> QED  BY <1>1, <1>3, <2>1, Waits DEF Noticed
<1>11. ASSUME NEW t \in lspTeardowns, E!TornDown(t) PROVE Noticed'
  <2>1. /\ UNCHANGED <<lspTimers, lspMissed, lspHeld, lspBuffer, lspTasks>> /\ ~Running /\ E!Free
    BY <1>0, <1>11, LifeStages DEF E!TornDown, E!lsp, E!editor
  <2> QED  BY <1>0, <1>1, <1>2, <1>3, <2>1, Waits DEF Noticed
<1>12. ASSUME NEW g \in lspSetups, E!SetUp(g) \/ E!SetUpFails(g) PROVE Noticed'
  <2>1. ~Running /\ ~lspReady
    BY <1>0, LifeStages
  <2>2. ~Running' /\ UNCHANGED <<lspTimers, lspMissed, lspHeld, lspBuffer>> /\ (lspReady' = lspReady \/ lspReady' = TRUE)
    BY <1>12, <2>1, LifeRuns, Waits DEF E!SetUp, E!SetUpFails, E!lsp, E!editor
  <2> QED  BY <1>1, <1>3, <2>1, <2>2, Waits DEF Noticed
<1> QED  BY <1>4, <1>5, <1>6, <1>7, <1>8, <1>9, <1>10, <1>11, <1>12, EditorSteps DEF TaskStep, LifeStep

\* What a step that leaves a document alone keeps of what is due for it.
LEMMA DueStays ==
  ASSUME NEW g \in Files, lspBuffer'[g] = lspBuffer[g], lspPasses'[g] = lspPasses[g],
         g \in lspTimers => g \in lspTimers' \/ IsHeld("live", g)',
         IsHeld("live", g) => IsHeld("live", g)', IsHeld("save", g) => IsHeld("save", g)'
  PROVE  LiveDue(g) => LiveDue(g)'
BY DEF LiveDue

\* A pass is out for its document, if it found no error itself.
LEMMA PassDue ==
  ASSUME EditorConstants, EditorTyped, NEW f \in Files, E!IsOpen(f), NEW q \in Seq(LspTask), E!Pass(f, q),
         TextsStay
  PROVE  /\ \A g \in Files : g # f => /\ lspPasses'[g] = lspPasses[g] /\ lspLive'[g] = lspLive[g]
                                      /\ lspShown'[g] = lspShown[g] /\ (g \in lspMissed => g \in lspMissed')
         /\ lspCompiler = 0 \/ lspShown'[f] = lspLive'[f]
         /\ lspCompiler = 0 \/ LiveDue(f)' \/ LiveRight(f)'
<1>1. /\ lspLive \in Shows /\ lspShown \in Shows /\ lspBuffer' = lspBuffer
      /\ lspPasses \in [Files -> [version : Nat, text : Texts, again : BOOLEAN]]
  BY DEF EditorTyped, ShownTyped, PassesTyped, TextsStay
<1>2. \A g \in Files : g # f => /\ lspPasses'[g] = lspPasses[g] /\ lspLive'[g] = lspLive[g]
                                /\ lspShown'[g] = lspShown[g] /\ (g \in lspMissed => g \in lspMissed')
  BY <1>1, PassCases DEF Shows
<1>3. lspCompiler = 0 \/ lspShown'[f] = lspLive'[f]
  <2>1. lspCompiler = 0 \/ \E x : lspLive' = [lspLive EXCEPT ![f] = x] /\ lspShown' = [lspShown EXCEPT ![f] = x]
    BY PassCases
  <2> QED  BY <1>1, <2>1 DEF Shows
<1>4. CASE lspLive' = [lspLive EXCEPT ![f] = E!Errors(lspBuffer[f].text)]
  <2>1. lspLive'[f] = E!Errors(lspBuffer'[f].text)
    BY <1>1, <1>4 DEF Shows
  <2>2. LiveRight(f)'
    BY <2>1 DEF LiveRight, E!Errors, E!Fast, E!Overlay
  <2> QED  BY <1>2, <1>3, <2>2
<1>5. CASE /\ lspBuffer[f].text \in {"ok", "bad"}
           /\ lspPasses' = [lspPasses EXCEPT ![f] = [version |-> lspBuffer[f].version, text |-> lspBuffer[f].text,
                                                     again |-> FALSE]]
  <2> DEFINE x == [version |-> lspBuffer[f].version, text |-> lspBuffer[f].text, again |-> FALSE]
  <2>1. lspBuffer[f].text \in E!Texts /\ x.text = lspBuffer[f].text /\ E!NoPass.text = NoText
    BY <1>5 DEF E!Texts, E!NoPass
  <2>2. lspPasses'[f] = x /\ x.version = lspBuffer[f].version
    BY <1>1, <1>5
  <2>3. x # E!NoPass
    BY <2>1 DEF EditorConstants
  <2> HIDE DEF x
  <2>4. LiveDue(f)'
    BY <1>1, <2>2, <2>3 DEF LiveDue, E!NoPass
  <2> QED  BY <1>2, <1>3, <2>4
<1> QED  BY <1>2, <1>3, <1>4, <1>5, PassCases

\* What stays asked of the lock.
LEMMA AskedStays ==
  ASSUME Asked, lspCompiler' = lspCompiler, lspWatch.timer => lspWatch'.timer \/ lspCompiler = 0 \/ RunLater',
         RunLater => RunLater', AnyHeld("save") => AnyHeld("save")' \/ RunLater', AnyHeld("config") => AnyHeld("config")' \/ lspWatch'.timer
  PROVE  Asked'
BY DEF Asked

LEMMA AboveKept ==
  ASSUME EditorConstants, EditorTyped, LifeTyped, TasksInv, Covered, RunsOfDisk, Noticed, Above, E!Next
  PROVE  Above'
<1>0. /\ lspLive \in Shows /\ lspShown \in Shows /\ lspPasses \in [Files -> [version : Nat, text : Texts, again : BOOLEAN]]
      /\ lspTimers \subseteq {f \in Files : E!IsOpen(f)} /\ lspTasks \in Seq(LspTask)
      /\ lspBuffer \in [Files -> [text : Texts, version : Nat]] /\ lspDisk \in [Files -> Texts]
  BY DEF EditorTyped, ShownTyped, PassesTyped, TextsTyped, WaitingTyped
<1>1. ASSUME NEW g \in Files, g \in lspMissed => g \in lspMissed', LiveDue(g) => LiveDue(g)', Asked => Asked',
             lspBuffer'[g] = lspBuffer[g], lspDisk'[g] = lspDisk[g], lspLive'[g] = lspLive[g], lspShown'[g] = lspShown[g]
      PROVE  AboveFine(g)'
  BY <1>1 DEF Above, AboveFine, E!IsOpen, E!Errors, E!Fast, E!Overlay
<1>2. ASSUME Asked' PROVE Above'
  BY <1>2 DEF Above, AboveFine
<1>3. ASSUME NEW f \in Files, FileStep(f) PROVE Above'
  <2>1. Asked => Asked'
    BY <1>3, FileSteps, AskedStays DEF LifeStays
  <2>2. ASSUME NEW g \in Files, g # f PROVE AboveFine(g)'
    BY <1>1, <1>3, <2>1, <2>2, FileSteps, DueStays
  <2>3. AboveFine(f)'
    <3>1. CASE E!IsOpen(f)' /\ f \in lspTimers'
      BY <3>1 DEF AboveFine, LiveDue
    <3>2. CASE ~E!IsOpen(f)' \/ IsHeld("save", f)' \/ IsHeld("live", f)'
      BY <3>2 DEF AboveFine, LiveDue
    <3> QED  BY <1>3, <3>1, <3>2, FileSteps
  <2> QED  BY <2>2, <2>3 DEF Above
<1>4. ASSUME E!ChangeConfig PROVE Above'
  <2>1. AnyHeld("config")'
    BY <1>4, Waits DEF E!ChangeConfig, Kinds
  <2> QED  BY <1>2, <2>1 DEF Asked
<1>5. ASSUME NEW f \in Files, NEW q \in Seq(LspTask), E!IsOpen(f), E!Pass(f, q), TextsStay, lspTimers' = lspTimers,
             \A c \in {"live", "save"} : \A g \in Files : g # f /\ IsHeld(c, g) => IsHeld(c, g)', Asked => Asked',
             lspCompiler' = lspCompiler
      PROVE  Above'
  <2>1. UNCHANGED <<lspBuffer, lspDisk>>
    BY <1>5 DEF TextsStay
  <2>2. ASSUME NEW g \in Files, g # f PROVE AboveFine(g)'
    <3>1. /\ lspPasses'[g] = lspPasses[g] /\ lspLive'[g] = lspLive[g]
          /\ lspShown'[g] = lspShown[g] /\ (g \in lspMissed => g \in lspMissed')
      BY <1>5, <2>2, PassDue
    <3>2. LiveDue(g) => LiveDue(g)'
      BY <1>5, <2>1, <2>2, <3>1, DueStays
    <3> QED  BY <1>1, <1>5, <2>1, <3>1, <3>2
  <2>3. AboveFine(f)'
    BY <1>5, PassDue DEF AboveFine, Asked
  <2> QED  BY <2>2, <2>3 DEF Above
<1>6. ASSUME NEW f \in Files, HeldStep(f) PROVE Above'
  <2>0. /\ UNCHANGED <<lspBuffer, lspDisk, lspCompiler>> /\ TextsStay /\ (RunLater => RunLater')
    BY <1>6, HeldRuns DEF TextsStay, LifeStays
  <2>1. PICK k \in Kinds : /\ Took(k, f) /\ \A c, g : IsHeld(c, g) => IsHeld(c, g)' \/ (c = k /\ g = f)
                           /\ \A c : AnyHeld(c) => AnyHeld(c)' \/ c = k
    BY <1>6, HeldRuns
  <2>2. CASE LiveAgain(f)
    <3> DEFINE x == [lspPasses[f] EXCEPT !.again = TRUE]
    <3>1. lspPasses[f] \in [version : Nat, text : Texts, again : BOOLEAN]
      BY <1>0
    <3>2. x.again = TRUE
      BY <3>1
    <3>3. lspPasses' = [lspPasses EXCEPT ![f] = x] /\ UNCHANGED <<lspTimers, lspLive, lspMissed, lspShown, lspWatch>>
      BY <2>2 DEF LiveAgain
    <3>4. k = "live"
      BY <2>1, <2>2 DEF LiveAgain, Took
    <3> HIDE DEF x
    <3>5. lspPasses'[f].again /\ \A g \in Files : g # f => lspPasses'[g] = lspPasses[g]
      BY <1>0, <3>2, <3>3
    <3>6. AboveFine(f)'
      BY <3>5 DEF AboveFine, LiveDue
    <3>7. Asked => Asked'
      BY <2>0, <2>1, <3>3, <3>4, AskedStays
    <3>8. \A g \in Files : g # f => AboveFine(g)'
      BY <1>1, <2>0, <2>1, <3>3, <3>5, <3>7, DueStays
    <3> QED  BY <3>6, <3>8 DEF Above
  <2>3. CASE LivePass(f)
    <3>1. E!IsOpen(f) /\ E!Pass(f, lspTasks) /\ UNCHANGED <<lspTimers, lspWatch>> /\ k = "live"
      BY <2>1, <2>3 DEF LivePass, Took
    <3>2. Asked => Asked'
      BY <2>0, <2>1, <3>1, AskedStays
    <3> QED  BY <1>0, <1>5, <2>0, <2>1, <3>1, <3>2
  <2>4. CASE LiveGone(f)
    <3>1. ~E!IsOpen(f) /\ UNCHANGED <<lspTimers, lspPasses, lspLive, lspMissed, lspShown, lspWatch>> /\ k = "live"
      BY <2>1, <2>4 DEF LiveGone, Took
    <3>2. AboveFine(f)'
      BY <2>0, <3>1 DEF AboveFine, E!IsOpen
    <3>3. Asked => Asked'
      BY <2>0, <2>1, <3>1, AskedStays
    <3>4. \A g \in Files : g # f => AboveFine(g)'
      BY <1>1, <2>0, <2>1, <3>1, <3>3, DueStays
    <3> QED  BY <3>2, <3>4 DEF Above
  <2>5. CASE CloseHeard(f)
    <3>1. k = "close" /\ UNCHANGED <<lspTimers, lspPasses, lspLive, lspMissed, lspShown, lspWatch>>
      BY <2>1, <2>5 DEF CloseHeard, Took, E!Reconcile
    <3>2. Asked => Asked'
      BY <2>0, <2>1, <3>1, AskedStays
    <3> QED  BY <1>1, <2>0, <2>1, <3>1, <3>2, DueStays DEF Above
  <2>6. CASE SaveHeard(f)
    BY <1>2, <1>6, <2>0, <2>6, HeldRuns DEF Asked
  <2>7. CASE WatchPassed(f)
    <3>1. k = "watch" /\ UNCHANGED <<lspTimers, lspPasses, lspLive, lspShown, lspWatch>> /\ lspMissed \subseteq lspMissed'
      BY <2>1, <2>7 DEF WatchPassed, Took
    <3>2. Asked => Asked'
      BY <2>0, <2>1, <3>1, AskedStays
    <3> QED  BY <1>1, <2>0, <2>1, <3>1, <3>2, DueStays DEF Above
  <2>8. CASE WatchHeard("watch", f)
    BY <1>2, <2>8 DEF WatchHeard, Asked
  <2> QED  BY <1>6, <2>2, <2>3, <2>4, <2>5, <2>6, <2>7, <2>8 DEF HeldStep
<1>7. ASSUME NEW f \in Files \cup {NoText}, WatchHeard("config", f) PROVE Above'
  BY <1>2, <1>7 DEF WatchHeard, Asked
<1>8. ASSUME RunBegins PROVE Above'
  <2>1. lspShown' = E!Uncovered /\ lspLive' = lspLive
    BY <1>8 DEF RunBegins, Begun
  <2>2. \A f \in Files : lspShown'[f] = lspLive'[f]
    BY <2>1 DEF E!Uncovered, Covered
  <2> QED  BY <2>2 DEF Above, AboveFine
<1>9. ASSUME (\E f \in Files : RowsBegin(f)) \/ ReconcileEnds PROVE Above'
  <2>1. UNCHANGED <<lspBuffer, lspDisk, lspCompiler, lspTimers, lspPasses, lspHeld, lspLive, lspWatch, lspMissed, lspShown>>
    BY <1>9 DEF RowsBegin, Begun, ReconcileEnds, Ended, TextsStay, LifeStays
  <2>2. Asked => Asked'
    BY <1>9, <2>1, TaskRuns, Waits, AskedStays
  <2> QED  BY <1>1, <2>1, <2>2, Waits, DueStays DEF Above
<1>10. ASSUME NEW f \in Files, PassAgain(f) PROVE Above'
  <2>1. /\ E!IsOpen(f) /\ E!Pass(f, Tail(lspTasks)) /\ TextsStay /\ UNCHANGED <<lspTimers, lspHeld, lspCompiler, lspWatch>>
    BY <1>10 DEF PassAgain, Ended
  <2>2. Tail(lspTasks) \in Seq(LspTask)
    BY <1>0, <1>10, TaskLess DEF PassAgain, Ended
  <2>3. Asked => Asked'
    BY <1>10, <2>1, TaskRuns, Waits, AskedStays
  <2> QED  BY <1>5, <2>1, <2>2, <2>3, Waits
<1>11. ASSUME NEW f \in Files, PassEnds(f) PROVE Above'
  <2>1. /\ UNCHANGED <<lspBuffer, lspDisk, lspTimers, lspHeld, lspCompiler, lspWatch>>
        /\ lspPasses' = [lspPasses EXCEPT ![f] = E!NoPass] /\ lspMissed \subseteq lspMissed'
        /\ \A g \in Files : g # f => lspLive'[g] = lspLive[g] /\ lspShown'[g] = lspShown[g]
    BY <1>0, <1>11 DEF PassEnds, Ended, TextsStay, Shows
  <2>2. Asked => Asked'
    BY <1>11, <2>1, TaskRuns, Waits, AskedStays
  <2>3. ASSUME NEW g \in Files, g # f PROVE AboveFine(g)'
    <3>1. lspPasses'[g] = lspPasses[g]
      BY <1>0, <2>1, <2>3
    <3> QED  BY <1>1, <2>1, <2>2, <2>3, <3>1, Waits, DueStays
  <2>4. AboveFine(f)'
    <3>1. CASE ~E!IsOpen(f)
      BY <2>1, <3>1 DEF AboveFine, E!IsOpen
    <3>2. CASE E!Current(f)
      <4>1. /\ lspLive' = [lspLive EXCEPT ![f] = E!Overlay(lspPasses[f].text)]
            /\ lspShown' = [lspShown EXCEPT ![f] = E!Overlay(lspPasses[f].text)]
        BY <1>11, <3>2 DEF PassEnds
      <4>2. lspShown'[f] = lspLive'[f]
        BY <1>0, <4>1 DEF Shows
      <4> QED  BY <4>2 DEF AboveFine
    <3>3. CASE E!IsOpen(f) /\ ~E!Current(f)
      <4>1. UNCHANGED <<lspLive, lspMissed, lspShown>> /\ ~lspPasses[f].again /\ lspBuffer[f].version # lspPasses[f].version
        BY <1>11, <3>3 DEF PassEnds, E!Current
      <4>2. LiveDue(f) => LiveDue(f)'
        BY <2>1, <4>1, Waits DEF LiveDue
      <4> QED  BY <1>1, <2>1, <2>2, <4>1, <4>2
    <3> QED  BY <3>1, <3>2, <3>3
  <2> QED  BY <2>3, <2>4 DEF Above
<1>12. ASSUME RunEnds PROVE Above'
  <2>1. Running /\ (RunLater => RunLater')
    BY <1>12, TaskRuns
  <2>2. /\ UNCHANGED <<lspBuffer, lspDisk, lspCompiler, lspTimers, lspPasses, lspHeld, lspLive, lspWatch, lspMissed, lspRows>>
    BY <1>12 DEF RunEnds, Ended, TextsStay
  <2>3. \A f \in Files : lspShown'[f] = lspLive[f] \cup E!Reported(f) \/ lspShown'[f] = lspLive[f]
    BY <1>12, <2>1 DEF RunEnds, Covered
  <2>4. ASSUME NEW f \in Files PROVE AboveFine(f)'
    <3>1. CASE lspRows[f] = lspDisk[f]
      <4>1. E!Reported(f) \subseteq E!Errors(lspDisk[f])
        BY <3>1 DEF E!Reported, E!Errors
      <4>2. lspShown'[f] \subseteq lspLive'[f] \cup E!Errors(lspDisk'[f])
        BY <2>2, <2>3, <4>1
      <4> QED  BY <4>2 DEF AboveFine, E!Errors, E!Fast, E!Overlay
    <3>2. CASE IsHeld("save", f)
      BY <2>2, <3>2, Waits DEF AboveFine, LiveDue
    <3>3. CASE lspReady /\ (lspWatch.timer \/ RunLater)
      BY <2>1, <2>2, <3>3 DEF AboveFine, Asked
    <3>4. CASE IsHeld("watch", f) /\ lspReady
      BY <2>1, <2>2, <3>4 DEF Noticed, AboveFine, E!IsOpen
    <3>5. CASE IsHeld("watch", f) /\ ~lspReady
      <4>1. f \in lspMissed \/ ~E!IsOpen(f) \/ f \in lspTimers \/ IsHeld("live", f) \/ IsHeld("save", f)
        BY <3>5 DEF Noticed
      <4> QED  BY <2>2, <4>1, Waits DEF AboveFine, E!IsOpen, LiveDue
    <3> QED  BY <2>1, <3>1, <3>2, <3>3, <3>4, <3>5 DEF RunsOfDisk, RunFine
  <2> QED  BY <2>4 DEF Above
<1>13. ASSUME RunAsked PROVE Above'
  <2>1. lspCompiler' = lspCompiler
    BY <1>13 DEF RunAsked, LifeStays
  <2> QED  BY <1>2, <1>13, <2>1, LifeRuns DEF Asked
<1>14. ASSUME GoesDown \/ \E g \in lspSetups : E!SetUp(g) PROVE Above'
  BY <1>2, <1>14, LifeRuns DEF Asked
<1>15. ASSUME UNCHANGED <<E!editor, E!lsp, lspCompiler>> PROVE Above'
  <2>1. UNCHANGED <<lspBuffer, lspDisk, lspCompiler, lspTimers, lspPasses, lspHeld, lspLive, lspWatch, lspMissed, lspShown, lspTasks>>
    BY <1>15 DEF E!editor, E!lsp
  <2>2. Asked => Asked'
    BY <2>1, Waits, AskedStays
  <2> QED  BY <1>1, <2>1, <2>2, Waits, DueStays DEF Above
<1> QED  BY <1>3, <1>4, <1>6, <1>7, <1>8, <1>9, <1>10, <1>11, <1>12, <1>13, <1>14, <1>15, EditorSteps, LifeRuns
         DEF TaskStep, LifeStep

\* With no file torn, a full run reports all that is wrong with the rows.
LEMMA ReportedWhole ==
  ASSUME NEW f \in Files, \A g \in Files : lspRows[g] = lspDisk[g] /\ lspDisk[g] # "torn"
  PROVE  E!Reported(f) = E!Errors(lspDisk[f])
BY DEF E!Reported

LEMMA BelowKept ==
  ASSUME EditorConstants, EditorTyped, LifeTyped, TasksInv, Covered, RunsOfDisk, Below, E!Next
  PROVE  Below'
<1>0. /\ lspLive \in Shows /\ lspShown \in Shows /\ lspPasses \in [Files -> [version : Nat, text : Texts, again : BOOLEAN]]
      /\ lspTimers \subseteq {f \in Files : E!IsOpen(f)} /\ lspTasks \in Seq(LspTask)
      /\ lspBuffer \in [Files -> [text : Texts, version : Nat]] /\ lspDisk \in [Files -> Texts]
  BY DEF EditorTyped, ShownTyped, PassesTyped, TextsTyped, WaitingTyped
<1>1. ASSUME NEW g \in Files, g \in lspMissed => g \in lspMissed', LiveDue(g) => LiveDue(g)', Asked => Asked',
             AnyHeld("watch") => AnyHeld("watch")' \/ Asked', Running => Running', lspDisk' = lspDisk,
             lspBuffer'[g] = lspBuffer[g], lspLive'[g] = lspLive[g], lspShown'[g] = lspShown[g]
      PROVE  BelowFine(g)'
  BY <1>1 DEF Below, BelowFine, LiveRight, E!IsOpen, E!Errors, E!Fast, E!Overlay
<1>2. ASSUME Asked' \/ AnyHeld("watch")' \/ Running' PROVE Below'
  BY <1>2 DEF Below, BelowFine
<1>3. ASSUME NEW f \in Files, FileStep(f) PROVE Below'
  <2>1. Asked => Asked'
    BY <1>3, FileSteps, AskedStays DEF LifeStays
  <2>2. CASE lspDisk' = lspDisk
    <3>1. ASSUME NEW g \in Files, g # f PROVE BelowFine(g)'
      BY <1>1, <1>3, <2>1, <2>2, <3>1, FileSteps, DueStays
    <3>2. BelowFine(f)'
      <4>1. CASE f \in lspTimers'
        BY <4>1 DEF BelowFine, LiveDue
      <4>2. CASE ~E!IsOpen(f)' \/ IsHeld("save", f)' \/ IsHeld("live", f)'
        BY <4>2 DEF BelowFine, LiveDue
      <4> QED  BY <1>3, <4>1, <4>2, FileSteps
    <3> QED  BY <3>1, <3>2 DEF Below
  <2>3. CASE lspDisk' # lspDisk
    BY <1>2, <1>3, <2>3, FileSteps DEF Asked
  <2> QED  BY <2>2, <2>3
<1>4. ASSUME E!ChangeConfig PROVE Below'
  <2>1. AnyHeld("config")'
    BY <1>4, Waits DEF E!ChangeConfig, Kinds
  <2> QED  BY <1>2, <2>1 DEF Asked
<1>5. ASSUME NEW f \in Files, NEW q \in Seq(LspTask), E!IsOpen(f), E!Pass(f, q), TextsStay, lspTimers' = lspTimers,
             \A c \in {"live", "save"} : \A g \in Files : g # f /\ IsHeld(c, g) => IsHeld(c, g)', Asked => Asked',
             lspCompiler' = lspCompiler, AnyHeld("watch") => AnyHeld("watch")', Running => Running'
      PROVE  Below'
  <2>1. UNCHANGED <<lspBuffer, lspDisk>>
    BY <1>5 DEF TextsStay
  <2>2. ASSUME NEW g \in Files, g # f PROVE BelowFine(g)'
    <3>1. /\ lspPasses'[g] = lspPasses[g] /\ lspLive'[g] = lspLive[g]
          /\ lspShown'[g] = lspShown[g] /\ (g \in lspMissed => g \in lspMissed')
      BY <1>5, <2>2, PassDue
    <3>2. LiveDue(g) => LiveDue(g)'
      BY <1>5, <2>1, <2>2, <3>1, DueStays
    <3> QED  BY <1>1, <1>5, <2>1, <3>1, <3>2
  <2>3. BelowFine(f)'
    BY <1>5, PassDue DEF BelowFine, Asked
  <2> QED  BY <2>2, <2>3 DEF Below
<1>6. ASSUME NEW f \in Files, HeldStep(f) PROVE Below'
  <2>0. /\ UNCHANGED <<lspBuffer, lspDisk, lspCompiler>> /\ TextsStay /\ (RunLater => RunLater') /\ (Running' <=> Running)
    BY <1>6, HeldRuns DEF TextsStay, LifeStays
  <2>1. PICK k \in Kinds : /\ Took(k, f) /\ \A c, g : IsHeld(c, g) => IsHeld(c, g)' \/ (c = k /\ g = f)
                           /\ \A c : AnyHeld(c) => AnyHeld(c)' \/ c = k
    BY <1>6, HeldRuns
  <2>2. CASE LiveAgain(f)
    <3> DEFINE x == [lspPasses[f] EXCEPT !.again = TRUE]
    <3>1. lspPasses[f] \in [version : Nat, text : Texts, again : BOOLEAN]
      BY <1>0
    <3>2. x.again = TRUE
      BY <3>1
    <3>3. lspPasses' = [lspPasses EXCEPT ![f] = x] /\ UNCHANGED <<lspTimers, lspLive, lspMissed, lspShown, lspWatch>>
      BY <2>2 DEF LiveAgain
    <3>4. k = "live"
      BY <2>1, <2>2 DEF LiveAgain, Took
    <3> HIDE DEF x
    <3>5. lspPasses'[f].again /\ \A g \in Files : g # f => lspPasses'[g] = lspPasses[g]
      BY <1>0, <3>2, <3>3
    <3>6. BelowFine(f)'
      BY <3>5 DEF BelowFine, LiveDue
    <3>7. (Asked => Asked') /\ (AnyHeld("watch") => AnyHeld("watch")')
      BY <2>0, <2>1, <3>3, <3>4, AskedStays
    <3>8. \A g \in Files : g # f => BelowFine(g)'
      BY <1>1, <2>0, <2>1, <3>3, <3>5, <3>7, DueStays
    <3> QED  BY <3>6, <3>8 DEF Below
  <2>3. CASE LivePass(f)
    <3>1. E!IsOpen(f) /\ E!Pass(f, lspTasks) /\ UNCHANGED <<lspTimers, lspWatch>> /\ k = "live"
      BY <2>1, <2>3 DEF LivePass, Took
    <3>2. (Asked => Asked') /\ (AnyHeld("watch") => AnyHeld("watch")')
      BY <2>0, <2>1, <3>1, AskedStays
    <3> QED  BY <1>0, <1>5, <2>0, <2>1, <3>1, <3>2
  <2>4. CASE LiveGone(f)
    <3>1. ~E!IsOpen(f) /\ UNCHANGED <<lspTimers, lspPasses, lspLive, lspMissed, lspShown, lspWatch>> /\ k = "live"
      BY <2>1, <2>4 DEF LiveGone, Took
    <3>2. BelowFine(f)'
      BY <2>0, <3>1 DEF BelowFine, E!IsOpen
    <3>3. (Asked => Asked') /\ (AnyHeld("watch") => AnyHeld("watch")')
      BY <2>0, <2>1, <3>1, AskedStays
    <3>4. \A g \in Files : g # f => BelowFine(g)'
      BY <1>1, <2>0, <2>1, <3>1, <3>3, DueStays
    <3> QED  BY <3>2, <3>4 DEF Below
  <2>5. CASE CloseHeard(f)
    <3>1. k = "close" /\ UNCHANGED <<lspTimers, lspPasses, lspLive, lspMissed, lspShown, lspWatch>>
      BY <2>1, <2>5 DEF CloseHeard, Took, E!Reconcile
    <3>2. (Asked => Asked') /\ (AnyHeld("watch") => AnyHeld("watch")')
      BY <2>0, <2>1, <3>1, AskedStays
    <3> QED  BY <1>1, <2>0, <2>1, <3>1, <3>2, DueStays DEF Below
  <2>6. CASE SaveHeard(f)
    BY <1>2, <1>6, <2>0, <2>6, HeldRuns DEF Asked
  <2>7. CASE WatchPassed(f)
    BY <2>0, <2>7 DEF WatchPassed, Below, BelowFine, E!IsOpen
  <2>8. CASE WatchHeard("watch", f)
    BY <1>2, <2>8 DEF WatchHeard, Asked
  <2> QED  BY <1>6, <2>2, <2>3, <2>4, <2>5, <2>6, <2>7, <2>8 DEF HeldStep
<1>7. ASSUME NEW f \in Files \cup {NoText}, WatchHeard("config", f) PROVE Below'
  BY <1>2, <1>7 DEF WatchHeard, Asked
<1>8. ASSUME RunBegins PROVE Below'
  BY <1>2, <1>8, TaskRuns
<1>9. ASSUME (\E f \in Files : RowsBegin(f)) \/ ReconcileEnds PROVE Below'
  <2>1. UNCHANGED <<lspBuffer, lspDisk, lspCompiler, lspTimers, lspPasses, lspHeld, lspLive, lspWatch, lspMissed, lspShown>>
    BY <1>9 DEF RowsBegin, Begun, ReconcileEnds, Ended, TextsStay, LifeStays
  <2>2. (Asked => Asked') /\ ~Running
    BY <1>9, <2>1, TaskRuns, Waits, AskedStays
  <2> QED  BY <1>1, <2>1, <2>2, Waits, DueStays DEF Below
<1>10. ASSUME NEW f \in Files, PassAgain(f) PROVE Below'
  <2>1. /\ E!IsOpen(f) /\ E!Pass(f, Tail(lspTasks)) /\ TextsStay /\ UNCHANGED <<lspTimers, lspHeld, lspCompiler, lspWatch>>
    BY <1>10 DEF PassAgain, Ended
  <2>2. Tail(lspTasks) \in Seq(LspTask)
    BY <1>0, <1>10, TaskLess DEF PassAgain, Ended
  <2>3. (Asked => Asked') /\ ~Running
    BY <1>10, <2>1, TaskRuns, Waits, AskedStays
  <2> QED  BY <1>5, <2>1, <2>2, <2>3, Waits
<1>11. ASSUME NEW f \in Files, PassEnds(f) PROVE Below'
  <2>1. /\ UNCHANGED <<lspBuffer, lspDisk, lspTimers, lspHeld, lspCompiler, lspWatch>>
        /\ lspPasses' = [lspPasses EXCEPT ![f] = E!NoPass] /\ lspMissed \subseteq lspMissed'
        /\ \A g \in Files : g # f => lspLive'[g] = lspLive[g] /\ lspShown'[g] = lspShown[g]
    BY <1>0, <1>11 DEF PassEnds, Ended, TextsStay, Shows
  <2>2. (Asked => Asked') /\ ~Running
    BY <1>11, <2>1, TaskRuns, Waits, AskedStays
  <2>3. ASSUME NEW g \in Files, g # f PROVE BelowFine(g)'
    <3>1. lspPasses'[g] = lspPasses[g]
      BY <1>0, <2>1, <2>3
    <3> QED  BY <1>1, <2>1, <2>2, <2>3, <3>1, Waits, DueStays
  <2>4. BelowFine(f)'
    <3>1. CASE ~E!IsOpen(f)
      BY <2>1, <3>1 DEF BelowFine, E!IsOpen
    <3>2. CASE E!IsOpen(f) /\ E!Current(f)
      <4>1. /\ lspLive' = [lspLive EXCEPT ![f] = E!Overlay(lspPasses[f].text)]
            /\ f \in lspMissed' \/ lspBuffer[f].text = lspPasses[f].text
        BY <1>11, <3>2 DEF PassEnds, E!Current, E!Reopened
      <4>2. lspPasses[f].text \in {"ok", "bad"}
        <5>1. 1 \in DOMAIN lspTasks /\ LaidOver(lspTasks, 1, f)
          BY <1>0, <1>11, TaskLess DEF PassEnds, Ended
        <5> QED  BY <5>1 DEF TasksInv, Queue
      <4>3. lspLive'[f] = E!Errors(lspPasses[f].text)
        BY <1>0, <4>1, <4>2 DEF Shows, E!Errors, E!Fast
      <4>4. f \in lspMissed' \/ lspLive'[f] = E!Errors(lspBuffer'[f].text)
        BY <2>1, <4>1, <4>3
      <4>5. f \in lspMissed' \/ LiveRight(f)'
        BY <4>4 DEF LiveRight, E!Errors, E!Fast, E!Overlay
      <4> QED  BY <4>5 DEF BelowFine
    <3>3. CASE E!IsOpen(f) /\ ~E!Current(f)
      <4>1. UNCHANGED <<lspLive, lspMissed, lspShown>> /\ ~lspPasses[f].again /\ lspBuffer[f].version # lspPasses[f].version
        BY <1>11, <3>3 DEF PassEnds, E!Current
      <4>2. LiveDue(f) => LiveDue(f)'
        BY <2>1, <4>1, Waits DEF LiveDue
      <4> QED  BY <1>1, <2>1, <2>2, <4>1, <4>2, Waits
    <3> QED  BY <3>1, <3>2, <3>3
  <2> QED  BY <2>3, <2>4 DEF Below
<1>12. ASSUME RunEnds PROVE Below'
  <2>1. Running /\ (RunLater => RunLater')
    BY <1>12, TaskRuns
  <2>2. UNCHANGED <<lspBuffer, lspDisk, lspCompiler, lspTimers, lspPasses, lspHeld, lspLive, lspWatch, lspMissed, lspRows>>
    BY <1>12 DEF RunEnds, Ended, TextsStay
  <2>3. CASE \A g \in Files : lspRows[g] = lspDisk[g] /\ lspDisk[g] # "torn"
    <3>1. ASSUME NEW f \in Files PROVE E!Errors(lspDisk[f]) \subseteq lspShown'[f]
      <4>1. E!Reported(f) = E!Errors(lspDisk[f])
        BY <2>3, ReportedWhole
      <4>2. E!Reported(f) = {} \/ lspShown'[f] = lspLive[f] \cup E!Reported(f)
        BY <1>12 DEF RunEnds
      <4> QED  BY <4>1, <4>2
    <3>2. ASSUME NEW f \in Files PROVE E!Errors(lspDisk'[f]) \subseteq lspShown'[f]
      BY <2>2, <3>1
    <3> QED  BY <3>2 DEF Below, BelowFine, E!Errors, E!Fast, E!Overlay
  <2>4. CASE \E g \in Files : lspDisk[g] = "torn"
    BY <2>2, <2>4 DEF Below, BelowFine
  <2>5. ASSUME NEW g \in Files, lspRows[g] # lspDisk[g] PROVE Below'
    <3>1. AnyHeld("save") \/ AnyHeld("watch") \/ lspWatch.timer \/ RunLater
      BY <2>1, <2>5 DEF RunsOfDisk, RunFine, IsHeld, AnyHeld
    <3> QED  BY <1>2, <2>1, <2>2, <3>1, Waits DEF Asked
  <2> QED  BY <2>3, <2>4, <2>5
<1>13. ASSUME RunAsked PROVE Below'
  <2>1. lspCompiler' = lspCompiler
    BY <1>13 DEF RunAsked, LifeStays
  <2> QED  BY <1>2, <1>13, <2>1, LifeRuns DEF Asked
<1>14. ASSUME GoesDown \/ \E g \in lspSetups : E!SetUp(g) PROVE Below'
  BY <1>2, <1>14, LifeRuns DEF Asked
<1>15. ASSUME UNCHANGED <<E!editor, E!lsp, lspCompiler>> PROVE Below'
  <2>1. UNCHANGED <<lspBuffer, lspDisk, lspCompiler, lspTimers, lspPasses, lspHeld, lspLive, lspWatch, lspMissed, lspShown, lspTasks>>
    BY <1>15 DEF E!editor, E!lsp
  <2>2. Asked => Asked'
    BY <2>1, Waits, AskedStays
  <2> QED  BY <1>1, <2>1, <2>2, Waits, DueStays DEF Below
<1> QED  BY <1>3, <1>4, <1>6, <1>7, <1>8, <1>9, <1>10, <1>11, <1>12, <1>13, <1>14, <1>15, EditorSteps, LifeRuns
         DEF TaskStep, LifeStep

-----------------------------------------------------------------------------
(* What the tasks leave of a file's rows.                                  *)

\* There is a last of those that will write them, if there is one.
LEMMA LastThere ==
  ASSUME NEW q \in Seq(LspTask), NEW f
  PROVE  (\A i : ~Works(q, f, i)) \/ \E i : IsLast(q, f, i)
<1>0. DOMAIN q = 1 .. Len(q) /\ Len(q) \in Nat
  OBVIOUS
<1> DEFINE S == {n \in Nat : Works(q, f, Len(q) - n)}
           R == {ss \in Nat \X Nat : ss[1] < ss[2]}
<1> SUFFICES ASSUME NEW j, Works(q, f, j) PROVE \E i : IsLast(q, f, i)
  OBVIOUS
<1>1. \A i : Works(q, f, i) => i \in 1 .. Len(q)
  BY <1>0 DEF Works
<1>2. \A i : Works(q, f, i) => Len(q) - i \in S
  <2> SUFFICES ASSUME NEW i, Works(q, f, i) PROVE Len(q) - i \in S
    OBVIOUS
  <2>1. i \in 1 .. Len(q)
    BY <1>1
  <2>2. Len(q) - i \in Nat /\ Len(q) - (Len(q) - i) = i
    BY <1>0, <2>1
  <2> QED  BY <2>2
<1>3. S \subseteq Nat /\ S # {}
  BY <1>2
<1>4. IsWellFoundedOn(R, Nat)
  BY NatLessThanWellFounded DEF OpToRel
<1>5. \A x, y \in Nat : y < x => <<y, x>> \in R
  OBVIOUS
<1>6. \A n \in S : n \in Nat /\ Works(q, f, Len(q) - n)
  OBVIOUS
<1> HIDE DEF S, R
<1>7. PICK n \in S : \A m \in S : ~(<<m, n>> \in R)
  BY <1>3, <1>4, WFMin
<1>8. ASSUME NEW i, Works(q, f, i) PROVE i <= Len(q) - n
  <2>1. i \in 1 .. Len(q) /\ Len(q) - i \in S /\ n \in Nat
    BY <1>1, <1>2, <1>6, <1>8
  <2>2. Len(q) - i \in Nat /\ ~(Len(q) - i < n)
    BY <1>3, <1>5, <1>7, <2>1
  <2> QED  BY <1>0, <2>1, <2>2
<1> QED  BY <1>6, <1>8 DEF IsLast

LEMMA TaskTyped ==
  ASSUME NEW k \in {"overlay", "reconcile", "full"}, NEW g \in Files \cup {NoText}, NEW t \in Texts,
         k # "full" => g \in Files
  PROVE  /\ E!Task(k, g, t) \in LspTask /\ ~E!Task(k, g, t).begun
         /\ E!Task(k, g, t).kind = k /\ E!Task(k, g, t).file = g /\ E!Task(k, g, t).text = t
BY DEF E!Task, LspTask

LEMMA LastMore ==
  ASSUME NEW q \in Seq(LspTask), NEW e \in LspTask, ~e.begun, NEW f
  PROVE  /\ Append(q, e)[Len(q) + 1] = e
         /\ e.kind = "full" \/ e.file = f =>
              IsLast(Append(q, e), f, Len(q) + 1) /\ \A i : IsLast(Append(q, e), f, i) => i = Len(q) + 1
         /\ e.kind # "full" /\ e.file # f =>
              \A i : /\ IsLast(Append(q, e), f, i) <=> IsLast(q, f, i)
                     /\ Works(Append(q, e), f, i) <=> Works(q, f, i)
                     /\ Works(q, f, i) => Append(q, e)[i] = q[i]
<1> DEFINE r == Append(q, e)
           n == Len(q) + 1
<1>1. /\ DOMAIN q = 1 .. Len(q) /\ Len(q) \in Nat /\ DOMAIN r = 1 .. n
      /\ \A i \in 1 .. Len(q) : r[i] = q[i]
      /\ r[n] = e
  OBVIOUS
<1> HIDE DEF r
<1>2. /\ n \in DOMAIN r /\ \A i \in DOMAIN r : i <= n /\ (i \in DOMAIN q \/ i = n) /\ i \in Nat
      /\ \A i \in DOMAIN q : i # n /\ i \in DOMAIN r /\ r[i] = q[i]
      /\ n \in Nat /\ \A i \in Nat : i <= n /\ n <= i => i = n
  BY <1>1
<1> HIDE DEF n
<1>3. ASSUME e.kind = "full" \/ e.file = f PROVE IsLast(r, f, n) /\ \A i : IsLast(r, f, i) => i = n
  <2>1. Works(r, f, n)
    BY <1>1, <1>2, <1>3 DEF Works
  <2>2. \A i : Works(r, f, i) => i \in DOMAIN r
    BY DEF Works
  <2> QED  BY <1>2, <2>1, <2>2 DEF IsLast
<1>4. ASSUME e.kind # "full", e.file # f
      PROVE  \A i : /\ IsLast(r, f, i) <=> IsLast(q, f, i)
                    /\ Works(r, f, i) <=> Works(q, f, i)
                    /\ Works(q, f, i) => r[i] = q[i]
  <2>1. ~Works(r, f, n)
    BY <1>1, <1>4 DEF Works
  <2>2. \A i : Works(r, f, i) <=> Works(q, f, i)
    BY <1>2, <2>1 DEF Works
  <2>3. \A i : Works(q, f, i) => r[i] = q[i]
    BY <1>2 DEF Works
  <2> QED  BY <2>2, <2>3 DEF IsLast
<1> QED  BY <1>1, <1>3, <1>4 DEF r, n

LEMMA LastLess ==
  ASSUME NEW q \in Seq(LspTask), q # <<>>, q[1].begun, NEW f
  PROVE  \A i : IsLast(q, f, i) <=> i - 1 \in DOMAIN Tail(q) /\ i \in Nat /\ IsLast(Tail(q), f, i - 1) /\ Tail(q)[i - 1] = q[i]
<1> DEFINE r == Tail(q)
<1>1. /\ Len(q) \in Nat \ {0} /\ DOMAIN q = 1 .. Len(q) /\ DOMAIN r = 1 .. Len(q) - 1
      /\ \A i \in 1 .. Len(q) - 1 : r[i] = q[i + 1]
      /\ \A i \in 2 .. Len(q) : i - 1 \in 1 .. Len(q) - 1 /\ r[i - 1] = q[i]
  BY TaskLess
<1> HIDE DEF r
<1>2. /\ \A i \in DOMAIN q : i \in Nat /\ (i # 1 => i - 1 \in DOMAIN r /\ r[i - 1] = q[i])
      /\ \A i \in DOMAIN r : i \in Nat /\ i + 1 \in DOMAIN q /\ i + 1 # 1 /\ r[i] = q[i + 1]
      /\ \A i \in Nat : i - 1 \in DOMAIN r => i \in DOMAIN q /\ i # 1
  BY <1>1
<1>3. \A i : Works(q, f, i) => i \in DOMAIN q /\ i - 1 \in DOMAIN r /\ Works(r, f, i - 1) /\ r[i - 1] = q[i]
  BY <1>2 DEF Works
<1>4. \A i : Works(r, f, i) => i \in DOMAIN r /\ Works(q, f, i + 1)
  BY <1>2 DEF Works
<1>5. \A i \in Nat : i - 1 \in DOMAIN r /\ Works(r, f, i - 1) => Works(q, f, i)
  BY <1>2 DEF Works
<1>6. ASSUME NEW i, IsLast(q, f, i)
      PROVE  i - 1 \in DOMAIN r /\ i \in Nat /\ IsLast(r, f, i - 1) /\ r[i - 1] = q[i]
  <2>1. i \in DOMAIN q /\ i \in Nat /\ i - 1 \in DOMAIN r /\ Works(r, f, i - 1) /\ r[i - 1] = q[i]
    BY <1>2, <1>3, <1>6 DEF IsLast
  <2>2. ASSUME NEW j, Works(r, f, j) PROVE j <= i - 1
    <3>1. j \in Nat /\ j + 1 <= i
      BY <1>2, <1>4, <1>6, <2>2 DEF IsLast
    <3> QED  BY <2>1, <3>1
  <2> QED  BY <2>1, <2>2 DEF IsLast
<1>7. ASSUME NEW i, i - 1 \in DOMAIN r, i \in Nat, IsLast(r, f, i - 1)
      PROVE  IsLast(q, f, i)
  <2>1. Works(q, f, i)
    BY <1>5, <1>7 DEF IsLast
  <2>2. ASSUME NEW j, Works(q, f, j) PROVE j <= i
    <3>1. j \in Nat /\ j - 1 <= i - 1
      BY <1>2, <1>3, <1>7, <2>2 DEF IsLast
    <3> QED  BY <1>7, <3>1
  <2> QED  BY <2>1, <2>2 DEF IsLast
<1> QED  BY <1>6, <1>7 DEF r

LEMMA LastBegun ==
  ASSUME NEW q \in Seq(LspTask), q # <<>>, ~q[1].begun, NEW f
  PROVE  LET r == [q EXCEPT ![1].begun = TRUE]
         IN  /\ \A i : Works(r, f, i) <=> Works(q, f, i) /\ i # 1
             /\ \A i : IsLast(r, f, i) => IsLast(q, f, i)
             /\ \A i : IsLast(q, f, i) => IF i = 1 THEN \A j : ~Works(r, f, j) ELSE IsLast(r, f, i)
             /\ \A i \in DOMAIN q : r[i].kind = q[i].kind /\ r[i].text = q[i].text
             /\ Works(q, f, 1) <=> q[1].kind = "full" \/ q[1].file = f
<1> DEFINE r == [q EXCEPT ![1].begun = TRUE]
<1>1. /\ DOMAIN q = 1 .. Len(q) /\ Len(q) \in Nat \ {0} /\ DOMAIN r = 1 .. Len(q)
      /\ \A i \in 2 .. Len(q) : r[i] = q[i]
      /\ r[1].kind = q[1].kind /\ r[1].file = q[1].file /\ r[1].text = q[1].text /\ r[1].begun
  BY TaskBegun
<1> HIDE DEF r
<1>2. /\ DOMAIN r = DOMAIN q /\ 1 \in DOMAIN q
      /\ \A i \in DOMAIN q : i \in Nat /\ 1 <= i /\ (i # 1 => r[i] = q[i] /\ ~(i <= 1))
      /\ \A i \in DOMAIN q : r[i].kind = q[i].kind /\ r[i].text = q[i].text
  BY <1>1
<1>3. \A i : Works(r, f, i) <=> Works(q, f, i) /\ i # 1
  BY <1>1, <1>2 DEF Works
<1>4. \A i : Works(q, f, i) => i \in DOMAIN q
  BY DEF Works
<1>5. \A i : IsLast(r, f, i) => IsLast(q, f, i)
  BY <1>2, <1>3, <1>4 DEF IsLast
<1>6. \A i : IsLast(q, f, i) => IF i = 1 THEN \A j : ~Works(r, f, j) ELSE IsLast(r, f, i)
  BY <1>2, <1>3, <1>4 DEF IsLast
<1>7. Works(q, f, 1) <=> q[1].kind = "full" \/ q[1].file = f
  BY <1>2 DEF Works
<1> QED  BY <1>2, <1>3, <1>5, <1>6, <1>7 DEF r

LEMMA LeavesMore ==
  ASSUME NEW q \in Seq(LspTask), NEW e \in LspTask, ~e.begun, NEW f, NEW d, NEW b, NEW x,
         \/ e.kind = "full" \/ (e.file = f /\ Fine(d, b, e.text)) \/ (e.file # f /\ Leaves(q, f, d, b, x))
  PROVE  Leaves(Append(q, e), f, d, b, x)
<1>1. CASE e.kind = "full" \/ (e.file = f /\ Fine(d, b, e.text))
  <2>1. IsLast(Append(q, e), f, Len(q) + 1) /\ Append(q, e)[Len(q) + 1] = e
    BY <1>1, LastMore
  <2>2. Fine(d, b, Effect(e, d))
    BY <1>1 DEF Effect, Fine
  <2> QED  BY <2>1, <2>2 DEF Leaves
<1>2. CASE e.kind # "full" /\ e.file # f /\ Leaves(q, f, d, b, x)
  <2>0. e \in LspTask /\ ~e.begun /\ e.kind # "full" /\ e.file # f
    BY <1>2
  <2>1. \A i : /\ IsLast(Append(q, e), f, i) <=> IsLast(q, f, i)
               /\ Works(Append(q, e), f, i) <=> Works(q, f, i)
               /\ Works(q, f, i) => Append(q, e)[i] = q[i]
    BY ONLY <2>0, q \in Seq(LspTask), LastMore
  <2>2. \A i : IsLast(q, f, i) => Works(q, f, i)
    BY DEF IsLast
  <2> QED  BY <1>2, <2>1, <2>2 DEF Leaves
<1> QED  BY <1>1, <1>2

LEMMA LeavesLess ==
  ASSUME NEW q \in Seq(LspTask), q # <<>>, q[1].begun, NEW f, NEW d, NEW b, NEW x, Leaves(q, f, d, b, x)
  PROVE  Leaves(Tail(q), f, d, b, x)
<1>1. \A i : IsLast(q, f, i) <=> i - 1 \in DOMAIN Tail(q) /\ i \in Nat /\ IsLast(Tail(q), f, i - 1) /\ Tail(q)[i - 1] = q[i]
  BY LastLess
<1>2. CASE (\A i : ~Works(q, f, i)) /\ Fine(d, b, x)
  <2>1. Tail(q) \in Seq(LspTask) /\ DOMAIN Tail(q) = 1 .. Len(q) - 1 /\ Len(q) \in Nat \ {0}
        /\ \A i \in 1 .. Len(q) - 1 : Tail(q)[i] = q[i + 1]
        /\ DOMAIN q = 1 .. Len(q)
    BY TaskLess
  <2>2. \A i \in DOMAIN Tail(q) : i + 1 \in DOMAIN q /\ Tail(q)[i] = q[i + 1]
    BY <2>1
  <2>3. \A i : ~Works(Tail(q), f, i)
    BY <1>2, <2>2 DEF Works
  <2> QED  BY <1>2, <2>3 DEF Leaves
<1>3. CASE \E i : IsLast(q, f, i) /\ Fine(d, b, Effect(q[i], d))
  <2>1. PICK i : IsLast(q, f, i) /\ Fine(d, b, Effect(q[i], d))
    BY <1>3
  <2>2. IsLast(Tail(q), f, i - 1) /\ Tail(q)[i - 1] = q[i]
    BY <1>1, <2>1
  <2> QED  BY <2>1, <2>2 DEF Leaves
<1> QED  BY <1>2, <1>3 DEF Leaves

LEMMA LeavesBegun ==
  ASSUME NEW q \in Seq(LspTask), q # <<>>, ~q[1].begun, NEW f, NEW d, NEW b, NEW x, Leaves(q, f, d, b, x)
  PROVE  LET r == [q EXCEPT ![1].begun = TRUE]
         IN  IF q[1].kind = "full" \/ q[1].file = f THEN Leaves(r, f, d, b, Effect(q[1], d))
                                                    ELSE Leaves(r, f, d, b, x)
<1> DEFINE r == [q EXCEPT ![1].begun = TRUE]
<1>1. /\ \A i : Works(r, f, i) <=> Works(q, f, i) /\ i # 1
      /\ \A i : IsLast(q, f, i) => IF i = 1 THEN \A j : ~Works(r, f, j) ELSE IsLast(r, f, i)
      /\ \A i \in DOMAIN q : r[i].kind = q[i].kind /\ r[i].text = q[i].text
      /\ Works(q, f, 1) <=> q[1].kind = "full" \/ q[1].file = f
  BY LastBegun
<1> HIDE DEF r
<1>2. \A i \in DOMAIN q : Effect(r[i], d) = Effect(q[i], d)
  BY <1>1 DEF Effect
<1>3. CASE (\A i : ~Works(q, f, i)) /\ Fine(d, b, x)
  BY <1>1, <1>3 DEF Leaves, r
<1>4. ASSUME NEW i, IsLast(q, f, i), Fine(d, b, Effect(q[i], d)), i # 1
      PROVE  \A y : Leaves(r, f, d, b, y)
  <2>1. i \in DOMAIN q /\ IsLast(r, f, i)
    BY <1>1, <1>4 DEF IsLast, Works
  <2> QED  BY <1>2, <1>4, <2>1 DEF Leaves
<1>5. ASSUME IsLast(q, f, 1), Fine(d, b, Effect(q[1], d))
      PROVE  (q[1].kind = "full" \/ q[1].file = f) /\ Leaves(r, f, d, b, Effect(q[1], d))
  BY <1>1, <1>5 DEF IsLast, Leaves
<1> QED  BY <1>3, <1>4, <1>5 DEF Leaves, r

LEMMA ResetKept ==
  ASSUME NEW q \in Seq(LspTask), NEW f, NEW d, Reset(q, f, d)
  PROVE  /\ q # <<>> /\ q[1].begun => Reset(Tail(q), f, d)
         /\ q # <<>> /\ ~q[1].begun => Reset([q EXCEPT ![1].begun = TRUE], f, d)
<1>1. ASSUME q # <<>>, q[1].begun PROVE Reset(Tail(q), f, d)
  <2>1. \A i : IsLast(q, f, i) <=> i - 1 \in DOMAIN Tail(q) /\ i \in Nat /\ IsLast(Tail(q), f, i - 1) /\ Tail(q)[i - 1] = q[i]
    BY <1>1, LastLess
  <2>2. /\ DOMAIN Tail(q) = 1 .. Len(q) - 1 /\ Len(q) \in Nat \ {0}
        /\ \A i \in 1 .. Len(q) - 1 : Tail(q)[i] = q[i + 1]
    BY <1>1, TaskLess
  <2>3. ASSUME NEW i, IsLast(Tail(q), f, i) PROVE IsLast(q, f, i + 1) /\ Tail(q)[i] = q[i + 1]
    <3>1. i \in DOMAIN Tail(q)
      BY <2>3 DEF IsLast, Works
    <3>2. i \in Nat /\ i + 1 \in Nat /\ (i + 1) - 1 = i /\ Tail(q)[i] = q[i + 1]
      BY <2>2, <3>1
    <3> QED  BY <2>1, <2>3, <3>1, <3>2
  <2> QED  BY <2>3 DEF Reset
<1>2. ASSUME q # <<>>, ~q[1].begun PROVE Reset([q EXCEPT ![1].begun = TRUE], f, d)
  <2> DEFINE r == [q EXCEPT ![1].begun = TRUE]
  <2>1. /\ \A i : IsLast(r, f, i) => IsLast(q, f, i)
        /\ \A i \in DOMAIN q : r[i].kind = q[i].kind /\ r[i].text = q[i].text
    BY <1>2, LastBegun
  <2> HIDE DEF r
  <2>2. \A i : IsLast(q, f, i) => i \in DOMAIN q
    BY DEF IsLast, Works
  <2> QED  BY <2>1, <2>2 DEF Reset, r
<1> QED  BY <1>1, <1>2

LEMMA ResetMore ==
  ASSUME NEW q \in Seq(LspTask), NEW e \in LspTask, ~e.begun, NEW f, NEW d,
         \/ e.kind = "full" \/ (e.file = f /\ (e.kind = "reconcile" => e.text = d)) \/ (e.file # f /\ Reset(q, f, d))
  PROVE  Reset(Append(q, e), f, d)
<1>1. CASE e.kind = "full" \/ (e.file = f /\ (e.kind = "reconcile" => e.text = d))
  <2>1. (\A i : IsLast(Append(q, e), f, i) => i = Len(q) + 1) /\ Append(q, e)[Len(q) + 1] = e
    BY <1>1, LastMore
  <2> QED  BY <1>1, <2>1 DEF Reset
<1>2. CASE e.kind # "full" /\ e.file # f /\ Reset(q, f, d)
  <2>0. e \in LspTask /\ ~e.begun /\ e.kind # "full" /\ e.file # f
    BY <1>2
  <2>1. \A i : /\ IsLast(Append(q, e), f, i) <=> IsLast(q, f, i)
               /\ Works(Append(q, e), f, i) <=> Works(q, f, i)
               /\ Works(q, f, i) => Append(q, e)[i] = q[i]
    BY ONLY <2>0, q \in Seq(LspTask), LastMore
  <2>2. \A i : IsLast(q, f, i) => Works(q, f, i)
    BY DEF IsLast
  <2> QED  BY <1>2, <2>1, <2>2 DEF Reset
<1> QED  BY <1>1, <1>2

\* What stays due for a file's rows, and what is fine stays fine.
LEMMA RowsStay ==
  ASSUME NEW g \in Files, lspBuffer'[g] = lspBuffer[g], lspCompiler = 0 => lspCompiler' = 0,
         lspWatch.timer => lspWatch'.timer,
         IsHeld("save", g) => IsHeld("save", g)', IsHeld("close", g) => IsHeld("close", g)',
         E!IsOpen(g) \/ (IsHeld("watch", g) => IsHeld("watch", g)'),
         ~E!IsOpen(g) \/ (IsHeld("live", g) => IsHeld("live", g)'),
         ~E!IsOpen(g) \/ (lspPasses[g].again => lspPasses'[g].again),
         g \in lspTimers => g \in lspTimers' \/ IsHeld("live", g)'
  PROVE  (RowsDue(g) => RowsDue(g)') /\ (Moved(g) => Moved(g)')
<1>1. E!IsOpen(g)' <=> E!IsOpen(g)
  BY DEF E!IsOpen
<1>2. RowsDue(g) => RowsDue(g)'
  BY <1>1 DEF RowsDue
<1>3. Moved(g) => Moved(g)'
  BY <1>1 DEF Moved
<1> QED  BY <1>2, <1>3

\* What a pass puts into the lock.
LEMMA PassRows ==
  ASSUME EditorConstants, EditorTyped, NEW f \in Files, E!IsOpen(f), NEW q \in Seq(LspTask), E!Pass(f, q)
  PROVE  /\ \A g \in Files : g # f => lspPasses'[g] = lspPasses[g]
         /\ \/ (lspCompiler = 0 \/ lspBuffer[f].text = "torn") /\ lspTasks' = q
            \/ \E e \in LspTask : /\ ~e.begun /\ e.kind = "overlay" /\ e.file = f /\ e.text = lspBuffer[f].text
                                  /\ lspTasks' = Append(q, e)
<1>1. lspPasses \in [Files -> [version : Nat, text : Texts, again : BOOLEAN]]
  BY DEF EditorTyped, PassesTyped
<1>2. \A g \in Files : g # f => lspPasses'[g] = lspPasses[g]
  BY <1>1, PassCases
<1>3. lspBuffer[f].text \in Texts
  BY BufferFields DEF Texts
<1>4. /\ E!Task("overlay", f, lspBuffer[f].text) \in LspTask /\ ~E!Task("overlay", f, lspBuffer[f].text).begun
      /\ E!Task("overlay", f, lspBuffer[f].text).kind = "overlay" /\ E!Task("overlay", f, lspBuffer[f].text).file = f
      /\ E!Task("overlay", f, lspBuffer[f].text).text = lspBuffer[f].text
  BY <1>3, TaskTyped
<1>5. \/ (lspCompiler = 0 \/ lspBuffer[f].text = "torn") /\ lspTasks' = q
      \/ lspTasks' = Append(q, E!Task("overlay", f, lspBuffer[f].text))
  BY PassCases
<1> QED  BY <1>2, <1>4, <1>5

\* What a full run that is asked for puts there.
LEMMA RunRows ==
  ASSUME EditorConstants, NEW f \in Files \cup {NoText}
  PROVE  /\ E!Task("full", f, NoText) \in LspTask /\ ~E!Task("full", f, NoText).begun
         /\ E!Task("full", f, NoText).kind = "full"
         /\ E!Validate(f) => /\ UNCHANGED <<lspPasses, lspRows, lspPiped, lspGhosts>>
                             /\ \/ lspCompiler = 0 /\ lspTasks' = lspTasks
                                \/ lspTasks' = Append(lspTasks, E!Task("full", f, NoText))
<1>1. /\ E!Task("full", f, NoText) \in LspTask /\ ~E!Task("full", f, NoText).begun
      /\ E!Task("full", f, NoText).kind = "full"
  BY TaskTyped DEF Texts
<1> QED  BY <1>1 DEF E!Validate

\* What a closed document's rows are reset to.
LEMMA ResetRows ==
  ASSUME EditorConstants, EditorTyped, NEW f \in Files, E!Reconcile(f), lspCompiler # 0
  PROVE  /\ UNCHANGED <<lspTimers, lspPasses, lspWatch>> /\ lspGhosts \subseteq lspGhosts'
         /\ \A g \in Files : g # f => lspRows'[g] = lspRows[g]
         /\ \/ /\ lspDisk[f] = NoText /\ lspTasks' = lspTasks /\ lspRows'[f] = lspDisk[f]
               /\ lspPasses[f] = E!NoPass \/ f \in lspGhosts'
            \/ /\ lspRows' = lspRows
               /\ \E e \in LspTask : /\ ~e.begun /\ e.kind = "reconcile" /\ e.file = f /\ e.text = lspDisk[f]
                                     /\ lspTasks' = Append(lspTasks, e)
<1>1. lspRows \in [Files -> Texts] /\ lspDisk[f] \in Texts
  BY DEF EditorTyped, TextsTyped
<1>2. /\ E!Task("reconcile", f, lspDisk[f]) \in LspTask /\ ~E!Task("reconcile", f, lspDisk[f]).begun
      /\ E!Task("reconcile", f, lspDisk[f]).kind = "reconcile" /\ E!Task("reconcile", f, lspDisk[f]).file = f
      /\ E!Task("reconcile", f, lspDisk[f]).text = lspDisk[f]
  BY <1>1, TaskTyped
<1>3. CASE lspDisk[f] = NoText
  BY <1>1, <1>3 DEF E!Reconcile
<1>4. CASE lspDisk[f] # NoText
  BY <1>1, <1>2, <1>4 DEF E!Reconcile
<1> QED  BY <1>3, <1>4

\* The rows of a file come to be fine.
LEMMA RowedKept ==
  ASSUME EditorConstants, EditorTyped, LifeTyped, TasksInv, Reconciles, Rowed, E!Next
  PROVE  Rowed'
<1>0. /\ lspPasses \in [Files -> [version : Nat, text : Texts, again : BOOLEAN]]
      /\ lspTimers \subseteq {f \in Files : E!IsOpen(f)} /\ lspTasks \in Seq(LspTask)
      /\ lspRows \in [Files -> Texts] /\ lspDisk \in [Files -> Texts] /\ Queue(lspTasks, lspPasses)
  BY DEF EditorTyped, PassesTyped, TextsTyped, WaitingTyped, TasksInv
<1>1. ASSUME NEW g \in Files, g \in lspGhosts => g \in lspGhosts', RowsDue(g) => RowsDue(g)',
             Leaves(lspTasks, g, lspDisk[g], lspBuffer[g], lspRows[g])
               => Leaves(lspTasks', g, lspDisk'[g], lspBuffer'[g], lspRows'[g])
      PROVE  RowFine(g)'
  BY <1>1 DEF Rowed, RowFine
<1>2. \A g \in Files : RowsDue(g)' \/ Leaves(lspTasks', g, lspDisk'[g], lspBuffer'[g], lspRows'[g]) => RowFine(g)'
  BY DEF RowFine
<1>3. ASSUME lspCompiler' = 0 \/ lspWatch'.timer PROVE Rowed'
  BY <1>2, <1>3 DEF Rowed, RowsDue
<1>4. ASSUME NEW e \in LspTask, ~e.begun, e.kind = "full", lspTasks' = Append(lspTasks, e) PROVE Rowed'
  BY <1>0, <1>2, <1>4, LeavesMore DEF Rowed
<1>5. ASSUME NEW f \in Files, FileStep(f) PROVE Rowed'
  <2>1. ASSUME NEW g \in Files, g # f PROVE RowFine(g)'
    <3>1. RowsDue(g) => RowsDue(g)'
      BY <1>5, <2>1, FileSteps, RowsStay DEF LifeStays
    <3>2. /\ lspTasks' = lspTasks /\ lspDisk'[g] = lspDisk[g] /\ lspBuffer'[g] = lspBuffer[g] /\ lspRows' = lspRows
          /\ lspGhosts' = lspGhosts
      BY <1>5, <2>1, FileSteps
    <3> QED  BY <1>1, <3>1, <3>2
  <2>2. RowsDue(f)'
    <3>1. CASE f \in lspTimers' /\ E!IsOpen(f)'
      BY <3>1 DEF RowsDue
    <3>2. CASE IsHeld("save", f)' \/ IsHeld("close", f)'
      BY <3>2 DEF RowsDue
    <3>3. CASE ~E!IsOpen(f)' /\ IsHeld("watch", f)'
      BY <3>3 DEF RowsDue
    <3>4. CASE f \in lspTimers /\ IsHeld("live", f)' /\ lspBuffer' = lspBuffer
      <4>1. E!IsOpen(f)'
        BY <1>0, <3>4 DEF E!IsOpen
      <4> QED  BY <3>4, <4>1 DEF RowsDue
    <3> QED  BY <1>5, <3>1, <3>2, <3>3, <3>4, FileSteps
  <2> QED  BY <1>2, <2>1, <2>2 DEF Rowed
<1>6. ASSUME UNCHANGED <<lspBuffer, lspDisk, lspCompiler, lspTimers, lspPasses, lspWatch, lspRows, lspTasks, lspGhosts>>,
             \A c, g : IsHeld(c, g) => IsHeld(c, g)'
      PROVE  Rowed'
  BY <1>1, <1>6, RowsStay DEF Rowed
<1>7. ASSUME E!ChangeConfig PROVE Rowed'
  <2>1. /\ UNCHANGED <<lspBuffer, lspDisk, lspCompiler, lspTimers, lspPasses, lspWatch, lspRows, lspTasks, lspGhosts>>
        /\ E!Hold("config", NoText)
    BY <1>7 DEF E!ChangeConfig
  <2>2. \A c, g : IsHeld(c, g) => IsHeld(c, g)'
    BY <2>1, Waits DEF Kinds
  <2> QED  BY <1>6, <2>1, <2>2
<1>8. ASSUME NEW f \in Files, LiveAgain(f) \/ LiveGone(f) \/ WatchPassed(f) PROVE Rowed'
  <2>1. UNCHANGED <<lspBuffer, lspDisk, lspCompiler, lspTimers, lspWatch, lspRows, lspTasks, lspGhosts>>
    BY <1>8 DEF LiveAgain, LiveGone, WatchPassed, Took, TextsStay, LifeStays
  <2>2. PICK k \in Kinds : Took(k, f) /\ \A c, g : IsHeld(c, g) => IsHeld(c, g)' \/ (c = k /\ g = f)
    BY <1>8, HeldRuns DEF HeldStep
  <2>3. Took("live", f) \/ (Took("watch", f) /\ WatchPassed(f))
    BY <1>8 DEF LiveAgain, LiveGone, WatchPassed
  <2>4. k = "live" \/ (k = "watch" /\ E!IsOpen(f))
    BY <2>2, <2>3 DEF Took, WatchPassed
  <2>5. \A g \in Files : g # f => lspPasses'[g] = lspPasses[g]
    BY <1>0, <1>8 DEF LiveAgain, LiveGone, WatchPassed
  <2>6. ASSUME NEW g \in Files, g # f PROVE RowFine(g)'
    BY <1>1, <2>1, <2>2, <2>5, <2>6, RowsStay
  <2>7. CASE LiveAgain(f)
    <3>1. E!IsOpen(f)' /\ lspPasses'[f].again
      BY <1>0, <2>1, <2>7 DEF LiveAgain, E!IsOpen
    <3> QED  BY <1>2, <2>6, <3>1 DEF Rowed, RowsDue
  <2>8. CASE ~LiveAgain(f)
    <3>1. lspPasses' = lspPasses /\ (LiveGone(f) \/ WatchPassed(f))
      BY <1>8, <2>8 DEF LiveGone, WatchPassed
    <3>2. (k = "live" /\ ~E!IsOpen(f)) \/ (k = "watch" /\ E!IsOpen(f))
      BY <2>2, <2>4, <3>1 DEF LiveGone, WatchPassed, Took
    <3>3. RowsDue(f) => RowsDue(f)'
      BY <2>1, <2>2, <3>1, <3>2, RowsStay
    <3> QED  BY <1>1, <2>1, <2>6, <3>3 DEF Rowed
  <2> QED  BY <2>7, <2>8
<1>9. ASSUME NEW f \in Files, LivePass(f) PROVE Rowed'
  <2>1. /\ UNCHANGED <<lspBuffer, lspDisk, lspCompiler, lspTimers, lspWatch, lspRows, lspGhosts>>
        /\ E!IsOpen(f) /\ E!Pass(f, lspTasks)
    BY <1>9 DEF LivePass, Took, TextsStay, LifeStays
  <2>2. \A c, g : IsHeld(c, g) => IsHeld(c, g)' \/ g = f
    BY <1>9, HeldRuns DEF HeldStep
  <2>3. /\ \A g \in Files : g # f => lspPasses'[g] = lspPasses[g]
        /\ \/ (lspCompiler = 0 \/ lspBuffer[f].text = "torn") /\ lspTasks' = lspTasks
           \/ \E e \in LspTask : /\ ~e.begun /\ e.kind = "overlay" /\ e.file = f /\ e.text = lspBuffer[f].text
                                 /\ lspTasks' = Append(lspTasks, e)
    BY <1>0, <2>1, PassRows
  <2>4. ASSUME NEW g \in Files, g # f PROVE RowsDue(g) => RowsDue(g)'
    BY <2>1, <2>2, <2>3, <2>4, RowsStay
  <2>5. CASE (lspCompiler = 0 \/ lspBuffer[f].text = "torn") /\ lspTasks' = lspTasks
    <3>1. E!IsOpen(f)'
      BY <2>1 DEF E!IsOpen
    <3>2. RowsDue(f)'
      BY <2>1, <2>5, <3>1 DEF RowsDue
    <3> QED  BY <1>1, <1>2, <2>1, <2>4, <2>5, <3>2 DEF Rowed
  <2>6. ASSUME NEW e \in LspTask, ~e.begun, e.file = f, e.text = lspBuffer[f].text, lspTasks' = Append(lspTasks, e)
        PROVE  Rowed'
    <3>1. Fine(lspDisk[f], lspBuffer[f], e.text)
      BY <2>1, <2>6 DEF Fine, E!IsOpen
    <3>2. Leaves(lspTasks', f, lspDisk'[f], lspBuffer'[f], lspRows'[f])
      BY <1>0, <2>1, <2>6, <3>1, LeavesMore
    <3>3. ASSUME NEW g \in Files, g # f, Leaves(lspTasks, g, lspDisk[g], lspBuffer[g], lspRows[g])
          PROVE  Leaves(lspTasks', g, lspDisk'[g], lspBuffer'[g], lspRows'[g])
      BY <1>0, <2>1, <2>6, <3>3, LeavesMore
    <3> QED  BY <1>1, <1>2, <2>1, <2>4, <3>2, <3>3 DEF Rowed
  <2> QED  BY <2>3, <2>5, <2>6
<1>10. ASSUME NEW f \in Files, CloseHeard(f) PROVE Rowed'
  <2>1. UNCHANGED <<lspBuffer, lspDisk, lspCompiler>> /\ E!Reconcile(f) /\ Took("close", f)
    BY <1>10 DEF CloseHeard, Took, TextsStay, LifeStays
  <2>2. CASE lspCompiler = 0
    BY <1>3, <2>1, <2>2
  <2>3. CASE lspCompiler # 0
    <3>1. /\ UNCHANGED <<lspTimers, lspPasses, lspWatch>> /\ lspGhosts \subseteq lspGhosts'
          /\ \A g \in Files : g # f => lspRows'[g] = lspRows[g]
      BY <2>1, <2>3, ResetRows
    <3>2. PICK k \in Kinds : Took(k, f) /\ \A c, g : IsHeld(c, g) => IsHeld(c, g)' \/ (c = k /\ g = f)
      BY <1>10, HeldRuns DEF HeldStep
    <3>3. k = "close"
      BY <2>1, <3>2 DEF Took
    <3>4. \A c, g : IsHeld(c, g) => IsHeld(c, g)' \/ (c = "close" /\ g = f)
      BY <3>2, <3>3
    <3>5. ASSUME NEW g \in Files, g # f PROVE RowsDue(g) => RowsDue(g)'
      BY <2>1, <3>1, <3>4, <3>5, RowsStay
    <3>6. Moved(f) => RowsDue(f)'
      BY <2>1, <3>1, <3>4 DEF Moved, RowsDue, E!IsOpen
    <3>7. CASE /\ lspDisk[f] = NoText /\ lspTasks' = lspTasks /\ lspRows'[f] = lspDisk[f]
               /\ lspPasses[f] = E!NoPass \/ f \in lspGhosts'
      <4>1. ASSUME lspPasses[f] = E!NoPass, Reset(lspTasks, f, lspDisk[f])
            PROVE  Leaves(lspTasks, f, lspDisk[f], lspBuffer[f], lspDisk[f])
        <5>1. ASSUME NEW i, IsLast(lspTasks, f, i)
              PROVE  Effect(lspTasks[i], lspDisk[f]) = lspDisk[f]
          <6>1. i \in DOMAIN lspTasks /\ lspTasks[i] \in LspTask
            BY <1>0, <5>1 DEF IsLast, Works
          <6>2. ~LaidOver(lspTasks, i, f)
            BY <1>0, <4>1, <6>1 DEF Queue
          <6>3. lspTasks[i].kind = "full" \/ lspTasks[i].kind = "reconcile"
            BY <5>1, <6>1, <6>2 DEF LaidOver, LspTask, IsLast, Works
          <6> QED  BY <4>1, <5>1, <6>3 DEF Effect, Reset
        <5> QED  BY <1>0, <5>1, LastThere DEF Leaves, Fine
      <4>2. RowFine(f)'
        <5>1. CASE Moved(f)
          BY <1>2, <3>6, <5>1
        <5>2. CASE Reset(lspTasks, f, lspDisk[f])
          BY <1>2, <2>1, <3>7, <4>1, <5>2 DEF RowFine
        <5> QED  BY <5>1, <5>2 DEF Reconciles
      <4>3. ASSUME NEW g \in Files, g # f PROVE RowFine(g)'
        BY <1>1, <2>1, <3>1, <3>5, <3>7, <4>3
      <4> QED  BY <4>2, <4>3 DEF Rowed
    <3>8. ASSUME lspRows' = lspRows, NEW e \in LspTask, ~e.begun, e.file = f, e.text = lspDisk[f],
                 lspTasks' = Append(lspTasks, e)
          PROVE  Rowed'
      <4>1. Leaves(lspTasks', f, lspDisk'[f], lspBuffer'[f], lspRows'[f])
        BY <1>0, <2>1, <3>8, LeavesMore DEF Fine
      <4>2. ASSUME NEW g \in Files, g # f, Leaves(lspTasks, g, lspDisk[g], lspBuffer[g], lspRows[g])
            PROVE  Leaves(lspTasks', g, lspDisk'[g], lspBuffer'[g], lspRows'[g])
        BY <1>0, <2>1, <3>8, <4>2, LeavesMore
      <4> QED  BY <1>1, <1>2, <3>1, <3>5, <4>1, <4>2 DEF Rowed
    <3> QED  BY <2>1, <2>3, <3>7, <3>8, ResetRows
  <2> QED  BY <2>2, <2>3
<1>11. ASSUME NEW f \in Files, SaveHeard(f) PROVE Rowed'
  <2>1. E!Validate(f) /\ lspCompiler' = lspCompiler
    BY <1>11 DEF SaveHeard, Took, LifeStays
  <2> QED  BY <1>3, <1>4, <2>1, RunRows
<1>12. ASSUME RunAsked PROVE Rowed'
  <2>1. E!Validate(NoText) /\ lspCompiler' = lspCompiler
    BY <1>12 DEF RunAsked, LifeStays
  <2> QED  BY <1>3, <1>4, <2>1, RunRows
<1>13. ASSUME NEW k, NEW f, WatchHeard(k, f) PROVE Rowed'
  BY <1>3, <1>13 DEF WatchHeard
<1>14. ASSUME RunBegins PROVE Rowed'
  <2>1. ASSUME NEW g \in Files, Leaves(lspTasks, g, lspDisk[g], lspBuffer[g], lspRows[g])
        PROVE  Leaves(lspTasks', g, lspDisk'[g], lspBuffer'[g], lspRows'[g])
    <3>1. /\ lspTasks # <<>> /\ ~lspTasks[1].begun /\ lspTasks[1].kind = "full" /\ lspRows'[g] = lspDisk[g]
          /\ lspTasks' = [lspTasks EXCEPT ![1].begun = TRUE] /\ lspDisk' = lspDisk /\ lspBuffer' = lspBuffer
      BY <1>14 DEF RunBegins, Begun, TextsStay
    <3>2. Leaves([lspTasks EXCEPT ![1].begun = TRUE], g, lspDisk[g], lspBuffer[g], Effect(lspTasks[1], lspDisk[g]))
      BY <1>0, <2>1, <3>1, LeavesBegun
    <3> QED  BY <3>1, <3>2 DEF Effect
  <2>2. UNCHANGED <<lspBuffer, lspCompiler, lspWatch, lspPasses, lspTimers, lspGhosts, lspHeld>>
    BY <1>14 DEF RunBegins, Begun, TextsStay, LifeStays
  <2>3. \A g \in Files : RowsDue(g) => RowsDue(g)'
    BY <2>2, RowsStay, Waits
  <2> QED  BY <1>1, <2>1, <2>2, <2>3 DEF Rowed
<1>15. ASSUME NEW f \in Files, RowsBegin(f) PROVE Rowed'
  <2>1. ASSUME NEW g \in Files, Leaves(lspTasks, g, lspDisk[g], lspBuffer[g], lspRows[g])
        PROVE  Leaves(lspTasks', g, lspDisk'[g], lspBuffer'[g], lspRows'[g])
    <3>1. /\ lspTasks # <<>> /\ ~lspTasks[1].begun /\ lspTasks[1].kind # "full" /\ lspTasks[1].file = f
          /\ lspRows'[g] = IF g = f THEN lspTasks[1].text ELSE lspRows[g]
          /\ lspTasks' = [lspTasks EXCEPT ![1].begun = TRUE] /\ lspDisk' = lspDisk /\ lspBuffer' = lspBuffer
      BY <1>0, <1>15 DEF RowsBegin, Begun, TextsStay
    <3>2. CASE g = f
      <4>1. Leaves([lspTasks EXCEPT ![1].begun = TRUE], g, lspDisk[g], lspBuffer[g], Effect(lspTasks[1], lspDisk[g]))
        BY <1>0, <2>1, <3>1, <3>2, LeavesBegun
      <4> QED  BY <3>1, <3>2, <4>1 DEF Effect
    <3>3. CASE g # f
      <4>1. Leaves([lspTasks EXCEPT ![1].begun = TRUE], g, lspDisk[g], lspBuffer[g], lspRows[g])
        BY <1>0, <2>1, <3>1, <3>3, LeavesBegun
      <4> QED  BY <3>1, <3>3, <4>1
    <3> QED  BY <3>2, <3>3
  <2>2. UNCHANGED <<lspBuffer, lspCompiler, lspWatch, lspPasses, lspTimers, lspGhosts, lspHeld>>
    BY <1>15 DEF RowsBegin, Begun, TextsStay, LifeStays
  <2>3. \A g \in Files : RowsDue(g) => RowsDue(g)'
    BY <2>2, RowsStay, Waits
  <2> QED  BY <1>1, <2>1, <2>2, <2>3 DEF Rowed
<1>16. ASSUME Ended, NEW g \in Files, Leaves(lspTasks, g, lspDisk[g], lspBuffer[g], lspRows[g])
       PROVE  Leaves(Tail(lspTasks), g, lspDisk'[g], lspBuffer'[g], lspRows'[g])
  BY <1>0, <1>16, LeavesLess DEF Ended, TextsStay
<1>17. ASSUME Ended
       PROVE  /\ UNCHANGED <<lspBuffer, lspDisk, lspCompiler, lspWatch, lspTimers, lspGhosts, lspRows>>
              /\ (\A c, g : IsHeld(c, g) => IsHeld(c, g)') /\ Tail(lspTasks) \in Seq(LspTask)
  BY <1>0, <1>17, Waits, TaskLess DEF Ended, TextsStay
<1>18. ASSUME NEW f \in Files, PassAgain(f) PROVE Rowed'
  <2>1. Ended /\ E!IsOpen(f) /\ E!Pass(f, Tail(lspTasks))
    BY <1>18 DEF PassAgain
  <2>2. /\ \A g \in Files : g # f => lspPasses'[g] = lspPasses[g]
        /\ \/ (lspCompiler = 0 \/ lspBuffer[f].text = "torn") /\ lspTasks' = Tail(lspTasks)
           \/ \E e \in LspTask : /\ ~e.begun /\ e.kind = "overlay" /\ e.file = f /\ e.text = lspBuffer[f].text
                                 /\ lspTasks' = Append(Tail(lspTasks), e)
    BY <1>17, <2>1, PassRows
  <2>3. ASSUME NEW g \in Files, g # f PROVE RowsDue(g) => RowsDue(g)'
    BY <1>17, <2>1, <2>2, <2>3, RowsStay
  <2>4. CASE (lspCompiler = 0 \/ lspBuffer[f].text = "torn") /\ lspTasks' = Tail(lspTasks)
    <3>1. E!IsOpen(f)'
      BY <1>17, <2>1 DEF E!IsOpen
    <3>2. RowsDue(f)'
      BY <1>17, <2>1, <2>4, <3>1 DEF RowsDue
    <3>3. ASSUME NEW g \in Files, g # f PROVE RowFine(g)'
      BY <1>1, <1>16, <1>17, <2>1, <2>3, <2>4, <3>3
    <3> QED  BY <1>2, <3>2, <3>3 DEF Rowed
  <2>5. ASSUME NEW e \in LspTask, ~e.begun, e.file = f, e.text = lspBuffer[f].text,
               lspTasks' = Append(Tail(lspTasks), e)
        PROVE  Rowed'
    <3>1. Fine(lspDisk'[f], lspBuffer'[f], e.text)
      BY <1>17, <2>1, <2>5 DEF Fine, E!IsOpen
    <3>2. Leaves(lspTasks', f, lspDisk'[f], lspBuffer'[f], lspRows'[f])
      BY <1>17, <2>1, <2>5, <3>1, LeavesMore
    <3>3. ASSUME NEW g \in Files, g # f, Leaves(lspTasks, g, lspDisk[g], lspBuffer[g], lspRows[g])
          PROVE  Leaves(lspTasks', g, lspDisk'[g], lspBuffer'[g], lspRows'[g])
      BY <1>16, <1>17, <2>1, <2>5, <3>3, LeavesMore
    <3> QED  BY <1>1, <1>2, <1>17, <2>1, <2>3, <3>2, <3>3 DEF Rowed
  <2> QED  BY <2>2, <2>4, <2>5
<1>19. ASSUME ReconcileEnds \/ RunEnds \/ \E f \in Files : PassEnds(f) PROVE Rowed'
  <2>1. Ended /\ lspTasks' = Tail(lspTasks)
    BY <1>19 DEF ReconcileEnds, RunEnds, PassEnds
  <2>2. \A g \in Files : E!IsOpen(g) /\ lspPasses[g].again => lspPasses'[g].again
    BY <1>0, <1>19 DEF ReconcileEnds, RunEnds, PassEnds
  <2>3. \A g \in Files : RowsDue(g) => RowsDue(g)'
    BY <1>17, <2>1, <2>2, RowsStay
  <2> QED  BY <1>1, <1>16, <1>17, <2>1, <2>3 DEF Rowed
<1>20. ASSUME GoesDown PROVE Rowed'
  BY <1>3, <1>20, LifeRuns
<1>21. ASSUME NEW g \in lspSetups, E!SetUp(g) PROVE Rowed'
  <2>1. lspTasks' = Append(lspTasks, E!Task("full", NoText, NoText))
    BY <1>21 DEF E!SetUp
  <2> QED  BY <1>4, <2>1, RunRows
<1>22. ASSUME UNCHANGED <<E!editor, E!lsp, lspCompiler>> PROVE Rowed'
  <2>1. UNCHANGED <<lspBuffer, lspDisk, lspCompiler, lspTimers, lspPasses, lspWatch, lspRows, lspTasks, lspGhosts, lspHeld>>
    BY <1>22 DEF E!editor, E!lsp
  <2> QED  BY <1>6, <2>1, Waits
<1> QED  BY <1>5, <1>7, <1>8, <1>9, <1>10, <1>11, <1>12, <1>13, <1>14, <1>15, <1>18, <1>19, <1>20, <1>21, <1>22,
            EditorSteps, LifeRuns DEF HeldStep, TaskStep, LifeStep

\* A reset that nothing supersedes is to what the disk has.
LEMMA ReconcilesKept ==
  ASSUME EditorConstants, EditorTyped, LifeTyped, TasksInv, FullFirst, Reconciles, E!Next
  PROVE  Reconciles'
<1>0. /\ lspPasses \in [Files -> [version : Nat, text : Texts, again : BOOLEAN]]
      /\ lspTimers \subseteq {f \in Files : E!IsOpen(f)} /\ lspTasks \in Seq(LspTask)
  BY DEF EditorTyped, PassesTyped, TextsTyped, WaitingTyped
<1>1. ASSUME NEW g \in Files, Moved(g) => Moved(g)',
             Reset(lspTasks, g, lspDisk[g]) => Moved(g)' \/ Reset(lspTasks', g, lspDisk'[g])
      PROVE  Moved(g)' \/ Reset(lspTasks', g, lspDisk'[g])
  BY <1>1 DEF Reconciles
<1>2. ASSUME \A g \in Files : Reset(lspTasks', g, lspDisk'[g]) PROVE Reconciles'
  BY <1>2 DEF Reconciles
<1>3. ASSUME lspWatch'.timer PROVE Reconciles'
  BY <1>3 DEF Reconciles, Moved
<1>4. ASSUME NEW e \in LspTask, ~e.begun, e.kind = "full", lspTasks' = Append(lspTasks, e) PROVE Reconciles'
  BY <1>0, <1>2, <1>4, ResetMore
<1>5. ASSUME lspTasks' = <<>> PROVE Reconciles'
  BY <1>2, <1>5 DEF Reset, IsLast, Works
<1>6. ASSUME NEW f \in Files, FileStep(f) PROVE Reconciles'
  <2>0. lspTasks' = lspTasks /\ lspWatch' = lspWatch /\ \A c, g : IsHeld(c, g) => IsHeld(c, g)'
    BY <1>6, FileSteps
  <2>1. ASSUME NEW g \in Files, g # f PROVE Moved(g)' \/ Reset(lspTasks', g, lspDisk'[g])
    <3>1. Moved(g) => Moved(g)'
      BY <1>6, <2>1, FileSteps, RowsStay DEF LifeStays
    <3> QED  BY <1>1, <1>6, <2>1, <3>1, FileSteps
  <2>2. Moved(f)' \/ Reset(lspTasks', f, lspDisk'[f])
    <3>1. CASE E!Free /\ lspDisk' = lspDisk
      <4>1. CASE lspReady
        <5>1. \A c, g : ~IsHeld(c, g)
          BY <3>1, <4>1 DEF E!Free, IsHeld
        <5> QED  BY <1>1, <2>0, <3>1, <5>1 DEF Moved
      <4>2. CASE ~lspReady
        <5>1. \A i \in DOMAIN lspTasks : lspTasks[i].kind = "full"
          BY <4>2 DEF FullFirst
        <5> QED  BY <2>0, <5>1 DEF Reset, IsLast, Works
      <4> QED  BY <4>1, <4>2
    <3>2. CASE IsHeld("save", f)' \/ (~E!IsOpen(f)' /\ IsHeld("watch", f)')
      BY <3>2 DEF Moved
    <3>3. CASE lspDisk' = lspDisk /\ (~E!IsOpen(f)' \/ lspBuffer' = lspBuffer)
      <4>1. Moved(f) => Moved(f)'
        BY <2>0, <3>3 DEF Moved, E!IsOpen
      <4> QED  BY <1>1, <2>0, <3>3, <4>1
    <3> QED  BY <1>6, <3>1, <3>2, <3>3, FileSteps
  <2> QED  BY <2>1, <2>2 DEF Reconciles
<1>7. ASSUME UNCHANGED <<lspBuffer, lspDisk, lspWatch, lspTasks>>, \A c, g : IsHeld(c, g) => IsHeld(c, g)'
      PROVE  Reconciles'
  <2>1. \A g : Moved(g) => Moved(g)'
    BY <1>7 DEF Moved, E!IsOpen
  <2> QED  BY <1>1, <1>7, <2>1 DEF Reconciles
<1>8. ASSUME E!ChangeConfig PROVE Reconciles'
  <2>1. UNCHANGED <<lspBuffer, lspDisk, lspWatch, lspTasks>> /\ E!Hold("config", NoText)
    BY <1>8 DEF E!ChangeConfig
  <2>2. \A c, g : IsHeld(c, g) => IsHeld(c, g)'
    BY <2>1, Waits DEF Kinds
  <2> QED  BY <1>7, <2>1, <2>2
<1>9. ASSUME NEW f \in Files, LiveAgain(f) \/ LiveGone(f) \/ WatchPassed(f) \/ LivePass(f) \/ CloseHeard(f)
      PROVE  \A g \in Files : Moved(g) => Moved(g)'
  <2>1. UNCHANGED <<lspBuffer, lspWatch>>
    BY <1>9 DEF LiveAgain, LiveGone, WatchPassed, LivePass, CloseHeard, E!Reconcile, Took, TextsStay
  <2>2. PICK k \in Kinds : Took(k, f) /\ \A c, g : IsHeld(c, g) => IsHeld(c, g)' \/ (c = k /\ g = f)
    BY <1>9, HeldRuns DEF HeldStep
  <2>3. k = "live" \/ k = "close" \/ (k = "watch" /\ E!IsOpen(f))
    BY <1>9, <2>2 DEF LiveAgain, LiveGone, WatchPassed, LivePass, CloseHeard, Took
  <2> QED  BY <2>1, <2>2, <2>3 DEF Moved, E!IsOpen
<1>10. ASSUME NEW f \in Files, LiveAgain(f) \/ LiveGone(f) \/ WatchPassed(f) PROVE Reconciles'
  <2>1. UNCHANGED <<lspDisk, lspTasks>>
    BY <1>10 DEF LiveAgain, LiveGone, WatchPassed, Took, TextsStay
  <2> QED  BY <1>1, <1>9, <1>10, <2>1 DEF Reconciles
<1>11. ASSUME NEW f \in Files, NEW q \in Seq(LspTask), E!IsOpen(f), E!Pass(f, q), lspDisk' = lspDisk,
              NEW g \in Files, Reset(q, g, lspDisk[g])
       PROVE  Reset(lspTasks', g, lspDisk'[g])
  <2>1. \/ lspTasks' = q
        \/ \E e \in LspTask : ~e.begun /\ e.kind = "overlay" /\ e.file = f /\ lspTasks' = Append(q, e)
    BY <1>11, PassRows
  <2>2. ASSUME NEW e \in LspTask, ~e.begun, e.kind = "overlay", e.file = f, lspTasks' = Append(q, e)
        PROVE  Reset(lspTasks', g, lspDisk'[g])
    BY <1>11, <2>2, ResetMore
  <2> QED  BY <1>11, <2>1, <2>2
<1>12. ASSUME NEW f \in Files, LivePass(f) PROVE Reconciles'
  <2>1. lspDisk' = lspDisk /\ E!IsOpen(f) /\ E!Pass(f, lspTasks)
    BY <1>12 DEF LivePass, Took, TextsStay
  <2> QED  BY <1>0, <1>1, <1>9, <1>11, <1>12, <2>1 DEF Reconciles
<1>13. ASSUME NEW f \in Files, CloseHeard(f) PROVE Reconciles'
  <2>1. lspDisk' = lspDisk /\ E!Reconcile(f)
    BY <1>13 DEF CloseHeard, Took, TextsStay
  <2>2. CASE lspTasks' = lspTasks
    BY <1>1, <1>9, <1>13, <2>1, <2>2 DEF Reconciles
  <2>3. ASSUME NEW e \in LspTask, ~e.begun, e.file = f, e.text = lspDisk[f], lspTasks' = Append(lspTasks, e)
        PROVE  Reconciles'
    <3>1. ASSUME NEW g \in Files, Reset(lspTasks, g, lspDisk[g]) \/ g = f PROVE Reset(lspTasks', g, lspDisk'[g])
      BY <1>0, <2>1, <2>3, <3>1, ResetMore
    <3> QED  BY <1>1, <1>9, <1>13, <3>1 DEF Reconciles
  <2>4. lspCompiler = 0 => lspTasks' = lspTasks
    BY <2>1 DEF E!Reconcile
  <2> QED  BY <2>1, <2>2, <2>3, <2>4, ResetRows
<1>14. ASSUME NEW f \in Files \cup {NoText}, E!Validate(f) PROVE Reconciles'
  <2>1. CASE lspCompiler = 0 /\ lspTasks' = lspTasks
    BY <1>5, <2>1 DEF TasksInv
  <2> QED  BY <1>4, <1>14, <2>1, RunRows
<1>15. ASSUME RunBegins \/ \E f \in Files : RowsBegin(f) PROVE Reconciles'
  <2>1. Begun
    BY <1>15 DEF RunBegins, RowsBegin
  <2>2. /\ UNCHANGED <<lspBuffer, lspDisk, lspWatch, lspHeld>>
        /\ lspTasks # <<>> /\ ~lspTasks[1].begun /\ lspTasks' = [lspTasks EXCEPT ![1].begun = TRUE]
    BY <2>1 DEF Begun, TextsStay
  <2>3. \A g : Moved(g) => Moved(g)'
    BY <2>2, Waits DEF Moved, E!IsOpen
  <2>4. ASSUME NEW g \in Files, Reset(lspTasks, g, lspDisk[g]) PROVE Reset(lspTasks', g, lspDisk'[g])
    BY <1>0, <2>2, <2>4, ResetKept
  <2> QED  BY <1>1, <2>3, <2>4 DEF Reconciles
<1>16. ASSUME Ended, \A g \in Files : Reset(Tail(lspTasks), g, lspDisk[g]) => Reset(lspTasks', g, lspDisk'[g])
       PROVE  Reconciles'
  <2>1. UNCHANGED <<lspBuffer, lspWatch, lspHeld>> /\ lspTasks # <<>> /\ lspTasks[1].begun
    BY <1>16 DEF Ended, TextsStay
  <2>2. \A g : Moved(g) => Moved(g)'
    BY <2>1, Waits DEF Moved, E!IsOpen
  <2>3. ASSUME NEW g \in Files, Reset(lspTasks, g, lspDisk[g]) PROVE Reset(Tail(lspTasks), g, lspDisk[g])
    BY <1>0, <2>1, <2>3, ResetKept
  <2> QED  BY <1>1, <1>16, <2>2, <2>3 DEF Reconciles
<1>17. ASSUME NEW f \in Files, PassAgain(f) PROVE Reconciles'
  <2>1. Ended /\ E!IsOpen(f) /\ E!Pass(f, Tail(lspTasks)) /\ lspDisk' = lspDisk /\ lspTasks # <<>>
    BY <1>17 DEF PassAgain, Ended, TextsStay
  <2>2. Tail(lspTasks) \in Seq(LspTask)
    BY <1>0, <2>1, TaskLess
  <2> QED  BY <1>11, <1>16, <2>1, <2>2
<1>18. ASSUME ReconcileEnds \/ RunEnds \/ \E f \in Files : PassEnds(f) PROVE Reconciles'
  <2>1. Ended /\ lspTasks' = Tail(lspTasks) /\ lspDisk' = lspDisk
    BY <1>18 DEF ReconcileEnds, RunEnds, PassEnds, Ended, TextsStay
  <2> QED  BY <1>16, <2>1
<1>19. ASSUME GoesDown PROVE Reconciles'
  BY <1>5, <1>19 DEF GoesDown, E!Teardown
<1>20. ASSUME NEW g \in lspSetups, E!SetUp(g) PROVE Reconciles'
  <2>1. lspTasks' = Append(lspTasks, E!Task("full", NoText, NoText))
    BY <1>20 DEF E!SetUp
  <2> QED  BY <1>4, <2>1, RunRows
<1>21. ASSUME UNCHANGED <<E!editor, E!lsp, lspCompiler>> PROVE Reconciles'
  <2>1. UNCHANGED <<lspBuffer, lspDisk, lspWatch, lspTasks, lspHeld>>
    BY <1>21 DEF E!editor, E!lsp
  <2> QED  BY <1>7, <2>1, Waits
<1>22. ASSUME NEW f \in Files, SaveHeard(f) \/ WatchHeard("watch", f) PROVE Reconciles'
  BY <1>3, <1>14, <1>22 DEF SaveHeard, WatchHeard
<1>23. ASSUME NEW f, WatchHeard("config", f) PROVE Reconciles'
  BY <1>3, <1>23 DEF WatchHeard
<1>24. ASSUME RunAsked PROVE Reconciles'
  BY <1>14, <1>24 DEF RunAsked
<1> QED  BY <1>6, <1>8, <1>10, <1>12, <1>13, <1>15, <1>17, <1>18, <1>19, <1>20, <1>21, <1>22, <1>23, <1>24,
            EditorSteps, LifeRuns DEF HeldStep, TaskStep, LifeStep

-----------------------------------------------------------------------------
(* The invariant, and what the editor is told once all is quiet.           *)

LEMMA EditorInit ==
  ASSUME EditorConstants, E!Init
  PROVE  EditorInv
<1> USE DEF E!Init
<1>0. /\ DOMAIN lspHeld = {} /\ DOMAIN lspTasks = {} /\ lspTasks = <<>>
      /\ lspHeld \in Seq(Held) /\ lspTasks \in Seq(LspTask)
  OBVIOUS
<1>1. TextsTyped
  BY DEF TextsTyped, Texts, E!Texts, E!IsOpen, E!Closed
<1>2. PassesTyped
  BY DEF PassesTyped, Texts, E!NoPass, E!Closed
<1>3. ShownTyped /\ WaitingTyped
  BY <1>0 DEF ShownTyped, WaitingTyped, Shows, E!Errors, E!Fast, E!Overlay
<1>4. LifeTyped
  <2>1. IsFiniteSet(lspAlive)
    BY FS_Singleton
  <2>2. /\ lspAlive = {1} /\ lspCompiler = 1 /\ lspSetups = {} /\ lspTeardowns = {}
        /\ lspReady = TRUE /\ lspCrossed = FALSE
    OBVIOUS
  <2>3. {1} \subseteq Nat \ {0} /\ 1 \in Nat
    OBVIOUS
  <2> QED  BY <2>1, <2>2, <2>3 DEF LifeTyped
<1>5. TasksInv
  BY <1>0 DEF TasksInv, Queue
<1>6. ~Running
  BY <1>0 DEF Running, GoesOn
<1>7. Covered
  <2>1. \A f \in Files : lspLive[f] = {} /\ lspShown[f] = E!Errors(lspDisk[f])
    OBVIOUS
  <2>2. \A f \in Files : f \notin lspPiped => E!Errors(lspDisk[f]) = {}
    OBVIOUS
  <2> QED  BY <1>6, <2>1, <2>2, Zenon DEF Covered
<1>8. \A f \in Files : ~E!IsOpen(f)
  BY DEF E!IsOpen
<1>9. Life /\ FullFirst
  BY DEF Life, FullFirst
<1>10. RunsOfDisk /\ Noticed
  BY <1>6 DEF RunsOfDisk, Noticed
<1>11. Lives /\ Above /\ Below
  BY <1>8 DEF Lives, Above, Below, LiveFine, AboveFine, BelowFine
<1>12. Rowed /\ Reconciles
  BY <1>0 DEF Rowed, RowFine, Leaves, Fine, Works, Reconciles, Reset, IsLast
<1> QED  BY <1>1, <1>2, <1>3, <1>4, <1>5, <1>7, <1>9, <1>10, <1>11, <1>12 DEF EditorInv, EditorTyped

LEMMA CrossedStays ==
  ASSUME EditorConstants, EditorTyped, LifeTyped, lspCrossed, E!Next
  PROVE  lspCrossed'
<1>1. ASSUME NEW f \in Files, FileStep(f) PROVE lspCrossed'
  BY <1>1, FileSteps DEF LifeStays
<1>2. ASSUME LifeStays PROVE lspCrossed'
  BY <1>2 DEF LifeStays
<1>3. ASSUME NEW f \in Files, HeldStep(f) PROVE lspCrossed'
  BY <1>2, <1>3 DEF HeldStep, LiveAgain, LivePass, LiveGone, CloseHeard, SaveHeard, WatchPassed, WatchHeard, Took
<1>4. ASSUME NEW f \in Files, TaskStep(f) PROVE lspCrossed'
  BY <1>2, <1>4 DEF TaskStep, RowsBegin, PassAgain, PassEnds, Begun, Ended
<1>5. ASSUME NEW f, WatchHeard("config", f) PROVE lspCrossed'
  BY <1>2, <1>5 DEF WatchHeard, Took
<1>6. ASSUME E!ChangeConfig \/ RunBegins \/ ReconcileEnds \/ RunEnds PROVE lspCrossed'
  BY <1>2, <1>6 DEF E!ChangeConfig, RunBegins, ReconcileEnds, RunEnds, Begun, Ended
<1>7. ASSUME LifeStep PROVE lspCrossed'
  BY <1>2, <1>7 DEF LifeStep, RunAsked, GoesDown, E!Teardown, E!TornDown, E!SetUp, E!SetUpFails
<1> QED  BY <1>1, <1>3, <1>4, <1>5, <1>6, <1>7, EditorSteps

LEMMA EditorNext ==
  ASSUME EditorConstants, EditorInv, E!Next
  PROVE  EditorInv'
<1>1. EditorTyped /\ LifeTyped /\ TasksInv /\ Covered /\ Lives
  BY DEF EditorInv
<1>2. EditorTyped' /\ LifeTyped' /\ TasksInv' /\ Covered' /\ Lives'
  BY <1>1, EditorTypes, TasksKept, CoveredKept, LivesKept
<1>3. CASE lspCrossed
  BY <1>1, <1>2, <1>3, CrossedStays DEF EditorInv
<1>4. CASE ~lspCrossed
  <2>1. Life /\ FullFirst /\ RunsOfDisk /\ Noticed /\ Above /\ Below /\ Rowed /\ Reconciles
    BY <1>4 DEF EditorInv
  <2>2. lspCrossed' \/ Life'
    BY <1>1, <2>1, LifeKept
  <2>3. FullFirst' /\ RunsOfDisk' /\ Noticed'
    BY <1>1, <2>1, FullFirstKept, RunsOfDiskKept, NoticedKept
  <2>4. Above' /\ Below'
    BY <1>1, <2>1, AboveKept, BelowKept
  <2>5. Rowed' /\ Reconciles'
    BY <1>1, <2>1, RowedKept, ReconcilesKept
  <2> QED  BY <1>2, <2>2, <2>3, <2>4, <2>5 DEF EditorInv
<1> QED  BY <1>3, <1>4

LEMMA EditorStutters ==
  ASSUME EditorInv, UNCHANGED E!vars
  PROVE  EditorInv'
<1>1. /\ UNCHANGED <<lspDisk, lspBuffer, lspEvents, lspTimers, lspPasses, lspHeld, lspTasks, lspRows, lspLive>>
      /\ UNCHANGED <<lspShown, lspPiped, lspWatch, lspMissed, lspGhosts, lspCompiler, lspAlive, lspTeardowns>>
      /\ UNCHANGED <<lspSetups, lspReady, lspCrossed>>
  BY DEF E!vars, E!editor, E!lsp, E!life
<1>2. EditorTyped => EditorTyped'
  BY <1>1 DEF EditorTyped, TextsTyped, PassesTyped, ShownTyped, WaitingTyped, E!IsOpen
<1>3. (LifeTyped => LifeTyped') /\ (Life => Life')
  BY <1>1 DEF LifeTyped, Life
<1>4. (TasksInv => TasksInv') /\ (FullFirst => FullFirst')
  BY <1>1, TasksStay DEF FullFirst
<1>5. /\ \A c, g : IsHeld(c, g)' <=> IsHeld(c, g)
      /\ \A c : AnyHeld(c)' <=> AnyHeld(c)
      /\ (Running' <=> Running) /\ (RunLater' <=> RunLater) /\ \A g : E!IsOpen(g)' <=> E!IsOpen(g)
  BY <1>1 DEF IsHeld, AnyHeld, Running, RunLater, E!IsOpen
<1>6. (Covered => Covered') /\ (RunsOfDisk => RunsOfDisk') /\ (Noticed => Noticed')
  BY <1>1, <1>5 DEF Covered, RunsOfDisk, RunFine, Noticed
<1>7. \A g : (LiveDue(g) => LiveDue(g)') /\ (LiveRight(g) => LiveRight(g)') /\ (Saved(g) => Saved(g)')
  BY <1>1, <1>5 DEF LiveDue, LiveRight, Saved, E!Errors, E!Fast, E!Overlay
<1>8. Asked => Asked'
  BY <1>1, <1>5 DEF Asked
<1>9. Lives => Lives'
  BY <1>1, <1>5, <1>7 DEF Lives, LiveFine
<1>10. (Above => Above') /\ (Below => Below')
  BY <1>1, <1>5, <1>7, <1>8 DEF Above, AboveFine, Below, BelowFine, E!Errors, E!Fast, E!Overlay
<1>11. \A g : (RowsDue(g) => RowsDue(g)') /\ (Moved(g) => Moved(g)')
  BY <1>1, <1>5 DEF RowsDue, Moved
<1>12. (Rowed => Rowed') /\ (Reconciles => Reconciles')
  BY <1>1, <1>11 DEF Rowed, RowFine, Reconciles
<1> QED  BY <1>1, <1>2, <1>3, <1>4, <1>6, <1>9, <1>10, <1>12 DEF EditorInv

\* What each document shows, and the rows of each file have, is right, or something is held, timed,
\* out or in the lock that will see to it, through any number of edits, saves, closings, changes
\* outside and restarts that do not cross (overlay.ts, diagnostics.ts, lifecycle.ts).
THEOREM EditorInvHolds ==
  ASSUME EditorConstants
  PROVE  E!Spec => []EditorInv
<1>1. E!Init => EditorInv
  BY EditorInit
<1>2. EditorInv /\ [E!Next]_(E!vars) => EditorInv'
  BY EditorNext, EditorStutters
<1> QED  BY <1>1, <1>2, PTL DEF E!Spec

\* At rest nothing is due.
LEMMA AtRest ==
  ASSUME EditorConstants, EditorInv, E!Quiet
  PROVE  /\ ~lspCrossed /\ lspTasks = <<>> /\ ~Running /\ ~Asked
         /\ \A c, g : ~IsHeld(c, g)
         /\ \A c : ~AnyHeld(c)
         /\ \A g \in Files : ~LiveDue(g) /\ lspPasses[g] = E!NoPass
         /\ \A g : ~(g \in lspTimers)
         /\ lspCompiler # 0 /\ ~lspWatch.timer
<1>1. /\ lspHeld = <<>> /\ lspTasks = <<>> /\ lspTimers = {} /\ ~lspWatch.timer /\ lspCompiler # 0 /\ ~lspCrossed
  BY DEF E!Quiet
<1>2. /\ \A c, g : ~IsHeld(c, g)
      /\ \A c : ~AnyHeld(c)
      /\ ~Running /\ ~RunLater
  BY <1>1 DEF IsHeld, AnyHeld, Running, RunLater, GoesOn, Awaits
<1>3. \A g \in Files : lspPasses[g] = E!NoPass
  BY <1>1 DEF EditorInv, TasksInv, Queue
<1>4. ~E!NoPass.again
  BY DEF E!NoPass
<1>5. \A g \in Files : ~LiveDue(g)
  BY <1>1, <1>2, <1>3, <1>4 DEF LiveDue
<1> QED  BY <1>1, <1>2, <1>3, <1>5 DEF Asked

LEMMA RowsFollows ==
  ASSUME EditorConstants, EditorInv
  PROVE  E!RowsFollow
<1> SUFFICES ASSUME E!Quiet, NEW f \in Files \ lspGhosts
             PROVE  \/ lspRows[f] = lspDisk[f]
                    \/ E!IsOpen(f) /\ (lspRows[f] = lspBuffer[f].text \/ lspBuffer[f].text = "torn")
  BY DEF E!RowsFollow
<1>1. RowFine(f)
  BY AtRest DEF EditorInv, Rowed
<1>2. CASE RowsDue(f)
  BY <1>2, AtRest DEF RowsDue, E!NoPass
<1>3. CASE Leaves(lspTasks, f, lspDisk[f], lspBuffer[f], lspRows[f])
  <2>1. \A i : ~Works(lspTasks, f, i)
    BY AtRest DEF Works
  <2>2. Fine(lspDisk[f], lspBuffer[f], lspRows[f])
    BY <1>3, <2>1 DEF Leaves, IsLast
  <2> QED  BY <2>2 DEF Fine, E!IsOpen
<1> QED  BY <1>1, <1>2, <1>3 DEF RowFine

LEMMA IsDiagnosed ==
  ASSUME EditorConstants, EditorInv
  PROVE  E!Diagnosed
<1> SUFFICES ASSUME E!Quiet, NEW f \in Files \ lspMissed, E!IsOpen(f)
             PROVE  /\ lspShown[f] \subseteq E!Errors(lspBuffer[f].text) \cup E!Errors(lspDisk[f])
                    /\ (\A g \in Files : lspDisk[g] # "torn") => E!Errors(lspBuffer[f].text) \subseteq lspShown[f]
  BY DEF E!Diagnosed
<1>1. LiveRight(f) \/ Saved(f)
  BY AtRest DEF EditorInv, Lives, LiveFine
<1>2. lspShown[f] \subseteq lspLive[f] \cup E!Errors(lspDisk[f])
  BY AtRest DEF EditorInv, Above, AboveFine
<1>3. lspLive[f] \subseteq lspShown[f]
  BY DEF EditorInv, Covered
<1>4. \/ LiveRight(f) \/ E!Errors(lspDisk[f]) \subseteq lspShown[f]
      \/ \E g \in Files : lspDisk[g] = "torn"
  BY AtRest DEF EditorInv, Below, BelowFine
<1> QED  BY <1>1, <1>2, <1>3, <1>4 DEF LiveRight, Saved

LEMMA OneIsAlive ==
  ASSUME EditorConstants, EditorInv
  PROVE  E!OneAlive
<1>1. \A x, y : Cardinality({x} \ {y}) <= 1
  <2> TAKE x, y
  <2>1. CASE x = y
    BY <2>1, FS_EmptySet
  <2>2. CASE x # y
    <3>1. {x} \ {y} = {x} /\ Cardinality({x}) = 1
      BY <2>2, FS_Singleton
    <3> QED  BY <3>1
  <2> QED  BY <2>1, <2>2
<1>2. \A x : Cardinality({x}) <= 1
  <2>1. \A x : Cardinality({x}) = 1
    BY FS_Singleton
  <2> QED  BY <2>1
<1>3. ASSUME Life PROVE Cardinality(lspAlive) <= 1
  BY <1>1, <1>2, <1>3 DEF Life
<1>4. ASSUME Life, lspTeardowns = {}, lspSetups = {} PROVE lspAlive = {lspCompiler} \ {0}
  BY <1>4 DEF Life
<1> QED  BY <1>3, <1>4, Counts DEF EditorInv, E!OneAlive

\* A step of the language server's is one of its specification, and the others leave it alone.
LEMMA EditorRuns == ToolingSpec => E!Spec
<1>1. ToolingInit => E!Init
  BY DEF ToolingInit
<1>2. [ToolingNext]_ToolingVars => [E!Next]_(E!vars)
  <2>1. lspVars' = lspVars => UNCHANGED E!vars
    BY DEF lspVars, E!vars, E!editor, E!lsp, E!life
  <2>2. CASE LanguageServerStep
    BY <2>2 DEF LanguageServerStep
  <2>3. CASE PluginHostStep \/ HotReloadStep \/ DevSessionStep \/ ServerSessionStep \/ CompilerDatabaseStep
    BY <2>1, <2>3 DEF PluginHostStep, HotReloadStep, DevSessionStep, ServerSessionStep, CompilerDatabaseStep, Others
  <2>4. CASE UNCHANGED ToolingVars
    BY <2>1, <2>4 DEF ToolingVars
  <2> QED  BY <2>2, <2>3, <2>4 DEF ToolingNext
<1> QED  BY <1>1, <1>2, PTL DEF ToolingSpec, E!Spec

\* Once the language server is quiet, the editor shows of each document the errors of its text, and
\* none but those or its file's; the compiler's rows are of the texts that the disk and the editor
\* have; and one compiler runs, the one in use; but for what a restart or a version of the same
\* number took away, and unless restarts crossed (overlay.ts, diagnostics.ts, lifecycle.ts).
THEOREM EditorToldHolds ==
  ASSUME EditorConstants
  PROVE  ToolingSpec => []EditorTold
<1>1. EditorInv => EditorTold
  BY RowsFollows, IsDiagnosed, OneIsAlive DEF EditorTold
<1> QED  BY <1>1, EditorInvHolds, EditorRuns, PTL

\* The editor's texts, its passes, its handlers, the lock's tasks and the compilers have their types
\* (overlay.ts, diagnostics.ts, lifecycle.ts).
THEOREM EditorTypeCorrect ==
  ASSUME EditorConstants
  PROVE  E!Spec => []E!TypeOK
<1>1. ASSUME EditorInv PROVE E!TypeOK
  <2>1. TextsTyped /\ PassesTyped /\ ShownTyped /\ WaitingTyped /\ LifeTyped
    BY <1>1 DEF EditorInv, EditorTyped
  <2>2. \A f \in Files : /\ lspDisk[f] \in Texts /\ lspRows[f] \in Texts
                         /\ lspLive[f] \subseteq {"bad", "torn"} /\ lspShown[f] \subseteq {"bad", "torn"}
                         /\ lspPasses[f].version <= lspEvents
    BY <2>1 DEF TextsTyped, PassesTyped, ShownTyped, Shows
  <2>3. \A i \in DOMAIN lspHeld : lspHeld[i].kind \in Kinds
    BY <2>1 DEF WaitingTyped, Held
  <2>4. \A i \in DOMAIN lspTasks : lspTasks[i].kind \in {"overlay", "reconcile", "full"}
    BY <2>1 DEF WaitingTyped, LspTask
  <2> QED  BY <2>1, <2>2, <2>3, <2>4
           DEF E!TypeOK, Texts, Kinds, TextsTyped, ShownTyped, WaitingTyped, LifeTyped
<1> QED  BY <1>1, EditorInvHolds, PTL

\* In the toolchain as a whole, where the components run beside each other, each one's state keeps
\* its type (session.ts, codegen.ts, hmr.ts, router/session.ts, db.ts, overlay.ts, lifecycle.ts).
THEOREM AllTypedHolds ==
  ASSUME EditorConstants, WriteConstants, HostConstants, HotConstants, DatabaseConstants
  PROVE  ToolingSpec => []AllTyped
<1>1. TypeOK /\ V!TypeOK /\ C!TypeOK /\ H!TypeOK /\ W!TypeOK /\ E!TypeOK => AllTyped
  BY DEF AllTyped
<1> QED  BY <1>1, DevTypeCorrect, SessionTypeCorrect, DatabaseTypeCorrect, HostTypeCorrect, HotTypeCorrect,
            EditorTypeCorrect, ComponentsRun, EditorRuns, PTL
=============================================================================

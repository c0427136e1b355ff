----------------------------- MODULE CommandsProofs -----------------------------
(* Proofs about the recording, sharing and invalidation of command buffers,  *)
(* for any pools, buffers, descriptor sets, queries and limits, with updates, *)
(* resets and releases between any two steps of the queue thread.            *)
EXTENDS VulkanCommands, NaturalSets, FiniteSetTheorems, TLAPS

-----------------------------------------------------------------------------
(* The inductive invariant.                                                *)

\* Commands, as the entry points build them, and lists of them.
PassNames == {"begin pass", "begin rendering", "next subpass", "end pass", "end rendering"}
PlainNames == {"state", "draw", "control", "transfer", "push", "bind pushed"}
QueryNames == {"reset query", "copy query", "timestamp", "begin query", "end query"}
Names == PassNames \cup PlainNames \cup QueryNames \cup {"bind"}
AllCommands == [k : Names, v : {None} \cup QueryPools \cup [set : Sets, version : Nat]]
Lists == Seq(AllCommands)
CellStates == Recordings \cup {None, Freed}
Snapshots == [cmd : Cmds, commands : Addresses, begins : Nat]
PacketRecords ==
  [phase : {"queued", "executed", "invalidated"},
   recs : [1..1 -> Snapshots] \cup [1..2 -> Snapshots]]

CommandsTypeOK ==
  /\ cells \in [Cmds -> CellStates]
  /\ heap \in [Addresses -> Lists]
  /\ versions \in [Sets -> Nat]
  /\ packets \in Seq(PacketRecords)
  /\ early \subseteq Cmds
  /\ submits \in Nat /\ Len(packets) <= submits /\ submits <= MaxSubmits

\* An open query stands in the place of its kind.
ActiveFits(r) == \A k \in Kinds : r.active[k] # None => KindOf[r.active[k].pool] = k

\* Where the flags of a recording say that its commands leave a walk.
AtOf(r) == IF ~r.renderActive THEN "out" ELSE IF r.renderDynamic THEN "dynamic" ELSE "pass"
OpenOf(r) == {q \in QueryPools : r.active[KindOf[q]] # None /\ r.active[KindOf[q]].pool = q}
WalkOf(r) == [at |-> AtOf(r), open |-> [q \in OpenOf(r) |-> r.active[KindOf[q]].inside]]

BindsCurrent(r, list, vs) ==
  \A i \in 1..Len(list) :
    list[i].k = "bind" =>
      /\ list[i].v \in [set : Sets, version : Nat]
      /\ list[i].v.set \in r.refs
      /\ list[i].v.version = vs[list[i].v.set]

WholePushes(list) ==
  \A i \in 1..Len(list) :
    list[i].k = "push" => i < Len(list) /\ list[i + 1].k = "bind pushed"

\* Until its first error a recording says of its list what is true of it.
Sound(r, list, vs) ==
  /\ ActiveFits(r)
  /\ Walk(list) = WalkOf(r)
  /\ BindsCurrent(r, list, vs)
  /\ WholePushes(list)
  /\ r.state = "executable" => ~r.renderActive /\ \A k \in Kinds : r.active[k] = None
RecordingsSound ==
  \A c \in Cmds : Live(cells[c]) /\ ~cells[c].error =>
    Sound(cells[c], heap[cells[c].commands], versions)

\* A packet has the recording that its buffer still holds, unless the
\* application touched the buffer early.
SnapshotsFit ==
  \A i \in 1..Len(packets) : \A j \in DOMAIN packets[i].recs :
    LET snapshot == packets[i].recs[j] IN
    /\ cells[snapshot.cmd] # None
    /\ Live(cells[snapshot.cmd]) =>
         snapshot.cmd \in early \/ snapshot.begins = cells[snapshot.cmd].begins

CommandsInv == CommandsTypeOK /\ RecordingsSound /\ SnapshotsFit

-----------------------------------------------------------------------------
(* Walking a list.                                                         *)

IsWalk(f, list) ==
  /\ f = [n \in 0..Len(list) |-> f[n]]
  /\ f[0] = WalkStart
  /\ \A n \in 1..Len(list) : f[n] = Step(f[n - 1], list[n])

\* The steps of the commands can be taken, up to each of them.
LEMMA WalkExists ==
  ASSUME NEW list \in Lists
  PROVE  \E f : IsWalk(f, list)
<1> DEFINE Upto(n) == \E f : /\ f = [k \in 0..n |-> f[k]] /\ f[0] = WalkStart
                             /\ \A k \in 1..n : f[k] = Step(f[k - 1], list[k])
           S == {n \in Nat : Upto(n)}
<1>1. 0 \in S
  <2> DEFINE f == [k \in 0..0 |-> WalkStart]
  <2>1. f = [k \in 0..0 |-> f[k]] /\ f[0] = WalkStart /\ \A k \in 1..0 : f[k] = Step(f[k - 1], list[k])
    OBVIOUS
  <2>2. Upto(0)
    BY <2>1
  <2>3. QED
    BY <2>2
<1>2. ASSUME NEW n \in S PROVE n + 1 \in S
  <2> HIDE DEF Upto
  <2>0. n \in Nat /\ Upto(n)
    OBVIOUS
  <2>1. PICK f : /\ f = [k \in 0..n |-> f[k]] /\ f[0] = WalkStart
                 /\ \A k \in 1..n : f[k] = Step(f[k - 1], list[k])
    BY <2>0 DEF Upto
  <2> DEFINE g == [k \in 0..n + 1 |-> IF k = n + 1 THEN Step(f[n], list[n + 1]) ELSE f[k]]
  <2>2. g = [k \in 0..n + 1 |-> g[k]] /\ g[0] = WalkStart
    BY <2>0, <2>1
  <2>3. ASSUME NEW k \in 1..n + 1 PROVE g[k] = Step(g[k - 1], list[k])
    <3>1. CASE k = n + 1
      BY <2>0, <3>1
    <3>2. CASE k \in 1..n
      <4>1. g[k] = f[k] /\ g[k - 1] = f[k - 1]
        BY <2>0, <3>2
      <4>2. QED
        BY <2>1, <3>2, <4>1
    <3>3. QED
      BY <2>0, <3>1, <3>2
  <2> HIDE DEF g
  <2>4. Upto(n + 1)
    BY <2>2, <2>3, Zenon DEF Upto
  <2>5. QED
    BY <2>0, <2>4
<1> HIDE DEF S, Upto
<1>3. S = Nat
  BY <1>1, <1>2, SetInduction DEF S
<1>4. Len(list) \in S
  BY <1>3 DEF Lists
<1>5. Upto(Len(list))
  BY <1>4 DEF S
<1>6. QED
  BY <1>5 DEF IsWalk, Upto

\* There is one way to take them.
LEMMA WalkIsUnique ==
  ASSUME NEW list \in Lists, NEW f, IsWalk(f, list), NEW g,
         g = [n \in 0..Len(list) |-> IF n = 0 THEN WalkStart ELSE Step(g[n - 1], list[n])]
  PROVE  g[Len(list)] = f[Len(list)]
<1> DEFINE S == {n \in Nat : n <= Len(list) => g[n] = f[n]}
<1>0. Len(list) \in Nat
  BY DEF Lists
<1>1. 0 \in S
  BY <1>0 DEF IsWalk
<1>2. ASSUME NEW n \in S PROVE n + 1 \in S
  <2> SUFFICES ASSUME n + 1 <= Len(list) PROVE g[n + 1] = f[n + 1]
    OBVIOUS
  <2>1. n \in Nat /\ g[n] = f[n] /\ n + 1 \in 1..Len(list) /\ n + 1 # 0 /\ n + 1 - 1 = n
    BY <1>0
  <2>2. g[n + 1] = Step(g[n], list[n + 1])
    BY <1>0, <2>1
  <2>3. f[n + 1] = Step(f[n], list[n + 1])
    <3>1. \A k \in 1..Len(list) : f[k] = Step(f[k - 1], list[k])
      BY Zenon DEF IsWalk
    <3>2. f[n + 1] = Step(f[n + 1 - 1], list[n + 1])
      BY <2>1, <3>1
    <3>3. QED
      BY <2>1, <3>2
  <2>4. QED
    BY <2>1, <2>2, <2>3
<1> HIDE DEF S
<1>3. S = Nat
  BY <1>1, <1>2, SetInduction DEF S
<1>4. Len(list) \in S
  BY <1>0, <1>3
<1>5. QED
  BY <1>4 DEF S

\* The walk ends where the last step leads.
LEMMA WalkEnds ==
  ASSUME NEW list \in Lists, NEW f, IsWalk(f, list)
  PROVE  Walk(list) = f[Len(list)]
<1> DEFINE Solves(g) == g = [n \in 0..Len(list) |-> IF n = 0 THEN WalkStart ELSE Step(g[n - 1], list[n])]
<1>1. Solves(f)
  <2> DEFINE h == [n \in 0..Len(list) |-> IF n = 0 THEN WalkStart ELSE Step(f[n - 1], list[n])]
  <2>1. ASSUME NEW n \in 0..Len(list) PROVE f[n] = h[n]
    <3>1. Len(list) \in Nat
      BY DEF Lists
    <3>2. QED
      BY <3>1 DEF IsWalk
  <2>2. f = [n \in 0..Len(list) |-> f[n]] /\ h = [n \in 0..Len(list) |-> h[n]]
    BY DEF IsWalk
  <2> HIDE DEF h
  <2>3. f = h
    BY <2>1, <2>2
  <2>4. QED
    BY <2>3 DEF h
<1>2. Solves(CHOOSE g : Solves(g))
  BY <1>1
<1>3. Walk(list) = (CHOOSE g : Solves(g))[Len(list)]
  BY DEF Walk
<1> DEFINE g == CHOOSE g : Solves(g)
<1>4. Solves(g)
  BY <1>2
<1> HIDE DEF g
<1>5. g[Len(list)] = f[Len(list)]
  BY <1>4, WalkIsUnique
<1>6. QED
  BY <1>3, <1>5 DEF g

\* An empty list stays where it starts.
LEMMA WalkOfEmpty == Walk(<< >>) = WalkStart
<1>1. IsWalk([k \in 0..0 |-> WalkStart], << >>)
  BY DEF IsWalk
<1>2. << >> \in Lists /\ Len(<< >>) = 0
  BY DEF Lists
<1>3. QED
  BY <1>1, <1>2, WalkEnds

\* A command more is a step more.
LEMMA WalkOfAppend ==
  ASSUME NEW list \in Lists, NEW cmd \in AllCommands
  PROVE  Walk(Append(list, cmd)) = Step(Walk(list), cmd)
<1>1. PICK f : IsWalk(f, list)
  BY WalkExists
<1> DEFINE n == Len(list)
           more == Append(list, cmd)
           g == [k \in 0..n + 1 |-> IF k = n + 1 THEN Step(f[n], cmd) ELSE f[k]]
<1>2. n \in Nat /\ more \in Lists /\ Len(more) = n + 1
  BY DEF Lists
<1>3. more[n + 1] = cmd /\ \A k \in 1..n : more[k] = list[k]
  BY DEF Lists
<1>4. f = [k \in 0..n |-> f[k]] /\ f[0] = WalkStart /\ \A k \in 1..n : f[k] = Step(f[k - 1], list[k])
  BY <1>1 DEF IsWalk
<1> HIDE DEF more, n
<1>5. g = [k \in 0..n + 1 |-> g[k]] /\ g[0] = WalkStart
  BY <1>2, <1>4
<1>6. ASSUME NEW k \in 1..n + 1 PROVE g[k] = Step(g[k - 1], more[k])
  <2>1. CASE k = n + 1
    BY <1>2, <1>3, <2>1
  <2>2. CASE k \in 1..n
    <3>1. g[k] = f[k] /\ g[k - 1] = f[k - 1] /\ more[k] = list[k]
      BY <1>2, <1>3, <2>2
    <3>2. QED
      BY <1>4, <2>2, <3>1
  <2>3. QED
    BY <1>2, <2>1, <2>2
<1>7. g[n + 1] = Step(f[n], cmd)
  BY <1>2
<1> HIDE DEF g
<1>8. IsWalk(g, more)
  BY <1>2, <1>5, <1>6 DEF IsWalk
<1>9. Walk(more) = Step(f[n], cmd)
  BY <1>2, <1>7, <1>8, WalkEnds
<1>10. Walk(list) = f[n]
  BY <1>1, WalkEnds DEF n
<1>11. QED
  BY <1>9, <1>10 DEF more

-----------------------------------------------------------------------------
(* Flags and walks.                                                        *)

\* What a recording holds.
LEMMA RecordingFields ==
  ASSUME NEW r \in Recordings
  PROVE  /\ r.pool \in Pools /\ r.oneTime \in BOOLEAN
         /\ r.state \in {"initial", "recording", "executable", "invalid"}
         /\ r.error \in BOOLEAN /\ r.renderActive \in BOOLEAN /\ r.renderDynamic \in BOOLEAN
         /\ r.active \in [Kinds -> OpenQueries \cup {None}]
         /\ r.commands \in Addresses /\ r.refs \in SUBSET Sets /\ r.begins \in Nat
BY DEF Recordings

\* A buffer is unknown, freed, or has a recording.
LEMMA LiveStates ==
  ASSUME NEW r \in CellStates
  PROVE  /\ Live(r) <=> r \in Recordings
         /\ None # Freed
<1>1. None # Freed /\ None \notin Recordings
  BY AbsentCommandsAssumption
<1>2. ASSUME Freed \in Recordings PROVE FALSE
  <2>1. Freed.state \in {"initial", "recording", "executable", "invalid"}
    BY <1>2, RecordingFields
  <2>2. Freed.state = "freed"
    BY DEF Freed
  <2>3. QED
    BY <2>1, <2>2
<1>3. QED
  BY <1>1, <1>2 DEF Live, CellStates

\* The kinds of the queries.
LEMMA KindsOfQueries == \A q \in QueryPools : KindOf[q] \in Kinds
BY DEF Kinds

\* An open query has a pool and a place where it began.
LEMMA OpenFields ==
  ASSUME NEW r \in Recordings, NEW k \in Kinds, r.active[k] # None
  PROVE  /\ r.active[k] \in OpenQueries
         /\ r.active[k].pool \in QueryPools /\ r.active[k].inside \in BOOLEAN
<1>1. r.active[k] \in OpenQueries
  BY RecordingFields
<1>2. QED
  BY <1>1 DEF OpenQueries

\* What the walk of a recording's flags looks like.
LEMMA WalkFields ==
  ASSUME NEW r \in Recordings, ActiveFits(r)
  PROVE  /\ WalkOf(r).at = AtOf(r) /\ AtOf(r) # "bad"
         /\ DOMAIN WalkOf(r).open = OpenOf(r)
         /\ AtOf(r) \in {"pass", "dynamic"} <=> r.renderActive
         /\ (\E q \in DOMAIN WalkOf(r).open : WalkOf(r).open[q]) <=> OpenInside(r)
<1>1. /\ WalkOf(r).at = AtOf(r)
      /\ WalkOf(r).open = [q \in OpenOf(r) |-> r.active[KindOf[q]].inside]
  BY DEF WalkOf
<1>2. AtOf(r) # "bad" /\ (AtOf(r) \in {"pass", "dynamic"} <=> r.renderActive)
  BY RecordingFields DEF AtOf
<1>3. ASSUME NEW q \in OpenOf(r), r.active[KindOf[q]].inside PROVE OpenInside(r)
  BY <1>3, KindsOfQueries DEF OpenOf, OpenInside
<1>4. ASSUME OpenInside(r) PROVE \E q \in OpenOf(r) : r.active[KindOf[q]].inside
  <2>1. PICK k \in Kinds : r.active[k] # None /\ r.active[k].inside
    BY <1>4 DEF OpenInside
  <2>2. r.active[k].pool \in QueryPools /\ KindOf[r.active[k].pool] = k
    BY <2>1, OpenFields DEF ActiveFits
  <2>3. r.active[k].pool \in OpenOf(r)
    BY <2>1, <2>2 DEF OpenOf
  <2>4. QED
    BY <2>1, <2>2, <2>3
<1>5. QED
  BY <1>1, <1>2, <1>3, <1>4

\* Passes leave the queries alone.
LEMMA SameQueries ==
  ASSUME NEW r, NEW s, s.active = r.active
  PROVE  /\ WalkOf(s) = [WalkOf(r) EXCEPT !.at = AtOf(s)]
         /\ ActiveFits(r) => ActiveFits(s)
<1>1. OpenOf(s) = OpenOf(r)
  BY DEF OpenOf
<1>2. [q \in OpenOf(s) |-> s.active[KindOf[q]].inside] = [q \in OpenOf(r) |-> r.active[KindOf[q]].inside]
  BY <1>1
<1> DEFINE open == [q \in OpenOf(r) |-> r.active[KindOf[q]].inside]
<1>3. WalkOf(s) = [at |-> AtOf(s), open |-> open] /\ WalkOf(r) = [at |-> AtOf(r), open |-> open]
  BY <1>2, Zenon DEF WalkOf
<1> HIDE DEF open
<1>4. WalkOf(s) = [WalkOf(r) EXCEPT !.at = AtOf(s)]
  BY <1>3
<1>5. QED
  BY <1>4 DEF ActiveFits

\* The commands of the entry points.
SimpleCommands == {Simple(k) : k \in PassNames \cup PlainNames}
QueryCommands == {Command(k, q) : k \in QueryNames, q \in QueryPools}
BindCommands == {Command("bind", v) : v \in [set : Sets, version : Nat]}
Recordable == SimpleCommands \cup QueryCommands \cup BindCommands

\* A command is a kind and an argument.
LEMMA CommandIs == \A k, v : Command(k, v).k = k /\ Command(k, v).v = v
BY DEF Command

\* They are commands.
LEMMA RecordableAreCommands == Recordable \subseteq AllCommands
<1>1. ASSUME NEW k \in Names, NEW v \in {None} \cup QueryPools \cup [set : Sets, version : Nat]
      PROVE  Command(k, v) \in AllCommands
  BY DEF Command, AllCommands
<1>2. SimpleCommands \subseteq AllCommands
  <2>1. PassNames \cup PlainNames \subseteq Names
    BY DEF Names
  <2>2. QED
    BY <1>1, <2>1 DEF SimpleCommands, Simple
<1>3. QueryCommands \subseteq AllCommands
  <2>1. QueryNames \subseteq Names
    BY DEF Names
  <2>2. QED
    BY <1>1, <2>1 DEF QueryCommands
<1>4. BindCommands \subseteq AllCommands
  <2>1. "bind" \in Names
    BY DEF Names
  <2>2. QED
    BY <1>1, <2>1 DEF BindCommands
<1>5. QED
  BY <1>2, <1>3, <1>4 DEF Recordable

\* What a pass command does is what Vulkan says of it.
LEMMA PassesFollow ==
  ASSUME NEW r \in Recordings, ActiveFits(r), NEW k \in PassNames, NEW cmd, cmd.k = k,
         Accepts(r, cmd)
  PROVE  /\ Step(WalkOf(r), cmd) = WalkOf(Tracked(r, cmd))
         /\ Tracked(r, cmd) \in Recordings /\ ActiveFits(Tracked(r, cmd))
         /\ Tracked(r, cmd).refs = r.refs
<1> DEFINE w == WalkOf(r)
           t == Tracked(r, cmd)
<1>1. /\ w.at = AtOf(r) /\ w.at # "bad"
      /\ w.at \in {"pass", "dynamic"} <=> r.renderActive
      /\ (\E q \in DOMAIN w.open : w.open[q]) <=> OpenInside(r)
  BY WalkFields
<1>2. r.renderActive \in BOOLEAN /\ r.renderDynamic \in BOOLEAN
  BY RecordingFields
<1>3. w.at = "pass" <=> r.renderActive /\ ~r.renderDynamic
  BY <1>1, <1>2 DEF AtOf
<1>4. w.at = "dynamic" <=> r.renderActive /\ r.renderDynamic
  BY <1>1, <1>2 DEF AtOf
<1>5. CASE k = "begin pass"
  <2>1. ~r.renderActive /\ t = [r EXCEPT !.renderActive = TRUE, !.renderDynamic = FALSE]
    BY <1>5 DEF Accepts, Tracked
  <2>2. t \in Recordings /\ t.active = r.active /\ t.renderActive /\ ~t.renderDynamic /\ t.refs = r.refs
    BY <2>1 DEF Recordings
  <2>3. AtOf(t) = "pass" /\ Step(w, cmd) = [w EXCEPT !.at = "pass"]
    BY <1>1, <1>5, <2>1, <2>2 DEF AtOf, Step
  <2>4. QED
    BY <2>2, <2>3, SameQueries
<1>6. CASE k = "begin rendering"
  <2>1. ~r.renderActive /\ t = [r EXCEPT !.renderActive = TRUE, !.renderDynamic = TRUE]
    BY <1>6 DEF Accepts, Tracked
  <2>2. t \in Recordings /\ t.active = r.active /\ t.renderActive /\ t.renderDynamic /\ t.refs = r.refs
    BY <2>1 DEF Recordings
  <2>3. AtOf(t) = "dynamic" /\ Step(w, cmd) = [w EXCEPT !.at = "dynamic"]
    BY <1>1, <1>6, <2>1, <2>2 DEF AtOf, Step
  <2>4. QED
    BY <2>2, <2>3, SameQueries
<1>7. CASE k = "next subpass"
  <2>1. ~OpenInside(r) /\ ~r.renderDynamic /\ r.renderActive /\ t = r
    BY <1>7 DEF Accepts, Tracked
  <2>2. AtOf(t) = "pass" /\ Step(w, cmd) = [w EXCEPT !.at = "pass"]
    BY <1>1, <1>2, <1>3, <1>7, <2>1 DEF AtOf, Step
  <2>3. QED
    BY <2>1, <2>2, SameQueries
<1>8. CASE k = "end pass"
  <2>1. ~OpenInside(r) /\ ~r.renderDynamic /\ r.renderActive /\ t = [r EXCEPT !.renderActive = FALSE]
    BY <1>8 DEF Accepts, Tracked
  <2>2. t \in Recordings /\ t.active = r.active /\ ~t.renderActive /\ t.refs = r.refs
    BY <2>1 DEF Recordings
  <2>3. AtOf(t) = "out" /\ Step(w, cmd) = [w EXCEPT !.at = "out"]
    BY <1>1, <1>3, <1>8, <2>1, <2>2 DEF AtOf, Step
  <2>4. QED
    BY <2>2, <2>3, SameQueries
<1>9. CASE k = "end rendering"
  <2>1. /\ ~OpenInside(r) /\ r.renderDynamic /\ r.renderActive
        /\ t = [r EXCEPT !.renderActive = FALSE, !.renderDynamic = FALSE]
    BY <1>9 DEF Accepts, Tracked
  <2>2. t \in Recordings /\ t.active = r.active /\ ~t.renderActive /\ t.refs = r.refs
    BY <2>1 DEF Recordings
  <2>3. AtOf(t) = "out" /\ Step(w, cmd) = [w EXCEPT !.at = "out"]
    BY <1>1, <1>4, <1>9, <2>1, <2>2 DEF AtOf, Step
  <2>4. QED
    BY <2>2, <2>3, SameQueries
<1>10. QED
  BY <1>5, <1>6, <1>7, <1>8, <1>9 DEF PassNames

\* A command that changes no flag is where it may be.
LEMMA PlainFollow ==
  ASSUME NEW r \in Recordings, ActiveFits(r), NEW k \in PlainNames, NEW cmd, cmd.k = k,
         Accepts(r, cmd)
  PROVE  Step(WalkOf(r), cmd) = WalkOf(r) /\ Tracked(r, cmd) = r
<1> DEFINE w == WalkOf(r)
<1>1. /\ w.at = AtOf(r) /\ w.at # "bad"
      /\ w.at \in {"pass", "dynamic"} <=> r.renderActive
  BY WalkFields
<1>2. [w EXCEPT !.at = w.at] = w
  BY DEF WalkOf
<1>3. Tracked(r, cmd) = r
  BY DEF Tracked, PlainNames
<1>4. CASE k = "draw"
  <2>1. r.renderActive
    BY <1>4 DEF Accepts
  <2>2. Step(w, cmd) = [w EXCEPT !.at = w.at]
    BY <1>1, <1>4, <2>1 DEF Step
  <2>3. QED
    BY <1>2, <1>3, <2>2
<1>5. CASE k \in {"control", "transfer"}
  <2>1. ~r.renderActive
    BY <1>5 DEF Accepts
  <2>2. Step(w, cmd) = [w EXCEPT !.at = w.at]
    BY <1>1, <1>5, <2>1 DEF Step
  <2>3. QED
    BY <1>2, <1>3, <2>2
<1>6. CASE k \in {"state", "push", "bind pushed"}
  <2>1. Step(w, cmd) = w
    BY <1>1, <1>6 DEF Step
  <2>2. QED
    BY <1>3, <2>1
<1>7. QED
  BY <1>4, <1>5, <1>6 DEF PlainNames

\* Binding a set only makes the recording refer to it.
LEMMA BindsFollow ==
  ASSUME NEW r \in Recordings, ActiveFits(r), NEW v \in [set : Sets, version : Nat],
         NEW cmd, cmd = Command("bind", v)
  PROVE  /\ Step(WalkOf(r), cmd) = WalkOf(Tracked(r, cmd))
         /\ Tracked(r, cmd) \in Recordings /\ ActiveFits(Tracked(r, cmd))
         /\ Tracked(r, cmd).refs = r.refs \cup {v.set}
<1> DEFINE w == WalkOf(r)
           t == Tracked(r, cmd)
<1>1. w.at = AtOf(r) /\ w.at # "bad"
  BY WalkFields
<1>0. cmd.k = "bind" /\ cmd.v = v /\ v.set \in Sets
  BY CommandIs
<1>2. t = [r EXCEPT !.refs = @ \cup {v.set}]
  BY <1>0 DEF Tracked
<1>3. /\ t \in Recordings /\ t.active = r.active /\ t.refs = r.refs \cup {v.set}
      /\ t.renderActive = r.renderActive /\ t.renderDynamic = r.renderDynamic
  BY <1>0, <1>2 DEF Recordings
<1>4. Step(w, cmd) = w
  BY <1>0, <1>1 DEF Step
<1>5. WalkOf(t) = w /\ ActiveFits(t)
  BY <1>3 DEF WalkOf, OpenOf, AtOf, ActiveFits
<1>6. QED
  BY <1>3, <1>4, <1>5

\* Where a query begins, and what is open then.
Begins(w, cmd, open) ==
  /\ w.at # "bad" /\ cmd.k = "begin query"
  /\ ~\E q \in DOMAIN w.open : KindOf[q] = KindOf[cmd.v]
  /\ open = [q \in DOMAIN w.open \cup {cmd.v} |->
               IF q = cmd.v THEN w.at \in {"pass", "dynamic"} ELSE w.open[q]]

\* The walk begins it.
LEMMA StepOfBegin ==
  ASSUME NEW w, NEW cmd, NEW open, Begins(w, cmd, open)
  PROVE  Step(w, cmd) = [w EXCEPT !.open = open]
BY DEF Step, Begins

\* Where a query ends, and what is open then.
Ends(w, cmd, open) ==
  /\ w.at # "bad" /\ cmd.k = "end query"
  /\ cmd.v \in DOMAIN w.open /\ w.open[cmd.v] = (w.at \in {"pass", "dynamic"})
  /\ open = [q \in DOMAIN w.open \ {cmd.v} |-> w.open[q]]

\* The walk ends it.
LEMMA StepOfEnd ==
  ASSUME NEW w, NEW cmd, NEW open, Ends(w, cmd, open)
  PROVE  Step(w, cmd) = [w EXCEPT !.open = open]
BY DEF Step, Ends

\* Queries open and close one at a time in each kind.
LEMMA QueriesFollow ==
  ASSUME NEW r \in Recordings, ActiveFits(r), NEW k \in QueryNames, NEW v \in QueryPools,
         NEW cmd, cmd = Command(k, v), Accepts(r, cmd)
  PROVE  /\ Step(WalkOf(r), cmd) = WalkOf(Tracked(r, cmd))
         /\ Tracked(r, cmd) \in Recordings /\ ActiveFits(Tracked(r, cmd))
         /\ Tracked(r, cmd).refs = r.refs
<1> DEFINE w == WalkOf(r)
           t == Tracked(r, cmd)
           m == KindOf[v]
<1>1. /\ w.at = AtOf(r) /\ w.at # "bad" /\ DOMAIN w.open = OpenOf(r)
      /\ w.at \in {"pass", "dynamic"} <=> r.renderActive
  BY WalkFields
<1>2. cmd.k = k /\ cmd.v = v /\ m \in Kinds
  BY CommandIs, KindsOfQueries
<1>3. [w EXCEPT !.at = w.at] = w
  BY DEF WalkOf
<1>4. r.active \in [Kinds -> OpenQueries \cup {None}] /\ r.renderActive \in BOOLEAN
  BY RecordingFields
<1>5. CASE k \in {"reset query", "copy query"}
  <2>1. ~OpenIn(r, v) /\ ~r.renderActive
    BY <1>2, <1>5 DEF Accepts
  <2>2. v \notin OpenOf(r)
    BY <1>2, <2>1 DEF OpenIn, OpenOf
  <2>3. Step(w, cmd) = [w EXCEPT !.at = w.at]
    BY <1>1, <1>2, <1>5, <2>1, <2>2 DEF Step
  <2>4. t = r
    BY <1>2, <1>5 DEF Tracked
  <2>5. QED
    BY <1>3, <2>3, <2>4
<1>6. CASE k = "timestamp"
  <2>1. Step(w, cmd) = w /\ t = r
    BY <1>1, <1>2, <1>6 DEF Step, Tracked
  <2>2. QED
    BY <2>1
<1>7. CASE k = "begin query"
  <2> DEFINE o == [pool |-> v, inside |-> r.renderActive]
  <2>1. r.active[m] = None /\ t = [r EXCEPT !.active[m] = o]
    BY <1>2, <1>7 DEF Accepts, Tracked
  <2>2. o \in OpenQueries /\ o # None
    BY <1>4, AbsentCommandsAssumption DEF OpenQueries
  <2>3. /\ t \in Recordings /\ t.refs = r.refs /\ t.active = [r.active EXCEPT ![m] = o]
        /\ t.renderActive = r.renderActive /\ t.renderDynamic = r.renderDynamic
    BY <2>1, <2>2 DEF Recordings
  <2>4. \A i \in Kinds : t.active[i] = IF i = m THEN o ELSE r.active[i]
    BY <1>2, <1>4, <2>3
  <2>5. ActiveFits(t)
    BY <1>2, <2>4 DEF ActiveFits
  <2>6. \A q \in QueryPools : q \in OpenOf(r) => KindOf[q] # m
    BY <2>1 DEF OpenOf
  <2>7. OpenOf(t) = OpenOf(r) \cup {v}
    <3>1. ASSUME NEW q \in QueryPools PROVE q \in OpenOf(t) <=> q \in OpenOf(r) \cup {v}
      <4>1. CASE KindOf[q] = m
        <5>1. t.active[KindOf[q]] = o /\ o.pool = v
          BY <1>2, <2>4, <4>1
        <5>2. q \in OpenOf(t) <=> q = v
          BY <2>2, <5>1 DEF OpenOf
        <5>3. QED
          BY <2>6, <4>1, <5>2
      <4>2. CASE KindOf[q] # m
        <5>1. t.active[KindOf[q]] = r.active[KindOf[q]] /\ q # v
          BY <2>4, <4>2, KindsOfQueries
        <5>2. QED
          BY <5>1 DEF OpenOf
      <4>3. QED
        BY <4>1, <4>2
    <3>2. QED
      BY <3>1 DEF OpenOf
  <2>8. ~\E q \in DOMAIN w.open : KindOf[q] = KindOf[v]
    BY <1>1, <2>6 DEF OpenOf
  <2> DEFINE more == [q \in OpenOf(r) \cup {v} |-> IF q = v THEN r.renderActive ELSE w.open[q]]
  <2>9. Step(w, cmd) = [w EXCEPT !.open = more]
    <3>1. w.at # "bad" /\ cmd.k = "begin query"
      BY <1>1, <1>2, <1>7
    <3>2. ~\E q \in DOMAIN w.open : KindOf[q] = KindOf[cmd.v]
      BY <1>2, <2>8
    <3>3. more = [q \in DOMAIN w.open \cup {cmd.v} |->
                    IF q = cmd.v THEN w.at \in {"pass", "dynamic"} ELSE w.open[q]]
      BY <1>1, <1>2, <1>4
    <3>4. Begins(w, cmd, more)
      BY <3>1, <3>2, <3>3 DEF Begins
    <3>5. QED
      BY <3>4, StepOfBegin
  <2>10. more = [q \in OpenOf(t) |-> t.active[KindOf[q]].inside]
    <3>1. ASSUME NEW q \in OpenOf(t) PROVE more[q] = t.active[KindOf[q]].inside
      <4>1. CASE q = v
        BY <1>2, <2>4, <2>7, <4>1
      <4>2. CASE q # v
        <5>1. q \in OpenOf(r) /\ q \in QueryPools /\ KindOf[q] # m
          BY <2>6, <2>7, <4>2 DEF OpenOf
        <5>2. t.active[KindOf[q]] = r.active[KindOf[q]]
          BY <2>4, <5>1, KindsOfQueries
        <5>3. w.open[q] = r.active[KindOf[q]].inside
          BY <5>1 DEF WalkOf
        <5>4. QED
          BY <2>7, <4>2, <5>2, <5>3
      <4>3. QED
        BY <4>1, <4>2
    <3>2. QED
      BY <2>7, <3>1
  <2>11. AtOf(t) = w.at
    BY <1>1, <2>3 DEF AtOf
  <2>12. WalkOf(t) = [w EXCEPT !.open = more]
    <3>1. WalkOf(t) = [at |-> w.at, open |-> more]
      BY <2>10, <2>11 DEF WalkOf
    <3>2. w = [at |-> w.at, open |-> w.open]
      BY DEF WalkOf
    <3> HIDE DEF w, more
    <3>3. QED
      BY <3>1, <3>2
  <2>13. QED
    BY <2>3, <2>5, <2>9, <2>12
<1>8. CASE k = "end query"
  <2> DEFINE o == [pool |-> v, inside |-> r.renderActive]
  <2>1. r.active[m] = o /\ t = [r EXCEPT !.active[m] = None]
    BY <1>2, <1>8 DEF Accepts, Tracked
  <2>2. o \in OpenQueries /\ o # None
    BY <1>4, AbsentCommandsAssumption DEF OpenQueries
  <2>3. /\ t \in Recordings /\ t.refs = r.refs /\ t.active = [r.active EXCEPT ![m] = None]
        /\ t.renderActive = r.renderActive /\ t.renderDynamic = r.renderDynamic
    BY <2>1 DEF Recordings
  <2>4. \A i \in Kinds : t.active[i] = IF i = m THEN None ELSE r.active[i]
    BY <1>2, <1>4, <2>3
  <2>5. ActiveFits(t)
    BY <1>2, <2>4 DEF ActiveFits
  <2>6. v \in OpenOf(r) /\ \A q \in OpenOf(r) : KindOf[q] = m => q = v
    BY <2>1, <2>2 DEF OpenOf
  <2>7. OpenOf(t) = OpenOf(r) \ {v}
    <3>1. ASSUME NEW q \in QueryPools PROVE q \in OpenOf(t) <=> q \in OpenOf(r) \ {v}
      <4>1. CASE KindOf[q] = m
        <5>1. t.active[KindOf[q]] = None
          BY <1>2, <2>4, <4>1
        <5>2. q \notin OpenOf(t)
          BY <5>1 DEF OpenOf
        <5>3. QED
          BY <2>6, <4>1, <5>2
      <4>2. CASE KindOf[q] # m
        <5>1. t.active[KindOf[q]] = r.active[KindOf[q]] /\ q # v
          BY <2>4, <4>2, KindsOfQueries
        <5>2. QED
          BY <5>1 DEF OpenOf
      <4>3. QED
        BY <4>1, <4>2
    <3>2. QED
      BY <3>1 DEF OpenOf
  <2>8. w.open[v] = r.renderActive
    <3>1. w.open[v] = r.active[KindOf[v]].inside
      BY <2>6 DEF WalkOf
    <3>2. QED
      BY <2>1, <3>1
  <2> DEFINE less == [q \in OpenOf(r) \ {v} |-> w.open[q]]
  <2>9. Step(w, cmd) = [w EXCEPT !.open = less]
    <3>1. cmd.v \in DOMAIN w.open /\ w.open[cmd.v] = (w.at \in {"pass", "dynamic"})
      BY <1>1, <1>2, <1>4, <2>6, <2>8
    <3>2. w.at # "bad" /\ cmd.k = "end query"
      BY <1>1, <1>2, <1>8
    <3>3. less = [q \in DOMAIN w.open \ {cmd.v} |-> w.open[q]]
      BY <1>1, <1>2
    <3>4. Ends(w, cmd, less)
      BY <3>1, <3>2, <3>3 DEF Ends
    <3>5. QED
      BY <3>4, StepOfEnd
  <2>10. less = [q \in OpenOf(t) |-> t.active[KindOf[q]].inside]
    <3>1. ASSUME NEW q \in OpenOf(t) PROVE less[q] = t.active[KindOf[q]].inside
      <4>1. q \in OpenOf(r) /\ q \in QueryPools /\ q # v /\ KindOf[q] # m
        BY <2>6, <2>7 DEF OpenOf
      <4>2. t.active[KindOf[q]] = r.active[KindOf[q]]
        BY <2>4, <4>1, KindsOfQueries
      <4>3. w.open[q] = r.active[KindOf[q]].inside
        BY <4>1 DEF WalkOf
      <4>4. QED
        BY <4>1, <4>2, <4>3
    <3>2. QED
      BY <2>7, <3>1
  <2>11. AtOf(t) = w.at
    BY <1>1, <2>3 DEF AtOf
  <2>12. WalkOf(t) = [w EXCEPT !.open = less]
    <3>1. WalkOf(t) = [at |-> w.at, open |-> less]
      BY <2>10, <2>11 DEF WalkOf
    <3>2. w = [at |-> w.at, open |-> w.open]
      BY DEF WalkOf
    <3> HIDE DEF w, less
    <3>3. QED
      BY <3>1, <3>2
  <2>13. QED
    BY <2>3, <2>5, <2>9, <2>12
<1>9. QED
  BY <1>5, <1>6, <1>7, <1>8 DEF QueryNames

-----------------------------------------------------------------------------
(* Who holds a list.                                                       *)

\* What the action property says of a step.
SharedListsStay ==
  \A i \in DOMAIN packets : packets[i].phase = "queued" =>
    \A j \in DOMAIN packets[i].recs :
      LET a == packets[i].recs[j].commands IN
      heap'[a] = heap[a] \/ a \notin Referenced(cells', packets')

\* What the packets hold.
LEMMA PacketFields ==
  ASSUME CommandsTypeOK, NEW i \in 1..Len(packets)
  PROVE  /\ packets[i] \in PacketRecords
         /\ packets[i].phase \in {"queued", "executed", "invalidated"}
         /\ DOMAIN packets[i].recs \subseteq 1..2
         /\ \A j \in DOMAIN packets[i].recs : packets[i].recs[j] \in Snapshots
<1>1. packets[i] \in PacketRecords
  BY DEF CommandsTypeOK
<1>2. /\ packets[i].phase \in {"queued", "executed", "invalidated"}
      /\ packets[i].recs \in [1..1 -> Snapshots] \cup [1..2 -> Snapshots]
  BY <1>1 DEF PacketRecords
<1>3. CASE packets[i].recs \in [1..1 -> Snapshots]
  BY <1>1, <1>2, <1>3
<1>4. CASE packets[i].recs \in [1..2 -> Snapshots]
  BY <1>1, <1>2, <1>4
<1>5. QED
  BY <1>2, <1>3, <1>4

\* What a snapshot holds.
LEMMA SnapshotFields ==
  ASSUME NEW s \in Snapshots
  PROVE  s.cmd \in Cmds /\ s.commands \in Addresses /\ s.begins \in Nat
BY DEF Snapshots

\* The queued packets hold their lists.
LEMMA PacketRefsAre ==
  ASSUME CommandsTypeOK, NEW a,
         NEW i \in 1..Len(packets), NEW j \in DOMAIN packets[i].recs,
         packets[i].phase = "queued", packets[i].recs[j].commands = a
  PROVE  <<i, j>> \in PacketRefs(packets, a)
<1>1. j \in 1..2
  BY PacketFields
<1>2. SnapshotsOf(packets[i]) = packets[i].recs
  BY DEF SnapshotsOf
<1>3. <<i, j>>[1] = i /\ <<i, j>>[2] = j /\ <<i, j>> \in (1..Len(packets)) \X (1..2)
  BY <1>1
<1>4. QED
  BY <1>2, <1>3 DEF PacketRefs

\* Whoever holds a list, as a pair: a buffer, or a place in a packet.
Holds(x, a) ==
  \/ x[2] = 0 /\ x[1] \in CellRefs(cells, a)
  \/ x[2] # 0 /\ x \in PacketRefs(packets, a)
Holders == (Cmds \X {0}) \cup ((1..MaxSubmits) \X (1..2))

\* A holder holds one list.
LEMMA HoldsOne ==
  ASSUME NEW x, NEW a, NEW b, Holds(x, a), Holds(x, b)
  PROVE  a = b
BY DEF Holds, CellRefs, PacketRefs

\* A list that is referenced has a holder.
LEMMA HolderOf ==
  ASSUME CommandsTypeOK, NEW a \in Referenced(cells, packets)
  PROVE  \E x \in Holders : Holds(x, a)
<1>1. CASE CellRefs(cells, a) # {}
  <2>1. PICK c \in Cmds : c \in CellRefs(cells, a)
    BY <1>1 DEF CellRefs
  <2>2. <<c, 0>> \in Holders /\ <<c, 0>>[1] = c /\ <<c, 0>>[2] = 0
    BY DEF Holders
  <2>3. Holds(<<c, 0>>, a)
    BY <2>1, <2>2 DEF Holds
  <2>4. QED
    BY <2>2, <2>3
<1>2. CASE PacketRefs(packets, a) # {}
  <2>1. PICK x : x \in PacketRefs(packets, a)
    BY <1>2
  <2>2. x \in (1..Len(packets)) \X (1..2)
    BY <2>1 DEF PacketRefs
  <2>3. Len(packets) \in Nat /\ MaxSubmits \in Nat /\ Len(packets) <= MaxSubmits
    BY CommandsAssumption DEF CommandsTypeOK
  <2>4. x[1] \in 1..Len(packets) /\ x[2] \in 1..2 /\ x = <<x[1], x[2]>>
    BY <2>2
  <2>5. x[1] \in 1..MaxSubmits /\ x[2] # 0
    BY <2>3, <2>4
  <2>6. x \in (1..MaxSubmits) \X (1..2)
    BY <2>4, <2>5
  <2>7. Holds(x, a) /\ x \in Holders
    BY <2>1, <2>5, <2>6 DEF Holds, Holders
  <2>8. QED
    BY <2>7
<1>3. QED
  BY <1>1, <1>2 DEF Referenced

\* A packet has two places.
LEMMA TwoPlaces == IsFiniteSet(1..2) /\ Cardinality(1..2) = 2
<1>1. PICK n \in Nat : n = 2
  OBVIOUS
<1>2. IsFiniteSet(1..n) /\ Cardinality(1..n) = IF 1 > n THEN 0 ELSE n - 1 + 1
  BY FS_Interval
<1>3. (IF 1 > n THEN 0 ELSE n - 1 + 1) = 2
  BY <1>1
<1>4. IsFiniteSet(1..n) /\ Cardinality(1..n) = 2
  BY <1>2, <1>3
<1>5. QED
  BY <1>1, <1>4, Zenon

\* There are few holders.
LEMMA FewHolders == IsFiniteSet(Holders) /\ Cardinality(Holders) < Cardinality(Addresses)
<1>1. /\ MaxSubmits \in Nat /\ IsFiniteSet(Cmds) /\ IsFiniteSet(Addresses)
      /\ Cardinality(Addresses) > Cardinality(Cmds) + 2 * MaxSubmits
  BY CommandsAssumption
<1>2. Cardinality(Cmds) \in Nat /\ Cardinality(Addresses) \in Nat
  BY <1>1, FS_CardinalityType
<1>3. IsFiniteSet({0}) /\ Cardinality({0}) = 1
  BY FS_Singleton
<1>4. IsFiniteSet(Cmds \X {0}) /\ Cardinality(Cmds \X {0}) = Cardinality(Cmds)
  <2>1. IsFiniteSet(Cmds \X {0}) /\ Cardinality(Cmds \X {0}) = Cardinality(Cmds) * Cardinality({0})
    BY <1>1, <1>3, FS_Product, Zenon
  <2>2. Cardinality(Cmds) * Cardinality({0}) = Cardinality(Cmds)
    BY <1>2, <1>3
  <2>3. QED
    BY <2>1, <2>2
<1>5. IsFiniteSet(1..MaxSubmits) /\ Cardinality(1..MaxSubmits) = MaxSubmits
  <2>1. IsFiniteSet(1..MaxSubmits)
        /\ Cardinality(1..MaxSubmits) = IF 1 > MaxSubmits THEN 0 ELSE MaxSubmits - 1 + 1
    BY <1>1, FS_Interval
  <2>2. QED
    BY <1>1, <2>1
<1>6. IsFiniteSet(1..2) /\ Cardinality(1..2) = 2
  BY TwoPlaces
<1> DEFINE P == (1..MaxSubmits) \X (1..2)
<1>7. IsFiniteSet(P) /\ Cardinality(P) = 2 * MaxSubmits
  <2>1. IsFiniteSet(P) /\ Cardinality(P) = Cardinality(1..MaxSubmits) * Cardinality(1..2)
    BY <1>5, <1>6, FS_Product, Zenon
  <2>2. QED
    BY <1>1, <1>5, <1>6, <2>1
<1> DEFINE C == Cmds \X {0}
<1> HIDE DEF P, C
<1>8. /\ IsFiniteSet(C \cup P)
      /\ Cardinality(C \cup P) = Cardinality(C) + Cardinality(P) - Cardinality(C \cap P)
  BY <1>4, <1>7, FS_Union, Zenon DEF C
<1>9. IsFiniteSet(C \cap P)
  BY <1>4, FS_Intersection, Zenon DEF C
<1>10. Cardinality(C \cap P) \in Nat
  BY <1>9, FS_CardinalityType
<1>11. Cardinality(C) = Cardinality(Cmds)
  BY <1>4 DEF C
<1>12. Cardinality(C \cup P) < Cardinality(Addresses)
  BY <1>1, <1>2, <1>7, <1>8, <1>10, <1>11
<1>13. QED
  BY <1>8, <1>12 DEF C, P, Holders

\* So there is always a list that nobody holds.
LEMMA FreshIs ==
  ASSUME CommandsTypeOK
  PROVE  FreshAddress \in Addresses /\ FreshAddress \notin Referenced(cells, packets)
<1>1. SUFFICES ASSUME Addresses \subseteq Referenced(cells, packets) PROVE FALSE
  BY DEF FreshAddress
<1> DEFINE f == [a \in Addresses |-> CHOOSE x \in Holders : Holds(x, a)]
<1>2. ASSUME NEW a \in Addresses PROVE f[a] \in Holders /\ Holds(f[a], a)
  <2>1. \E x \in Holders : Holds(x, a)
    BY <1>1, HolderOf
  <2>2. QED
    BY <2>1
<1>3. f \in [Addresses -> Holders]
  BY <1>2
<1> HIDE DEF f
<1>4. IsFiniteSet(Addresses)
  BY CommandsAssumption
<1>5. \E a, b \in Addresses : a # b /\ f[a] = f[b]
  BY <1>3, <1>4, FewHolders, FS_PigeonHole
<1>6. PICK a \in Addresses, b \in Addresses : a # b /\ f[a] = f[b]
  BY <1>5
<1>7. QED
  BY <1>2, <1>6, HoldsOne

\* A list that a buffer may write: no other buffer and no queued packet has it.
FreeFor(c, w) ==
  /\ w \in Addresses
  /\ \A d \in Cmds \ {c} : Live(cells[d]) => cells[d].commands # w
  /\ \A i \in 1..Len(packets) : packets[i].phase = "queued" =>
       \A j \in DOMAIN packets[i].recs : packets[i].recs[j].commands # w

\* A fresh list is one.
LEMMA FreshIsFree ==
  ASSUME CommandsTypeOK, NEW c \in Cmds
  PROVE  FreeFor(c, FreshAddress)
<1>1. FreshAddress \in Addresses /\ FreshAddress \notin Referenced(cells, packets)
  BY FreshIs
<1>2. CellRefs(cells, FreshAddress) = {} /\ PacketRefs(packets, FreshAddress) = {}
  BY <1>1 DEF Referenced
<1> DEFINE w == FreshAddress
<1> HIDE DEF w
<1>3. w \in Addresses /\ CellRefs(cells, w) = {} /\ PacketRefs(packets, w) = {}
  BY <1>1, <1>2 DEF w
<1>4. \A d \in Cmds \ {c} : Live(cells[d]) => cells[d].commands # w
  BY <1>3 DEF CellRefs
<1>5. ASSUME NEW i \in 1..Len(packets), packets[i].phase = "queued", NEW j \in DOMAIN packets[i].recs
      PROVE  packets[i].recs[j].commands # w
  BY <1>3, <1>5, PacketRefsAre
<1>6. FreeFor(c, w)
  BY <1>3, <1>4, <1>5 DEF FreeFor
<1>7. QED
  BY <1>6 DEF w

\* A list with one holder is its buffer's own.
LEMMA UniqueIsFree ==
  ASSUME CommandsTypeOK, NEW c \in Cmds, cells[c] \in Recordings, Unique(cells[c].commands)
  PROVE  FreeFor(c, cells[c].commands)
<1> DEFINE w == cells[c].commands
           X == CellRefs(cells, w)
           Y == PacketRefs(packets, w)
<1>1. w \in Addresses
  BY RecordingFields
<1>2. c \in X
  <2>1. Live(cells[c])
    BY LiveStates DEF CellStates
  <2>2. QED
    BY <2>1 DEF CellRefs
<1>3. IsFiniteSet(Cmds) /\ X \subseteq Cmds
  BY CommandsAssumption DEF CellRefs
<1>4. IsFiniteSet(X)
  BY <1>3, FS_Subset
<1>5. IsFiniteSet(Y)
  <2> DEFINE P == (1..Len(packets)) \X (1..2)
  <2>1. Y \subseteq P
    BY DEF PacketRefs
  <2>2. Len(packets) \in Nat
    BY DEF CommandsTypeOK
  <2>3. IsFiniteSet(1..Len(packets)) /\ IsFiniteSet(1..2)
    BY <2>2, FS_Interval, TwoPlaces
  <2>4. IsFiniteSet(P)
    BY <2>3, FS_Product, Zenon
  <2> HIDE DEF P, Y
  <2>5. QED
    BY <2>1, <2>4, FS_Subset
<1>6. Cardinality(X) + Cardinality(Y) = 1
  BY DEF Unique
<1> HIDE DEF X, Y
<1>7. Cardinality(X) \in Nat /\ Cardinality(Y) \in Nat
  BY <1>4, <1>5, FS_CardinalityType
<1>8. Cardinality(X) # 0
  BY <1>2, <1>4, FS_EmptySet
<1>9. Cardinality(X) = 1 /\ Cardinality(Y) = 0
  BY <1>6, <1>7, <1>8
<1>10. Y = {}
  BY <1>5, <1>9, FS_EmptySet
<1>11. X = {c}
  <2>1. \E x : X = {x}
    BY <1>4, <1>9, FS_Singleton
  <2>2. QED
    BY <1>2, <2>1
<1>12. \A d \in Cmds \ {c} : Live(cells[d]) => cells[d].commands # w
  BY <1>11 DEF X, CellRefs
<1> HIDE DEF w
<1>13. ASSUME NEW i \in 1..Len(packets), packets[i].phase = "queued", NEW j \in DOMAIN packets[i].recs
       PROVE  packets[i].recs[j].commands # w
  BY <1>10, <1>13, PacketRefsAre DEF Y
<1>14. QED
  BY <1>1, <1>12, <1>13 DEF FreeFor, w

\* make_mut and the reset write such lists.
LEMMA WritesAreFree ==
  ASSUME CommandsTypeOK, NEW c \in Cmds, cells[c] \in Recordings
  PROVE  /\ FreeFor(c, PushAddress(cells[c]))
         /\ \A release \in BOOLEAN : FreeFor(c, ResetAddress(cells[c], release))
<1>1. FreeFor(c, FreshAddress)
  BY FreshIsFree
<1>2. Unique(cells[c].commands) => FreeFor(c, cells[c].commands)
  BY UniqueIsFree
<1>3. QED
  BY <1>1, <1>2 DEF PushAddress, ResetAddress

-----------------------------------------------------------------------------
(* Steps, by what they do to lists and recordings.                         *)

\* What a step leaves of the lists.
LEMMA PutKeeps ==
  ASSUME NEW h \in [Addresses -> Lists], NEW cs \in [Cmds -> CellStates], NEW ps, PutState(h, cs, ps)
  PROVE  /\ cells' = cs /\ packets' = ps
         /\ heap' \in [Addresses -> Lists]
         /\ \A a \in Addresses : heap'[a] = h[a] \/ a \notin Referenced(cells', packets')
         /\ \A d \in Cmds : Live(cs[d]) => heap'[cs[d].commands] = h[cs[d].commands]
<1>1. cells' = cs /\ packets' = ps /\ heap' = Collected(h, cs, ps)
  BY DEF PutState
<1>2. << >> \in Lists
  BY DEF Lists
<1>3. heap' \in [Addresses -> Lists]
  BY <1>1, <1>2 DEF Collected
<1>4. ASSUME NEW a \in Addresses PROVE heap'[a] = IF a \in Referenced(cs, ps) THEN h[a] ELSE << >>
  BY <1>1 DEF Collected
<1>5. ASSUME NEW d \in Cmds, Live(cs[d]) PROVE heap'[cs[d].commands] = h[cs[d].commands]
  <2>1. cs[d] \in Recordings
    BY <1>5, LiveStates
  <2>2. cs[d].commands \in Addresses
    BY <2>1, RecordingFields
  <2>3. d \in CellRefs(cs, cs[d].commands)
    BY <1>5 DEF CellRefs
  <2>4. cs[d].commands \in Referenced(cs, ps)
    BY <2>2, <2>3 DEF Referenced
  <2>5. QED
    BY <1>4, <2>2, <2>4
<1>6. QED
  BY <1>1, <1>3, <1>4, <1>5

\* A step that changes no list changes none of a packet.
LEMMA NoListChanges ==
  ASSUME CommandsTypeOK,
         \A a \in Addresses : heap'[a] = heap[a] \/ a \notin Referenced(cells', packets')
  PROVE  SharedListsStay
<1>1. ASSUME NEW i \in 1..Len(packets), NEW j \in DOMAIN packets[i].recs
      PROVE  packets[i].recs[j].commands \in Addresses
  BY PacketFields, SnapshotFields
<1>2. DOMAIN packets = 1..Len(packets)
  BY DEF CommandsTypeOK
<1>3. QED
  BY <1>1, <1>2 DEF SharedListsStay

\* The buffer that is recorded into gets a list of its own.
LEMMA RewriteKeeps ==
  ASSUME CommandsInv, NEW c \in Cmds, NEW r \in Recordings, NEW w, FreeFor(c, w), r.commands = w,
         NEW list \in Lists,
         PutState([heap EXCEPT ![w] = list], [cells EXCEPT ![c] = r], packets),
         UNCHANGED <<versions, submits>>, early \subseteq early', early' \subseteq Cmds,
         ~r.error => Sound(r, list, versions),
         \/ cells[c] = None
         \/ Live(cells[c]) /\ cells[c].begins = r.begins
         \/ \A i \in 1..Len(packets) : \A j \in DOMAIN packets[i].recs :
              packets[i].recs[j].cmd = c => c \in early'
  PROVE  CommandsInv' /\ SharedListsStay
<1> DEFINE h == [heap EXCEPT ![w] = list]
           cs == [cells EXCEPT ![c] = r]
<1>1. /\ cells \in [Cmds -> CellStates] /\ heap \in [Addresses -> Lists] /\ w \in Addresses
      /\ versions \in [Sets -> Nat] /\ packets \in Seq(PacketRecords)
      /\ submits \in Nat /\ Len(packets) <= submits /\ submits <= MaxSubmits
      /\ CommandsTypeOK
  BY DEF CommandsInv, CommandsTypeOK, FreeFor
<1>2. h \in [Addresses -> Lists] /\ \A a \in Addresses : h[a] = IF a = w THEN list ELSE heap[a]
  BY <1>1
<1>3. cs \in [Cmds -> CellStates] /\ cs[c] = r /\ \A d \in Cmds \ {c} : cs[d] = cells[d]
  BY <1>1 DEF CellStates
<1>4. PutState(h, cs, packets)
  OBVIOUS
<1> HIDE DEF h, cs
<1>5. /\ cells' = cs /\ packets' = packets /\ heap' \in [Addresses -> Lists]
      /\ \A a \in Addresses : heap'[a] = h[a] \/ a \notin Referenced(cells', packets')
      /\ \A d \in Cmds : Live(cs[d]) => heap'[cs[d].commands] = h[cs[d].commands]
  BY <1>2, <1>3, <1>4, PutKeeps
<1>6. CommandsTypeOK'
  BY <1>1, <1>3, <1>5 DEF CommandsTypeOK
<1>7. ASSUME NEW d \in Cmds, Live(cells'[d]), ~cells'[d].error
      PROVE  Sound(cells'[d], heap'[cells'[d].commands], versions')
  <2>1. CASE d = c
    <3>1. cells'[d] = r /\ heap'[w] = h[w] /\ h[w] = list
      BY <1>1, <1>2, <1>3, <1>5, <1>7, <2>1
    <3>2. QED
      BY <1>7, <3>1
  <2>2. CASE d # c
    <3>1. cells'[d] = cells[d] /\ Live(cells[d])
      BY <1>3, <1>5, <1>7, <2>2
    <3>2. cells[d].commands # w /\ cells[d].commands \in Addresses
      <4>1. cells[d] \in Recordings
        BY <1>1, <3>1, LiveStates
      <4>2. QED
        BY <2>2, <3>1, <4>1, RecordingFields DEF FreeFor
    <3>3. heap'[cells[d].commands] = heap[cells[d].commands]
      BY <1>2, <1>3, <1>5, <2>2, <3>1, <3>2
    <3>4. Sound(cells[d], heap[cells[d].commands], versions)
      BY <1>7, <3>1 DEF CommandsInv, RecordingsSound
    <3>5. QED
      BY <3>1, <3>3, <3>4
  <2>3. QED
    BY <2>1, <2>2
<1>8. RecordingsSound'
  BY <1>7 DEF RecordingsSound
<1>9. SnapshotsFit'
  <2>1. ASSUME NEW i \in 1..Len(packets), NEW j \in DOMAIN packets[i].recs
        PROVE  LET s == packets[i].recs[j] IN
               /\ cs[s.cmd] # None
               /\ Live(cs[s.cmd]) => s.cmd \in early' \/ s.begins = cs[s.cmd].begins
    <3> DEFINE s == packets[i].recs[j]
    <3>1. s \in Snapshots
      BY <1>1, PacketFields
    <3>2. s.cmd \in Cmds
      BY <3>1, SnapshotFields
    <3>3. /\ cells[s.cmd] # None
          /\ Live(cells[s.cmd]) => s.cmd \in early \/ s.begins = cells[s.cmd].begins
      BY DEF CommandsInv, SnapshotsFit
    <3>4. CASE s.cmd = c
      <4>1. r # None
        BY LiveStates DEF CellStates, Live
      <4>2. s.cmd \in early' \/ s.begins = r.begins
        BY <3>3, <3>4
      <4>3. QED
        BY <1>3, <3>4, <4>1, <4>2
    <3>5. CASE s.cmd # c
      BY <1>3, <3>2, <3>3, <3>5
    <3>6. QED
      BY <3>4, <3>5
  <2>2. QED
    BY <1>5, <2>1 DEF SnapshotsFit
<1>10. SharedListsStay
  <2>1. ASSUME NEW i \in 1..Len(packets), packets[i].phase = "queued", NEW j \in DOMAIN packets[i].recs
        PROVE  LET a == packets[i].recs[j].commands IN
               heap'[a] = heap[a] \/ a \notin Referenced(cells', packets')
    <3> DEFINE a == packets[i].recs[j].commands
    <3>1. a \in Addresses
      BY <1>1, PacketFields, SnapshotFields
    <3>2. a # w
      BY <2>1 DEF FreeFor
    <3>3. QED
      BY <1>2, <1>5, <3>1, <3>2
  <2>2. DOMAIN packets = 1..Len(packets)
    BY <1>1
  <2>3. QED
    BY <2>1, <2>2 DEF SharedListsStay
<1>11. QED
  BY <1>6, <1>8, <1>9, <1>10 DEF CommandsInv

\* Recordings change, or go away, and every list stays.
LEMMA RelabelKeeps ==
  ASSUME CommandsInv, NEW cs \in [Cmds -> CellStates],
         PutState(heap, cs, packets) \/ (cells' = cs /\ UNCHANGED <<heap, packets>>),
         UNCHANGED submits, versions' \in [Sets -> Nat],
         early \subseteq early', early' \subseteq Cmds,
         \A d \in Cmds : cells[d] # None => cs[d] # None,
         \A d \in Cmds : Live(cs[d]) =>
           /\ Live(cells[d])
           /\ cs[d].commands = cells[d].commands /\ cs[d].begins = cells[d].begins
           /\ ~cs[d].error => Sound(cs[d], heap[cells[d].commands], versions')
  PROVE  CommandsInv' /\ SharedListsStay
<1>1. /\ heap \in [Addresses -> Lists] /\ CommandsTypeOK
      /\ packets \in Seq(PacketRecords)
      /\ submits \in Nat /\ Len(packets) <= submits /\ submits <= MaxSubmits
  BY DEF CommandsInv, CommandsTypeOK
<1>2. /\ cells' = cs /\ packets' = packets /\ heap' \in [Addresses -> Lists]
      /\ \A a \in Addresses : heap'[a] = heap[a] \/ a \notin Referenced(cells', packets')
      /\ \A d \in Cmds : Live(cs[d]) => heap'[cs[d].commands] = heap[cs[d].commands]
  <2>1. CASE PutState(heap, cs, packets)
    BY <1>1, <2>1, PutKeeps
  <2>2. CASE cells' = cs /\ UNCHANGED <<heap, packets>>
    BY <1>1, <2>2
  <2>3. QED
    BY <2>1, <2>2
<1>3. CommandsTypeOK'
  BY <1>1, <1>2 DEF CommandsTypeOK
<1>4. RecordingsSound'
  BY <1>2 DEF RecordingsSound
<1>5. SnapshotsFit'
  <2>1. ASSUME NEW i \in 1..Len(packets), NEW j \in DOMAIN packets[i].recs
        PROVE  LET s == packets[i].recs[j] IN
               /\ cs[s.cmd] # None
               /\ Live(cs[s.cmd]) => s.cmd \in early' \/ s.begins = cs[s.cmd].begins
    <3> DEFINE s == packets[i].recs[j]
    <3>1. s.cmd \in Cmds
      BY <1>1, PacketFields, SnapshotFields
    <3>2. /\ cells[s.cmd] # None
          /\ Live(cells[s.cmd]) => s.cmd \in early \/ s.begins = cells[s.cmd].begins
      BY DEF CommandsInv, SnapshotsFit
    <3>3. QED
      BY <3>1, <3>2
  <2>2. QED
    BY <1>2, <2>1 DEF SnapshotsFit
<1>6. SharedListsStay
  BY <1>1, <1>2, NoListChanges
<1>7. QED
  BY <1>3, <1>4, <1>5, <1>6 DEF CommandsInv

-----------------------------------------------------------------------------
(* Recording.                                                              *)

\* Recordings that differ in nothing the list is about.
LEMMA SoundSame ==
  ASSUME NEW r, NEW s, NEW list, NEW vs, Sound(r, list, vs),
         s.active = r.active, s.renderActive = r.renderActive,
         s.renderDynamic = r.renderDynamic, s.refs = r.refs, s.state = r.state
  PROVE  Sound(s, list, vs)
<1>1. ActiveFits(s) /\ BindsCurrent(s, list, vs) /\ WholePushes(list)
  BY DEF Sound, ActiveFits, BindsCurrent
<1>2. WalkOf(s) = WalkOf(r)
  BY DEF WalkOf, OpenOf, AtOf
<1>3. QED
  BY <1>1, <1>2 DEF Sound

\* A command changes neither the state of a recording nor its error.
LEMMA TrackedKeeps ==
  ASSUME NEW r \in Recordings, NEW cmd \in Recordable
  PROVE  /\ Tracked(r, cmd).state = r.state /\ Tracked(r, cmd).error = r.error
         /\ Tracked(r, cmd).begins = r.begins
BY DEF Tracked, Recordings

\* It leaves a recording.
LEMMA TrackedIsRecording ==
  ASSUME NEW r \in Recordings, NEW cmd \in Recordable
  PROVE  Tracked(r, cmd) \in Recordings
<1>1. r.active \in [Kinds -> OpenQueries \cup {None}] /\ r.renderActive \in BOOLEAN /\ r.refs \in SUBSET Sets
  BY RecordingFields
<1>2. ASSUME NEW k \in QueryNames, NEW q \in QueryPools, cmd = Command(k, q)
      PROVE  Tracked(r, cmd) \in Recordings
  <2>1. cmd.k = k /\ cmd.v = q
    BY <1>2, CommandIs
  <2>2. [pool |-> q, inside |-> r.renderActive] \in OpenQueries
    BY <1>1 DEF OpenQueries
  <2> DEFINE o == [pool |-> q, inside |-> r.renderActive]
  <2>3. CASE k = "begin query"
    <3>1. Tracked(r, cmd) = [r EXCEPT !.active[KindOf[q]] = o]
      BY <2>1, <2>3 DEF Tracked
    <3> HIDE DEF o
    <3>2. o \in OpenQueries
      BY <2>2 DEF o
    <3>3. QED
      BY <3>1, <3>2 DEF Recordings
  <2>4. CASE k = "end query"
    <3>1. Tracked(r, cmd) = [r EXCEPT !.active[KindOf[q]] = None]
      BY <2>1, <2>4 DEF Tracked
    <3>2. QED
      BY <3>1 DEF Recordings
  <2>5. CASE k \notin {"begin query", "end query"}
    BY <2>1, <2>5 DEF Tracked, QueryNames
  <2>6. QED
    BY <2>3, <2>4, <2>5
<1>3. ASSUME NEW k \in PassNames \cup PlainNames, cmd = Simple(k)
      PROVE  Tracked(r, cmd) \in Recordings
  <2>1. cmd.k = k
    BY <1>3, CommandIs DEF Simple
  <2>2. k \notin {"bind", "begin query", "end query"}
    BY DEF PassNames, PlainNames
  <2>3. QED
    BY <2>1, <2>2 DEF Tracked, Recordings
<1>4. ASSUME NEW v \in [set : Sets, version : Nat], cmd = Command("bind", v)
      PROVE  Tracked(r, cmd) \in Recordings
  <2>1. cmd.k = "bind" /\ cmd.v = v /\ v.set \in Sets
    BY <1>4, CommandIs
  <2>2. Tracked(r, cmd) = [r EXCEPT !.refs = @ \cup {v.set}]
    BY <2>1 DEF Tracked
  <2>3. QED
    BY <1>1, <2>1, <2>2 DEF Recordings
<1>5. QED
  BY <1>2, <1>3, <1>4 DEF Recordable, SimpleCommands, QueryCommands, BindCommands

\* A command that is accepted leads the walk where the flags say.
LEMMA CommandsFollow ==
  ASSUME NEW r \in Recordings, ActiveFits(r), NEW cmd \in Recordable, Accepts(r, cmd)
  PROVE  /\ cmd.k \in Names
         /\ Step(WalkOf(r), cmd) = WalkOf(Tracked(r, cmd))
         /\ Tracked(r, cmd) \in Recordings /\ ActiveFits(Tracked(r, cmd))
         /\ r.refs \subseteq Tracked(r, cmd).refs
         /\ cmd.k = "bind" =>
              cmd.v \in [set : Sets, version : Nat] /\ cmd.v.set \in Tracked(r, cmd).refs
<1>1. CASE cmd \in SimpleCommands
  <2>1. PICK k \in PassNames \cup PlainNames : cmd = Simple(k)
    BY <1>1 DEF SimpleCommands
  <2>2. cmd.k = k
    BY <2>1, CommandIs DEF Simple
  <2>3. CASE k \in PassNames
    <3>1. k # "bind" /\ k \in Names
      BY <2>3 DEF PassNames, Names
    <3>2. QED
      BY <2>2, <2>3, <3>1, PassesFollow
  <2>4. CASE k \in PlainNames
    <3>1. k # "bind" /\ k \in Names
      BY <2>4 DEF PlainNames, Names
    <3>2. Step(WalkOf(r), cmd) = WalkOf(r) /\ Tracked(r, cmd) = r
      BY <2>2, <2>4, PlainFollow
    <3>3. QED
      BY <2>2, <3>1, <3>2
  <2>5. QED
    BY <2>1, <2>3, <2>4
<1>2. CASE cmd \in QueryCommands
  <2>1. PICK k \in QueryNames, q \in QueryPools : cmd = Command(k, q)
    BY <1>2 DEF QueryCommands
  <2>2. cmd.k = k /\ k # "bind" /\ k \in Names
    BY <2>1, CommandIs DEF QueryNames, Names
  <2>3. QED
    BY <2>1, <2>2, QueriesFollow
<1>3. CASE cmd \in BindCommands
  <2>1. PICK v \in [set : Sets, version : Nat] : cmd = Command("bind", v)
    BY <1>3 DEF BindCommands
  <2>2. cmd.k = "bind" /\ cmd.v = v /\ "bind" \in Names
    BY <2>1, CommandIs DEF Names
  <2>3. /\ Step(WalkOf(r), cmd) = WalkOf(Tracked(r, cmd))
        /\ Tracked(r, cmd) \in Recordings /\ ActiveFits(Tracked(r, cmd))
        /\ Tracked(r, cmd).refs = r.refs \cup {v.set}
    BY <2>1, BindsFollow
  <2>4. QED
    BY <2>2, <2>3
<1>4. QED
  BY <1>1, <1>2, <1>3 DEF Recordable

\* What joins the end of a list.
LEMMA AppendIs ==
  ASSUME NEW list \in Lists, NEW cmd \in AllCommands
  PROVE  /\ Len(list) \in Nat /\ Append(list, cmd) \in Lists
         /\ Len(Append(list, cmd)) = Len(list) + 1
         /\ Append(list, cmd)[Len(list) + 1] = cmd
         /\ \A i \in 1..Len(list) : Append(list, cmd)[i] = list[i]
BY DEF Lists

\* Everything but the pairs of a push, for a command more.
LEMMA AppendFollows ==
  ASSUME NEW r \in Recordings, NEW list \in Lists, NEW vs,
         ActiveFits(r), Walk(list) = WalkOf(r), BindsCurrent(r, list, vs),
         NEW cmd \in Recordable, Accepts(r, cmd),
         cmd.k = "bind" => cmd.v.version = vs[cmd.v.set]
  PROVE  /\ Append(list, cmd) \in Lists
         /\ Tracked(r, cmd) \in Recordings /\ ActiveFits(Tracked(r, cmd))
         /\ Walk(Append(list, cmd)) = WalkOf(Tracked(r, cmd))
         /\ BindsCurrent(Tracked(r, cmd), Append(list, cmd), vs)
<1> DEFINE t == Tracked(r, cmd)
           more == Append(list, cmd)
<1>0. cmd \in AllCommands
  BY RecordableAreCommands
<1>1. /\ Len(list) \in Nat /\ more \in Lists /\ Len(more) = Len(list) + 1
      /\ more[Len(list) + 1] = cmd /\ \A i \in 1..Len(list) : more[i] = list[i]
  BY <1>0, AppendIs
<1>2. /\ Step(WalkOf(r), cmd) = WalkOf(t)
      /\ t \in Recordings /\ ActiveFits(t) /\ r.refs \subseteq t.refs
      /\ cmd.k = "bind" => cmd.v \in [set : Sets, version : Nat] /\ cmd.v.set \in t.refs
  BY CommandsFollow
<1>3. Walk(more) = WalkOf(t)
  BY <1>0, <1>2, WalkOfAppend
<1> HIDE DEF t, more
<1>4. ASSUME NEW i \in 1..Len(more), more[i].k = "bind"
      PROVE  /\ more[i].v \in [set : Sets, version : Nat]
             /\ more[i].v.set \in t.refs /\ more[i].v.version = vs[more[i].v.set]
  <2>1. CASE i = Len(list) + 1
    <3>1. more[i] = cmd
      BY <1>1, <2>1
    <3>2. QED
      BY <1>2, <1>4, <3>1
  <2>2. CASE i \in 1..Len(list)
    <3>1. more[i] = list[i]
      BY <1>1, <2>2
    <3>2. /\ list[i].v \in [set : Sets, version : Nat]
          /\ list[i].v.set \in r.refs /\ list[i].v.version = vs[list[i].v.set]
      BY <1>4, <2>2, <3>1 DEF BindsCurrent
    <3>3. QED
      BY <1>2, <3>1, <3>2
  <2>3. QED
    BY <1>1, <2>1, <2>2
<1>5. BindsCurrent(t, more, vs)
  BY <1>4 DEF BindsCurrent
<1>6. QED
  BY <1>1, <1>2, <1>3, <1>5 DEF t, more

\* A list stays whole when something else than a push joins it.
LEMMA AppendWhole ==
  ASSUME NEW list \in Lists, NEW cmd \in AllCommands, WholePushes(list), cmd.k # "push"
  PROVE  WholePushes(Append(list, cmd))
<1> DEFINE more == Append(list, cmd)
<1>1. /\ Len(list) \in Nat /\ Len(more) = Len(list) + 1
      /\ more[Len(list) + 1] = cmd /\ \A i \in 1..Len(list) : more[i] = list[i]
  BY AppendIs
<1> HIDE DEF more
<1>2. ASSUME NEW i \in 1..Len(more), more[i].k = "push"
      PROVE  i < Len(more) /\ more[i + 1].k = "bind pushed"
  <2>1. i # Len(list) + 1
    BY <1>1, <1>2
  <2>2. i \in 1..Len(list)
    BY <1>1, <2>1
  <2>3. list[i].k = "push"
    BY <1>1, <1>2, <2>2
  <2>4. i < Len(list) /\ list[i + 1].k = "bind pushed"
    BY <2>2, <2>3 DEF WholePushes
  <2>5. i < Len(list)
    BY <2>4
  <2>6. Len(list) \in Nat /\ Len(more) = Len(list) + 1
    BY <1>1
  <2>7. i + 1 \in 1..Len(list) /\ i < Len(more)
    BY <2>2, <2>5, <2>6
  <2>8. more[i + 1] = list[i + 1]
    BY <1>1, <2>7
  <2>9. QED
    BY <2>4, <2>7, <2>8
<1>3. QED
  BY <1>2 DEF WholePushes, more

\* What joins the end of a sequence in two steps, or in one.
LEMMA AppendTwice ==
  ASSUME NEW S, NEW s \in Seq(S), NEW a \in S, NEW b \in S,
         NEW t, t = Append(Append(s, a), b)
  PROVE  /\ Len(s) \in Nat /\ Len(t) = Len(s) + 2
         /\ t[Len(s) + 1] = a /\ t[Len(s) + 2] = b
         /\ \A i \in 1..Len(s) : t[i] = s[i]
         /\ s \o <<a, b>> = t
<1> DEFINE one == Append(s, a)
<1>1. /\ one \in Seq(S) /\ Len(s) \in Nat /\ Len(one) = Len(s) + 1
      /\ one[Len(s) + 1] = a /\ \A i \in 1..Len(s) : one[i] = s[i]
  OBVIOUS
<1> HIDE DEF one
<1>2. t = Append(one, b)
  BY DEF one
<1>3. /\ t \in Seq(S) /\ Len(t) = Len(one) + 1
      /\ t[Len(one) + 1] = b /\ \A i \in 1..Len(one) : t[i] = one[i]
  BY <1>1, <1>2
<1>4. Len(one) + 1 = Len(s) + 2 /\ Len(s) + 1 \in 1..Len(one) /\ 1..Len(s) \subseteq 1..Len(one)
  BY <1>1
<1>5. /\ Len(t) = Len(s) + 2 /\ t[Len(s) + 1] = a /\ t[Len(s) + 2] = b
      /\ \A i \in 1..Len(s) : t[i] = s[i]
  BY <1>1, <1>3, <1>4
<1> DEFINE u == s \o <<a, b>>
<1>6. /\ u \in Seq(S) /\ Len(u) = Len(s) + 2 /\ u[Len(s) + 1] = a /\ u[Len(s) + 2] = b
      /\ \A i \in 1..Len(s) : u[i] = s[i]
  OBVIOUS
<1> HIDE DEF u
<1>7. ASSUME NEW i \in 1..Len(s) + 2 PROVE u[i] = t[i]
  <2>1. i \in 1..Len(s) \/ i = Len(s) + 1 \/ i = Len(s) + 2
    BY <1>1
  <2>2. QED
    BY <1>5, <1>6, <2>1
<1>8. u = t
  BY <1>1, <1>3, <1>5, <1>6, <1>7
<1>9. QED
  BY <1>1, <1>5, <1>8 DEF u

\* Two commands join a list.
LEMMA ListTwice ==
  ASSUME NEW list \in Lists, NEW first \in AllCommands, NEW second \in AllCommands
  PROVE  /\ list \o <<first, second>> = Append(Append(list, first), second)
         /\ Len(list) \in Nat /\ Len(Append(Append(list, first), second)) = Len(list) + 2
         /\ Append(Append(list, first), second)[Len(list) + 1] = first
         /\ Append(Append(list, first), second)[Len(list) + 2] = second
         /\ \A i \in 1..Len(list) : Append(Append(list, first), second)[i] = list[i]
<1> DEFINE most == Append(Append(list, first), second)
<1>1. list \in Seq(AllCommands) /\ most = Append(Append(list, first), second)
  BY DEF Lists
<1> HIDE DEF most
<1>2. /\ Len(list) \in Nat /\ Len(most) = Len(list) + 2
      /\ most[Len(list) + 1] = first /\ most[Len(list) + 2] = second
      /\ \A i \in 1..Len(list) : most[i] = list[i]
      /\ list \o <<first, second>> = most
  BY <1>1, AppendTwice
<1>3. QED
  BY <1>2, Zenon DEF most

\* The places of a list that two commands joined.
LEMMA TwoMore ==
  ASSUME NEW n \in Nat, NEW i \in 1..n + 2
  PROVE  /\ i = n + 2 \/ i = n + 1 \/ i \in 1..n
         /\ i = n + 1 => i + 1 = n + 2 /\ i < n + 2
         /\ i \in 1..n /\ i < n => i + 1 \in 1..n /\ i < n + 2
OBVIOUS

\* A push and its binding.
PushPair(first, second) == first.k = "push" /\ second.k = "bind pushed"

\* It stays whole when a push and its binding join it.
LEMMA PairWhole ==
  ASSUME NEW list \in Lists, NEW first \in AllCommands, NEW second \in AllCommands,
         WholePushes(list), PushPair(first, second)
  PROVE  WholePushes(Append(Append(list, first), second))
<1> DEFINE n == Len(list)
           most == Append(Append(list, first), second)
<1>1. /\ n \in Nat /\ Len(most) = n + 2 /\ most[n + 1] = first /\ most[n + 2] = second
      /\ \A i \in 1..n : most[i] = list[i]
  BY ListTwice
<1> HIDE DEF most
<1>0. n \in Nat /\ Len(list) = n
  BY <1>1
<1> HIDE DEF n
<1>2. /\ most[n + 1] = first /\ most[n + 2] = second
      /\ \A i \in 1..n : most[i] = list[i]
  BY <1>1
<1>3. Len(most) = n + 2
  BY <1>1
<1>4. ASSUME NEW i \in 1..n + 2, most[i].k = "push"
      PROVE  i < n + 2 /\ most[i + 1].k = "bind pushed"
  <2>1. CASE i = n + 2
    <3>1. most[i] = second
      BY <1>2, <2>1
    <3>2. QED
      BY <1>4, <3>1 DEF PushPair
  <2>2. CASE i = n + 1
    <3>1. i + 1 = n + 2 /\ i < n + 2
      BY <1>0, <2>2, TwoMore
    <3>2. most[i + 1] = second
      BY <1>2, <3>1
    <3>3. QED
      BY <3>1, <3>2 DEF PushPair
  <2>3. CASE i \in 1..n
    <3>1. list[i].k = "push"
      BY <1>2, <1>4, <2>3
    <3>2. i < n /\ list[i + 1].k = "bind pushed"
      BY <1>0, <2>3, <3>1 DEF WholePushes
    <3>3. i < n
      BY <3>2
    <3>4. i + 1 \in 1..n /\ i < n + 2
      BY <1>0, <2>3, <3>3, TwoMore
    <3>5. most[i + 1] = list[i + 1]
      BY <1>2, <3>4
    <3>6. QED
      BY <3>2, <3>4, <3>5
  <2>4. i = n + 2 \/ i = n + 1 \/ i \in 1..n
    BY <1>0, TwoMore
  <2>5. QED
    BY <2>1, <2>2, <2>3, <2>4
<1>5. WholePushes(most)
  BY <1>3, <1>4 DEF WholePushes
<1>6. QED
  BY <1>5 DEF most

\* What is known of a live buffer.
LEMMA LiveCells ==
  ASSUME CommandsInv, NEW c \in Cmds, Live(cells[c])
  PROVE  /\ CommandsTypeOK
         /\ cells[c] \in Recordings /\ cells[c].commands \in Addresses
         /\ heap[cells[c].commands] \in Lists
         /\ ~cells[c].error => Sound(cells[c], heap[cells[c].commands], versions)
<1>1. CommandsTypeOK /\ cells \in [Cmds -> CellStates] /\ heap \in [Addresses -> Lists]
  BY DEF CommandsInv, CommandsTypeOK
<1>2. cells[c] \in Recordings
  BY <1>1, LiveStates
<1>3. cells[c].commands \in Addresses
  BY <1>2, RecordingFields
<1>4. QED
  BY <1>1, <1>2, <1>3 DEF CommandsInv, RecordingsSound

\* An error is all that a refusal leaves.
LEMMA ErrorKeeps ==
  ASSUME CommandsInv, NEW c \in Cmds, Live(cells[c]),
         \/ PutState(heap, [cells EXCEPT ![c] = WithError(cells[c])], packets)
         \/ /\ cells' = [cells EXCEPT ![c] = WithError(cells[c])]
            /\ UNCHANGED <<heap, packets>>,
         UNCHANGED <<versions, submits, early>>
  PROVE  CommandsInv' /\ SharedListsStay
<1> DEFINE e == WithError(cells[c])
           cs == [cells EXCEPT ![c] = e]
<1>1. CommandsTypeOK /\ cells[c] \in Recordings
  BY LiveCells
<1>2. cells \in [Cmds -> CellStates] /\ versions \in [Sets -> Nat] /\ early \subseteq Cmds
  BY <1>1 DEF CommandsTypeOK
<1>3. e \in Recordings /\ e.error /\ e.commands = cells[c].commands /\ e.begins = cells[c].begins
  BY <1>1 DEF WithError, Recordings
<1>4. e # None
  BY <1>3, LiveStates DEF CellStates, Live
<1>5. PutState(heap, cs, packets) \/ (cells' = cs /\ UNCHANGED <<heap, packets>>)
  OBVIOUS
<1> HIDE DEF e
<1>6. cs \in [Cmds -> CellStates] /\ \A d \in Cmds : cs[d] = IF d = c THEN e ELSE cells[d]
  BY <1>2, <1>3 DEF CellStates
<1> HIDE DEF cs
<1>7. ASSUME NEW d \in Cmds, Live(cs[d])
      PROVE  /\ Live(cells[d])
             /\ cs[d].commands = cells[d].commands /\ cs[d].begins = cells[d].begins
             /\ ~cs[d].error => Sound(cs[d], heap[cells[d].commands], versions')
  <2>1. CASE d = c
    BY <1>3, <1>6, <2>1
  <2>2. CASE d # c
    <3>1. cs[d] = cells[d]
      BY <1>6, <2>2
    <3>2. QED
      BY <1>7, <3>1, LiveCells
  <2>3. QED
    BY <2>1, <2>2
<1>8. \A d \in Cmds : cells[d] # None => cs[d] # None
  BY <1>4, <1>6
<1>9. QED
  BY <1>2, <1>5, <1>6, <1>7, <1>8, RelabelKeeps

\* record_error.
LEMMA RecordErrorKeeps ==
  ASSUME CommandsInv, NEW c \in Cmds, RecordError(c)
  PROVE  CommandsInv' /\ SharedListsStay
<1>1. cells' = [cells EXCEPT ![c] = WithError(cells[c])]
  BY DEF RecordError
<1>2. QED
  BY <1>1, ErrorKeeps DEF RecordError

\* Nothing changes of the counters and the sets while commands are recorded.
LEMMA RecordingWrites ==
  ASSUME CommandsInv, NEW c \in Cmds, Live(cells[c]), NEW t \in Recordings, t.begins = cells[c].begins,
         NEW more \in Lists,
         ~t.error => Sound(t, more, versions),
         PutState([heap EXCEPT ![PushAddress(cells[c])] = more],
                  [cells EXCEPT ![c] = [t EXCEPT !.commands = PushAddress(cells[c])]], packets),
         UNCHANGED <<versions, submits, early>>
  PROVE  CommandsInv' /\ SharedListsStay
<1> DEFINE w == PushAddress(cells[c])
           s == [t EXCEPT !.commands = w]
<1>1. FreeFor(c, w)
  BY LiveCells, WritesAreFree
<1>2. w \in Addresses
  BY <1>1 DEF FreeFor
<1>3. PutState([heap EXCEPT ![w] = more], [cells EXCEPT ![c] = s], packets)
  OBVIOUS
<1> HIDE DEF w
<1>4. /\ s \in Recordings /\ s.commands = w /\ s.begins = cells[c].begins /\ s.error = t.error
      /\ s.active = t.active /\ s.renderActive = t.renderActive
      /\ s.renderDynamic = t.renderDynamic /\ s.refs = t.refs /\ s.state = t.state
  BY <1>2 DEF Recordings
<1> HIDE DEF s
<1>5. ~s.error => Sound(s, more, versions)
  BY <1>4, SoundSame
<1>6. early \subseteq early' /\ early' \subseteq Cmds
  BY DEF CommandsInv, CommandsTypeOK
<1>7. QED
  BY <1>1, <1>3, <1>4, <1>5, <1>6, RewriteKeeps

\* record.
LEMMA RecordKeeps ==
  ASSUME CommandsInv, NEW c \in Cmds, NEW cmd \in Recordable, cmd.k # "push",
         cmd.k = "bind" => cmd.v.version = versions[cmd.v.set],
         Record(c, cmd)
  PROVE  CommandsInv' /\ SharedListsStay
<1> DEFINE r == cells[c]
           list == heap[r.commands]
           t == Tracked(r, cmd)
           more == Append(list, cmd)
           accepted == r.state = "recording" /\ Len(list) < Capacity /\ Accepts(r, cmd)
<1>1. Live(r) /\ UNCHANGED <<versions, submits, early>>
  BY DEF Record
<1>2. r \in Recordings /\ list \in Lists /\ (~r.error => Sound(r, list, versions))
  BY <1>1, LiveCells
<1>3. CASE accepted
  <2>1. PutState([heap EXCEPT ![PushAddress(r)] = more],
                 [cells EXCEPT ![c] = [t EXCEPT !.commands = PushAddress(r)]], packets)
    BY <1>3 DEF Record
  <2>2. cmd \in AllCommands
    BY RecordableAreCommands
  <2>3. more \in Lists
    BY <1>2, <2>2, AppendIs
  <2>4. t.state = r.state /\ t.error = r.error /\ t.begins = r.begins
    BY <1>2, TrackedKeeps
  <2>5. t \in Recordings
    BY <1>2, TrackedIsRecording
  <2>6. ASSUME ~t.error PROVE Sound(t, more, versions)
    <3>1. Sound(r, list, versions)
      BY <1>2, <2>4, <2>6
    <3>2. /\ ActiveFits(r) /\ Walk(list) = WalkOf(r) /\ BindsCurrent(r, list, versions)
          /\ WholePushes(list)
      BY <3>1 DEF Sound
    <3>3. /\ ActiveFits(t) /\ Walk(more) = WalkOf(t) /\ BindsCurrent(t, more, versions)
      BY <1>2, <1>3, <3>2, AppendFollows
    <3>4. WholePushes(more)
      BY <1>2, <2>2, <3>2, AppendWhole
    <3>5. t.state # "executable"
      BY <1>3, <2>4
    <3>6. QED
      BY <3>3, <3>4, <3>5 DEF Sound
  <2> HIDE DEF t, more
  <2>7. QED
    BY <1>1, <2>1, <2>3, <2>4, <2>5, <2>6, RecordingWrites
<1>4. CASE ~accepted
  <2>1. PutState(heap, [cells EXCEPT ![c] = WithError(r)], packets)
    BY <1>4 DEF Record
  <2>2. QED
    BY <1>1, <2>1, ErrorKeeps
<1>5. QED
  BY <1>3, <1>4

\* Two commands of one call, neither of them a push, or a push and its binding.
LEMMA RecordBothKeeps ==
  ASSUME CommandsInv, NEW c \in Cmds, NEW first \in Recordable, NEW second \in Recordable,
         first.k \notin {"push", "bind"} \/ PushPair(first, second),
         second.k \notin {"push", "bind"},
         RecordBoth(c, first, second)
  PROVE  CommandsInv' /\ SharedListsStay
<1> DEFINE r == cells[c]
           list == heap[r.commands]
           fits(n) == r.state = "recording" /\ Len(list) + n <= Capacity /\ Accepts(r, first)
           w == PushAddress(r)
           one == Tracked(r, first)
           two == Tracked(one, second)
           more == Append(list, first)
           most == Append(more, second)
           both == fits(2) /\ Accepts(one, second)
           half == fits(1) /\ ~fits(2)
<1>1. Live(r) /\ UNCHANGED <<versions, submits, early>>
  BY DEF RecordBoth
<1>2. r \in Recordings /\ list \in Lists /\ (~r.error => Sound(r, list, versions))
  BY <1>1, LiveCells
<1>3. first \in AllCommands /\ second \in AllCommands /\ first.k # "bind" /\ second.k # "bind"
  BY RecordableAreCommands DEF PushPair
<1>4. one \in Recordings /\ two \in Recordings
  BY <1>2, TrackedIsRecording
<1>5. /\ one.state = r.state /\ one.error = r.error /\ one.begins = r.begins
      /\ two.state = r.state /\ two.error = r.error /\ two.begins = r.begins
  <2>1. one.state = r.state /\ one.error = r.error /\ one.begins = r.begins
    BY <1>2, TrackedKeeps
  <2>2. two.state = one.state /\ two.error = one.error /\ two.begins = one.begins
    BY <1>4, TrackedKeeps
  <2>3. QED
    BY <2>1, <2>2
<1>6. more \in Lists /\ most \in Lists
  <2>1. more \in Lists
    BY <1>2, <1>3, AppendIs
  <2>2. QED
    BY <1>3, <2>1, AppendIs
<1>7. list \o <<first, second>> = most
  <2>1. list \in Lists
    BY <1>2
  <2> HIDE DEF list
  <2>2. QED
    BY <1>3, <2>1, ListTwice
<1>8. CASE both
  <2>1. PutState([heap EXCEPT ![w] = most], [cells EXCEPT ![c] = [two EXCEPT !.commands = w]], packets)
    BY <1>7, <1>8 DEF RecordBoth
  <2>2. ASSUME ~two.error PROVE Sound(two, most, versions)
    <3>1. /\ ActiveFits(r) /\ Walk(list) = WalkOf(r) /\ BindsCurrent(r, list, versions)
          /\ WholePushes(list)
      BY <1>2, <1>5, <2>2 DEF Sound
    <3>2. /\ ActiveFits(one) /\ Walk(more) = WalkOf(one) /\ BindsCurrent(one, more, versions)
      BY <1>2, <1>3, <1>8, <3>1, AppendFollows
    <3>3. /\ ActiveFits(two) /\ Walk(most) = WalkOf(two) /\ BindsCurrent(two, most, versions)
      BY <1>3, <1>4, <1>6, <1>8, <3>2, AppendFollows
    <3>4. WholePushes(most)
      <4>1. CASE first.k # "push"
        BY <1>2, <1>3, <1>6, <3>1, <4>1, AppendWhole
      <4>2. CASE PushPair(first, second)
        BY <1>2, <1>3, <3>1, <4>2, PairWhole
      <4>3. QED
        BY <4>1, <4>2
    <3>5. two.state # "executable"
      BY <1>5, <1>8
    <3>6. QED
      BY <3>3, <3>4, <3>5 DEF Sound
  <2> HIDE DEF two, most, w
  <2>3. QED
    BY <1>1, <1>4, <1>5, <1>6, <2>1, <2>2, RecordingWrites DEF w
<1>9. CASE half
  <2> DEFINE e == WithError(one)
  <2>1. PutState([heap EXCEPT ![w] = more], [cells EXCEPT ![c] = [e EXCEPT !.commands = w]], packets)
    <3>1. ~both
      BY <1>9
    <3>2. QED
      BY <1>9, <3>1 DEF RecordBoth
  <2>2. e \in Recordings /\ e.error /\ e.begins = r.begins
    BY <1>4, <1>5 DEF WithError, Recordings
  <2> HIDE DEF e, more, w
  <2>3. QED
    BY <1>1, <1>6, <2>1, <2>2, RecordingWrites DEF w
<1>10. CASE ~both /\ ~half
  <2>1. PutState(heap, [cells EXCEPT ![c] = WithError(r)], packets)
    BY <1>10 DEF RecordBoth
  <2>2. QED
    BY <1>1, <2>1, ErrorKeeps
<1>11. QED
  BY <1>8, <1>9, <1>10

\* The command of a kind is one that can be recorded.
LEMMA SimpleIs ==
  ASSUME NEW k \in PassNames \cup PlainNames
  PROVE  Simple(k) \in Recordable /\ Simple(k).k = k
BY CommandIs DEF Simple, SimpleCommands, Recordable

\* A command that is only a kind, or its refusal.
LEMMA SimpleKeeps ==
  ASSUME CommandsInv, NEW c \in Cmds, NEW k \in (PassNames \cup PlainNames) \ {"push"},
         Record(c, Simple(k)) \/ RecordError(c)
  PROVE  CommandsInv' /\ SharedListsStay
<1>1. Simple(k) \in Recordable /\ Simple(k).k = k
  BY SimpleIs
<1>2. k # "push" /\ k # "bind"
  BY DEF PassNames, PlainNames
<1>3. QED
  BY <1>1, <1>2, RecordKeeps, RecordErrorKeeps

\* The entry points that set state.
LEMMA CmdStateKeeps ==
  ASSUME CommandsInv, NEW c \in Cmds, CmdState(c)
  PROVE  CommandsInv' /\ SharedListsStay
<1>1. CASE Record(c, Simple("state")) \/ RecordError(c)
  <2>1. "state" \in (PassNames \cup PlainNames) \ {"push"}
    BY DEF PlainNames
  <2>2. QED
    BY <1>1, <2>1, SimpleKeeps
<1>2. CASE CmdBindDescriptorSets(c)
  <2>1. ASSUME NEW s \in Sets, Record(c, Command("bind", [set |-> s, version |-> versions[s]]))
        PROVE  CommandsInv' /\ SharedListsStay
    <3> DEFINE v == [set |-> s, version |-> versions[s]]
               cmd == Command("bind", v)
    <3>1. v \in [set : Sets, version : Nat] /\ v.version = versions[v.set]
      BY DEF CommandsInv, CommandsTypeOK
    <3>2. Record(c, cmd)
      BY <2>1
    <3> HIDE DEF v
    <3>3. cmd \in Recordable /\ cmd.k = "bind" /\ cmd.v = v
      BY <3>1, CommandIs DEF Recordable, BindCommands
    <3> HIDE DEF cmd
    <3>4. QED
      BY <3>1, <3>2, <3>3, RecordKeeps
  <2>2. QED
    BY <1>2, <2>1, RecordErrorKeeps DEF CmdBindDescriptorSets
<1>3. CASE CmdPushDescriptorSet(c)
  <2>1. CASE RecordBoth(c, Simple("push"), Simple("bind pushed"))
    <3>1. "push" \in PassNames \cup PlainNames /\ "bind pushed" \in PassNames \cup PlainNames
      BY DEF PlainNames
    <3>2. /\ Simple("push") \in Recordable /\ Simple("push").k = "push"
          /\ Simple("bind pushed") \in Recordable /\ Simple("bind pushed").k = "bind pushed"
      BY <3>1, SimpleIs
    <3>3. QED
      BY <2>1, <3>2, RecordBothKeeps DEF PushPair
  <2>2. QED
    BY <1>3, <2>1, RecordErrorKeeps DEF CmdPushDescriptorSet
<1>4. QED
  BY <1>1, <1>2, <1>3
     DEF CmdState, CmdBindPipeline, CmdPushConstants, CmdSetViewport, CmdSetScissor,
         CmdBindVertexBuffers, CmdBindIndexBuffer, CmdInertState, CmdStencil

\* The entry points that are for outside of passes.
LEMMA CmdOutsideKeeps ==
  ASSUME CommandsInv, NEW c \in Cmds, CmdOutside(c)
  PROVE  CommandsInv' /\ SharedListsStay
<1>1. ASSUME NEW k \in {"control", "transfer"}, Record(c, Simple(k)) \/ RecordError(c)
      PROVE  CommandsInv' /\ SharedListsStay
  <2>1. k \in (PassNames \cup PlainNames) \ {"push"}
    BY DEF PlainNames
  <2>2. QED
    BY <1>1, <2>1, SimpleKeeps
<1>2. CASE RecordBoth(c, Simple("control"), Simple("control"))
  <2>1. "control" \in PassNames \cup PlainNames
    BY DEF PlainNames
  <2>2. Simple("control") \in Recordable /\ Simple("control").k = "control"
    BY <2>1, SimpleIs
  <2>3. QED
    BY <1>2, <2>2, RecordBothKeeps
<1>3. QED
  BY <1>1, <1>2
     DEF CmdOutside, CmdDispatch, CmdPipelineBarrier, CmdBarrier2, CmdResetEvent, CmdSetEvent,
         CmdWaitEvents, CmdClearColorImage, CmdClearDepthImage, CmdCopyImageToBuffer, CmdCopyBuffer,
         CmdCopyBufferToImage, CmdCopyImage, CmdBlitImage, CmdUpdateBuffer, CmdFillBuffer

\* The entry points of passes.
LEMMA CmdPassKeeps ==
  ASSUME CommandsInv, NEW c \in Cmds, CmdPass(c)
  PROVE  CommandsInv' /\ SharedListsStay
<1>1. ASSUME NEW k \in PassNames \cup {"draw"}, Record(c, Simple(k)) \/ RecordError(c)
      PROVE  CommandsInv' /\ SharedListsStay
  <2>1. k \in (PassNames \cup PlainNames) \ {"push"}
    BY DEF PassNames, PlainNames
  <2>2. QED
    BY <1>1, <2>1, SimpleKeeps
<1>2. /\ "begin pass" \in PassNames /\ "begin rendering" \in PassNames /\ "next subpass" \in PassNames
      /\ "end pass" \in PassNames /\ "end rendering" \in PassNames
  BY DEF PassNames
<1>3. \/ \E k \in PassNames : Record(c, Simple(k)) \/ RecordError(c)
      \/ Record(c, Simple("draw")) \/ RecordError(c)
  BY <1>2 DEF CmdPass, CmdBeginRenderPass, CmdNextSubpass, CmdEndRenderPass, CmdBeginRendering,
              CmdEndRendering, CmdDraw, CmdDrawIndexed, CmdDrawIndirectEntries, CmdDrawIndirect,
              CmdClearAttachments
<1>4. QED
  BY <1>1, <1>3

\* The entry points of queries.
LEMMA CmdQueryKeeps ==
  ASSUME CommandsInv, NEW c \in Cmds, CmdQuery(c)
  PROVE  CommandsInv' /\ SharedListsStay
<1>1. ASSUME NEW k \in QueryNames, NEW q \in QueryPools, Record(c, Command(k, q))
      PROVE  CommandsInv' /\ SharedListsStay
  <2> DEFINE cmd == Command(k, q)
  <2>1. cmd \in Recordable /\ cmd.k = k
    BY CommandIs DEF Recordable, QueryCommands
  <2>2. k # "push" /\ k # "bind"
    BY DEF QueryNames
  <2>3. Record(c, cmd)
    BY <1>1
  <2> HIDE DEF cmd
  <2>4. QED
    BY <2>1, <2>2, <2>3, RecordKeeps
<1>2. /\ "reset query" \in QueryNames /\ "copy query" \in QueryNames /\ "timestamp" \in QueryNames
      /\ "begin query" \in QueryNames /\ "end query" \in QueryNames
  BY DEF QueryNames
<1>3. (\E k \in QueryNames, q \in QueryPools : Record(c, Command(k, q))) \/ RecordError(c)
  BY <1>2 DEF CmdQuery, CmdResetQueryPool, CmdWriteTimestamp, CmdCopyQueryPoolResults,
              CmdBeginQuery, CmdEndQuery
<1>4. QED
  BY <1>1, <1>3, RecordErrorKeeps

-----------------------------------------------------------------------------
(* Pools and buffers.                                                      *)

\* Buffers are freed.
LEMMA FreeKeeps ==
  ASSUME CommandsInv, NEW gone \in SUBSET Cmds,
         PutState(heap, [d \in Cmds |-> IF d \in gone THEN Freed ELSE cells[d]], packets),
         UNCHANGED <<versions, submits, early>>
  PROVE  CommandsInv' /\ SharedListsStay
<1> DEFINE cs == [d \in Cmds |-> IF d \in gone THEN Freed ELSE cells[d]]
<1>1. cells \in [Cmds -> CellStates] /\ versions \in [Sets -> Nat] /\ early \subseteq Cmds
  BY DEF CommandsInv, CommandsTypeOK
<1>2. Freed # None /\ ~Live(Freed) /\ Freed \in CellStates
  BY AbsentCommandsAssumption DEF Live, CellStates
<1>3. PutState(heap, cs, packets)
  OBVIOUS
<1>4. cs \in [Cmds -> CellStates] /\ \A d \in Cmds : cs[d] = IF d \in gone THEN Freed ELSE cells[d]
  BY <1>1, <1>2
<1> HIDE DEF cs
<1>5. ASSUME NEW d \in Cmds, Live(cs[d])
      PROVE  /\ Live(cells[d])
             /\ cs[d].commands = cells[d].commands /\ cs[d].begins = cells[d].begins
             /\ ~cs[d].error => Sound(cs[d], heap[cells[d].commands], versions')
  <2>1. cs[d] = cells[d]
    BY <1>2, <1>4, <1>5
  <2>2. QED
    BY <1>5, <2>1, LiveCells
<1>6. \A d \in Cmds : cells[d] # None => cs[d] # None
  BY <1>2, <1>4
<1>7. QED
  BY <1>1, <1>3, <1>4, <1>5, <1>6, RelabelKeeps

\* A step that leaves cells, lists and packets alone.
LEMMA NothingKeeps ==
  ASSUME CommandsInv, UNCHANGED <<cells, heap, versions, packets, early, submits>>
  PROVE  CommandsInv' /\ SharedListsStay
<1>1. CommandsTypeOK /\ CommandsTypeOK'
  BY DEF CommandsInv, CommandsTypeOK
<1>2. RecordingsSound' /\ SnapshotsFit'
  BY DEF CommandsInv, RecordingsSound, SnapshotsFit
<1>3. SharedListsStay
  BY DEF SharedListsStay
<1>4. QED
  BY <1>1, <1>2, <1>3 DEF CommandsInv

\* An empty recording.
LEMMA NewIs ==
  ASSUME NEW pool \in Pools, NEW a \in Addresses, NEW r, r = NewRecording(pool, a)
  PROVE  /\ r \in Recordings /\ r.commands = a /\ r.begins = 0 /\ r.state = "initial"
         /\ ~r.error /\ ~r.renderActive /\ ~r.renderDynamic
         /\ \A k \in Kinds : r.active[k] = None
<1>1. [k \in Kinds |-> None] \in [Kinds -> OpenQueries \cup {None}]
  OBVIOUS
<1>2. QED
  BY <1>1 DEF NewRecording, Recordings

\* An empty list is sound for it.
LEMMA EmptyIsSound ==
  ASSUME NEW r, NEW vs, ~r.renderActive, \A k \in Kinds : r.active[k] = None
  PROVE  << >> \in Lists /\ Sound(r, << >>, vs)
<1>1. AtOf(r) = "out" /\ OpenOf(r) = {}
  <2>1. OpenOf(r) = {}
    BY KindsOfQueries DEF OpenOf
  <2>2. QED
    BY <2>1 DEF AtOf
<1>2. WalkOf(r) = WalkStart
  <2>1. [q \in OpenOf(r) |-> r.active[KindOf[q]].inside] = [q \in {} |-> FALSE]
    BY <1>1
  <2>2. QED
    BY <1>1, <2>1, Zenon DEF WalkOf, WalkStart
<1>3. Walk(<< >>) = WalkOf(r)
  BY <1>2, WalkOfEmpty
<1>4. ActiveFits(r) /\ BindsCurrent(r, << >>, vs) /\ WholePushes(<< >>) /\ << >> \in Lists
  BY DEF ActiveFits, BindsCurrent, WholePushes, Lists
<1>5. QED
  BY <1>3, <1>4 DEF Sound

\* vkAllocateCommandBuffers.
LEMMA AllocateKeeps ==
  ASSUME CommandsInv, NEW p \in Pools, NEW c \in Cmds, AllocateCommandBuffers(p, c)
  PROVE  CommandsInv' /\ SharedListsStay
<1> DEFINE w == FreshAddress
           r == NewRecording(p, w)
<1>1. CommandsTypeOK /\ early \subseteq Cmds
  BY DEF CommandsInv, CommandsTypeOK
<1>2. FreeFor(c, w) /\ w \in Addresses
  BY <1>1, FreshIsFree, FreshIs
<1>3. /\ cells[c] = None /\ UNCHANGED <<versions, submits, early>>
      /\ PutState([heap EXCEPT ![w] = << >>], [cells EXCEPT ![c] = r], packets)
  BY DEF AllocateCommandBuffers
<1> HIDE DEF w
<1>4. /\ r \in Recordings /\ r.commands = w /\ ~r.renderActive
      /\ \A k \in Kinds : r.active[k] = None
  BY <1>2, NewIs
<1> HIDE DEF r
<1>5. << >> \in Lists /\ Sound(r, << >>, versions)
  BY <1>4, EmptyIsSound
<1>6. QED
  BY <1>1, <1>2, <1>3, <1>4, <1>5, RewriteKeeps

\* A reset keeps the pool and the number of recordings.
LEMMA ResetIs ==
  ASSUME NEW s \in Recordings, NEW a \in Addresses, NEW r, r = ResetRecording(s, a)
  PROVE  /\ r \in Recordings /\ r.commands = a /\ r.begins = s.begins
         /\ ~r.renderActive /\ ~r.error /\ \A k \in Kinds : r.active[k] = None
<1> DEFINE n == NewRecording(s.pool, a)
<1>1. /\ n \in Recordings /\ n.commands = a /\ ~n.error /\ ~n.renderActive
      /\ \A k \in Kinds : n.active[k] = None
  BY NewIs, RecordingFields
<1>2. r = [n EXCEPT !.begins = s.begins] /\ s.begins \in Nat
  BY RecordingFields DEF ResetRecording
<1> HIDE DEF n
<1>3. QED
  BY <1>1, <1>2 DEF Recordings

\* The buffers that were touched early stay known.
LEMMA TouchedIs ==
  ASSUME CommandsTypeOK, NEW c \in Cmds, Touched({c})
  PROVE  /\ early \subseteq early' /\ early' \subseteq Cmds
         /\ \A i \in 1..Len(packets) : \A j \in DOMAIN packets[i].recs :
              packets[i].recs[j].cmd = c => c \in early'
<1>1. early' = early \cup {d \in {c} : Pending(d)} /\ early \subseteq Cmds
  BY DEF Touched, CommandsTypeOK
<1>2. QED
  BY <1>1 DEF Pending

\* A reset, from a pool or by itself.
LEMMA ResetOneKeeps ==
  ASSUME CommandsInv, NEW c \in Cmds, Live(cells[c]), NEW release \in BOOLEAN,
         ResetOne(c, release), Touched({c}), UNCHANGED <<versions, submits>>
  PROVE  CommandsInv' /\ SharedListsStay
<1> DEFINE w == ResetAddress(cells[c], release)
           r == ResetRecording(cells[c], w)
<1>1. CommandsTypeOK /\ cells[c] \in Recordings
  BY LiveCells
<1>2. FreeFor(c, w)
  BY <1>1, WritesAreFree
<1>3. w \in Addresses
  BY <1>2 DEF FreeFor
<1>4. PutState([heap EXCEPT ![w] = << >>], [cells EXCEPT ![c] = r], packets)
  BY DEF ResetOne
<1> HIDE DEF w
<1>5. /\ r \in Recordings /\ r.commands = w /\ r.begins = cells[c].begins
      /\ ~r.renderActive /\ \A k \in Kinds : r.active[k] = None
  BY <1>1, <1>3, ResetIs
<1> HIDE DEF r
<1>6. << >> \in Lists /\ Sound(r, << >>, versions)
  BY <1>5, EmptyIsSound
<1>7. early \subseteq early' /\ early' \subseteq Cmds
  BY <1>1, TouchedIs
<1>8. QED
  BY <1>2, <1>4, <1>5, <1>6, <1>7, RewriteKeeps

\* vkBeginCommandBuffer.
LEMMA BeginKeeps ==
  ASSUME CommandsInv, NEW c \in Cmds, BeginCommandBuffer(c)
  PROVE  CommandsInv' /\ SharedListsStay
<1> DEFINE w == ResetAddress(cells[c], FALSE)
<1>1. Live(cells[c]) /\ Touched({c}) /\ UNCHANGED <<versions, submits>>
  BY DEF BeginCommandBuffer
<1>2. CommandsTypeOK /\ cells[c] \in Recordings
  BY <1>1, LiveCells
<1>3. FreeFor(c, w)
  BY <1>2, WritesAreFree
<1>4. w \in Addresses
  BY <1>3 DEF FreeFor
<1>5. PICK one \in BOOLEAN :
        PutState([heap EXCEPT ![w] = << >>],
                 [cells EXCEPT ![c] = [ResetRecording(cells[c], w) EXCEPT
                    !.state = "recording", !.oneTime = one, !.begins = @ + 1]], packets)
  BY DEF BeginCommandBuffer
<1> DEFINE s == ResetRecording(cells[c], w)
           r == [s EXCEPT !.state = "recording", !.oneTime = one, !.begins = @ + 1]
<1>6. PutState([heap EXCEPT ![w] = << >>], [cells EXCEPT ![c] = r], packets)
  BY <1>5
<1> HIDE DEF w
<1>7. /\ s \in Recordings /\ s.commands = w /\ ~s.renderActive
      /\ \A k \in Kinds : s.active[k] = None
  BY <1>2, <1>4, ResetIs
<1> HIDE DEF s
<1>8. s.begins + 1 \in Nat
  BY <1>7, RecordingFields
<1>9. r \in Recordings
  BY <1>7, <1>8 DEF Recordings
<1>10. /\ r.commands = w /\ ~r.renderActive
       /\ \A k \in Kinds : r.active[k] = None
  BY <1>7 DEF Recordings
<1> HIDE DEF r
<1>11. << >> \in Lists /\ Sound(r, << >>, versions)
  BY <1>10, EmptyIsSound
<1>12. /\ early \subseteq early' /\ early' \subseteq Cmds
       /\ \A i \in 1..Len(packets) : \A j \in DOMAIN packets[i].recs :
            packets[i].recs[j].cmd = c => c \in early'
  BY <1>1, <1>2, TouchedIs
<1>13. QED
  BY <1>1, <1>3, <1>6, <1>9, <1>10, <1>11, <1>12, RewriteKeeps

\* vkEndCommandBuffer.
LEMMA EndKeeps ==
  ASSUME CommandsInv, NEW c \in Cmds, EndCommandBuffer(c)
  PROVE  CommandsInv' /\ SharedListsStay
<1> DEFINE r == cells[c]
           e == Ended(r)
           cs == [cells EXCEPT ![c] = e]
<1>1. Live(r) /\ cells' = cs /\ UNCHANGED <<heap, packets, versions, submits, early>>
  BY DEF EndCommandBuffer
<1>2. r \in Recordings /\ (~r.error => Sound(r, heap[r.commands], versions))
  BY <1>1, LiveCells
<1>3. cells \in [Cmds -> CellStates] /\ versions \in [Sets -> Nat] /\ early \subseteq Cmds
  BY DEF CommandsInv, CommandsTypeOK
<1>4. e \in Recordings /\ e.commands = r.commands /\ e.begins = r.begins
  BY <1>2 DEF Ended, Recordings
<1>5. ASSUME ~e.error PROVE Sound(e, heap[r.commands], versions)
  <2>1. ~(r.error \/ r.state # "recording" \/ r.renderActive \/ \E k \in Kinds : r.active[k] # None)
    <3>1. SUFFICES ASSUME r.error \/ r.state # "recording" \/ r.renderActive \/ \E k \in Kinds : r.active[k] # None
                   PROVE  FALSE
      OBVIOUS
    <3>2. e = [r EXCEPT !.error = TRUE, !.state = "invalid"]
      BY <3>1 DEF Ended
    <3>3. e.error
      BY <1>2, <3>2 DEF Recordings
    <3>4. QED
      BY <1>5, <3>3
  <2>2. e = [r EXCEPT !.state = "executable"]
    BY <2>1 DEF Ended
  <2>3. /\ e.active = r.active /\ e.renderActive = r.renderActive
        /\ e.renderDynamic = r.renderDynamic /\ e.refs = r.refs
    BY <1>2, <2>2 DEF Recordings
  <2>4. Sound(r, heap[r.commands], versions)
    BY <1>2, <2>1
  <2> HIDE DEF e
  <2> DEFINE list == heap[r.commands]
  <2> HIDE DEF list
  <2>5. Sound(r, list, versions)
    BY <2>4 DEF list
  <2>6. ActiveFits(e) /\ BindsCurrent(e, list, versions) /\ WholePushes(list)
    BY <2>3, <2>5 DEF Sound, ActiveFits, BindsCurrent
  <2>7. WalkOf(e) = WalkOf(r)
    BY <2>3 DEF WalkOf, OpenOf, AtOf
  <2>8. Walk(list) = WalkOf(e)
    BY <2>5, <2>7 DEF Sound
  <2>9. ~e.renderActive /\ \A k \in Kinds : e.active[k] = None
    BY <2>1, <2>3
  <2>10. Sound(e, list, versions)
    BY <2>6, <2>8, <2>9 DEF Sound
  <2>11. QED
    BY <2>10 DEF list
<1>6. e # None
  BY <1>4, LiveStates DEF CellStates, Live
<1> HIDE DEF e
<1>7. cs \in [Cmds -> CellStates] /\ \A d \in Cmds : cs[d] = IF d = c THEN e ELSE cells[d]
  BY <1>3, <1>4 DEF CellStates
<1> HIDE DEF cs
<1>8. ASSUME NEW d \in Cmds, Live(cs[d])
      PROVE  /\ Live(cells[d])
             /\ cs[d].commands = cells[d].commands /\ cs[d].begins = cells[d].begins
             /\ ~cs[d].error => Sound(cs[d], heap[cells[d].commands], versions')
  <2>1. CASE d = c
    BY <1>1, <1>4, <1>5, <1>7, <2>1
  <2>2. CASE d # c
    <3>1. cs[d] = cells[d]
      BY <1>7, <2>2
    <3>2. QED
      BY <1>1, <1>8, <3>1, LiveCells
  <2>3. QED
    BY <2>1, <2>2
<1>9. \A d \in Cmds : cells[d] # None => cs[d] # None
  BY <1>6, <1>7
<1>10. QED
  BY <1>1, <1>3, <1>7, <1>8, <1>9, RelabelKeeps

\* What pools and buffers are managed with.
LEMMA ManageKeeps ==
  ASSUME CommandsInv, Manage
  PROVE  CommandsInv' /\ SharedListsStay
<1>1. ASSUME NEW p \in Pools, CreateCommandPool(p) PROVE CommandsInv' /\ SharedListsStay
  BY <1>1, NothingKeeps DEF CreateCommandPool
<1>2. ASSUME NEW p \in Pools, DestroyCommandPool(p) PROVE CommandsInv' /\ SharedListsStay
  <2>1. OfPool(p) \in SUBSET Cmds
    BY DEF OfPool
  <2>2. /\ PutState(heap, [d \in Cmds |-> IF d \in OfPool(p) THEN Freed ELSE cells[d]], packets)
        /\ UNCHANGED <<versions, submits, early>>
    BY <1>2 DEF DestroyCommandPool
  <2>3. QED
    BY <2>1, <2>2, FreeKeeps
<1>3. ASSUME NEW p \in Pools, NEW c \in Cmds, AllocateCommandBuffers(p, c)
      PROVE  CommandsInv' /\ SharedListsStay
  BY <1>3, AllocateKeeps
<1>4. ASSUME NEW p \in Pools, NEW c \in Cmds, FreeCommandBuffers(p, c)
      PROVE  CommandsInv' /\ SharedListsStay
  <2>1. cells \in [Cmds -> CellStates]
    BY DEF CommandsInv, CommandsTypeOK
  <2>2. [cells EXCEPT ![c] = Freed] = [d \in Cmds |-> IF d \in {c} THEN Freed ELSE cells[d]]
    BY <2>1
  <2>3. /\ PutState(heap, [d \in Cmds |-> IF d \in {c} THEN Freed ELSE cells[d]], packets)
        /\ UNCHANGED <<versions, submits, early>>
    BY <1>4, <2>2 DEF FreeCommandBuffers
  <2>4. QED
    BY <2>3, FreeKeeps
<1>5. ASSUME NEW p \in Pools, NEW c \in Cmds, ResetCommandPool(p, c)
      PROVE  CommandsInv' /\ SharedListsStay
  <2>1. Live(cells[c])
    BY <1>5 DEF ResetCommandPool, OfPool
  <2>2. QED
    BY <1>5, <2>1, ResetOneKeeps DEF ResetCommandPool
<1>6. ASSUME NEW c \in Cmds, ResetCommandBuffer(c) PROVE CommandsInv' /\ SharedListsStay
  BY <1>6, ResetOneKeeps DEF ResetCommandBuffer
<1>7. ASSUME NEW c \in Cmds, BeginCommandBuffer(c) PROVE CommandsInv' /\ SharedListsStay
  BY <1>7, BeginKeeps
<1>8. ASSUME NEW c \in Cmds, EndCommandBuffer(c) PROVE CommandsInv' /\ SharedListsStay
  BY <1>8, EndKeeps
<1>9. QED
  BY <1>1, <1>2, <1>3, <1>4, <1>5, <1>6, <1>7, <1>8, Zenon DEF Manage


-----------------------------------------------------------------------------
(* Invalidation, submission and the queue thread.                          *)

\* An update of a set: what is still without an error does not bind the set.
LEMMA UpdateKeeps ==
  ASSUME CommandsInv, NEW s \in Sets, UpdateDescriptors(s)
  PROVE  CommandsInv' /\ SharedListsStay
<1> DEFINE cs == [c \in Cmds |-> Invalidated(cells[c], s)]
<1>1. /\ cells' = cs /\ versions' = [versions EXCEPT ![s] = @ + 1]
      /\ UNCHANGED <<heap, packets, early, submits>>
  BY DEF UpdateDescriptors
<1>2. cells \in [Cmds -> CellStates] /\ versions \in [Sets -> Nat] /\ early \subseteq Cmds
  BY DEF CommandsInv, CommandsTypeOK
<1>3. versions' \in [Sets -> Nat] /\ \A t \in Sets \ {s} : versions'[t] = versions[t]
  BY <1>1, <1>2
<1>4. \A d \in Cmds : cs[d] = Invalidated(cells[d], s)
  OBVIOUS
<1>5. ASSUME NEW d \in Cmds
      PROVE  /\ Invalidated(cells[d], s) \in CellStates
             /\ cells[d] # None => Invalidated(cells[d], s) # None
             /\ Live(Invalidated(cells[d], s)) =>
                  /\ Live(cells[d])
                  /\ Invalidated(cells[d], s).commands = cells[d].commands
                  /\ Invalidated(cells[d], s).begins = cells[d].begins
                  /\ ~Invalidated(cells[d], s).error =>
                       Sound(Invalidated(cells[d], s), heap[cells[d].commands], versions')
  <2>1. CASE ~Live(cells[d])
    BY <1>2, <2>1 DEF Invalidated
  <2>2. CASE Live(cells[d]) /\ s \notin cells[d].refs
    <3>1. Invalidated(cells[d], s) = cells[d]
      BY <2>2 DEF Invalidated
    <3>2. ~cells[d].error => Sound(cells[d], heap[cells[d].commands], versions)
      BY <2>2, LiveCells
    <3>3. cells[d].refs \in SUBSET Sets
      BY <2>2, LiveCells, RecordingFields
    <3>4. ASSUME ~cells[d].error PROVE Sound(cells[d], heap[cells[d].commands], versions')
      <4> DEFINE r == cells[d]
                 list == heap[r.commands]
      <4>1. Sound(r, list, versions)
        BY <3>2, <3>4
      <4>2. r.refs \in SUBSET Sets /\ s \notin r.refs
        BY <2>2, <3>3
      <4> HIDE DEF r, list
      <4>3. BindsCurrent(r, list, versions)
        BY <4>1 DEF Sound
      <4>4. BindsCurrent(r, list, versions')
        BY <1>3, <4>2, <4>3 DEF BindsCurrent
      <4>5. Sound(r, list, versions')
        BY <4>1, <4>4 DEF Sound
      <4>6. QED
        BY <4>5 DEF r, list
    <3>5. QED
      BY <1>2, <2>2, <3>1, <3>4
  <2>3. CASE Live(cells[d]) /\ s \in cells[d].refs
    <3> DEFINE r == cells[d]
               v == Invalidated(r, s)
    <3>1. r \in Recordings
      BY <2>3, LiveCells
    <3>2. v = [WithError(r) EXCEPT !.state = IF @ = "executable" THEN "invalid" ELSE @]
      BY <2>3 DEF Invalidated
    <3> HIDE DEF r
    <3>3. v \in Recordings /\ v.error /\ v.commands = r.commands /\ v.begins = r.begins
      BY <3>1, <3>2 DEF Recordings, WithError
    <3>4. v \in CellStates /\ v # None
      BY <3>3, AbsentCommandsAssumption DEF CellStates
    <3>5. QED
      BY <2>3, <3>3, <3>4 DEF r
  <2>4. QED
    BY <2>1, <2>2, <2>3
<1>6. cs \in [Cmds -> CellStates]
  BY <1>5
<1> HIDE DEF cs
<1>7. \A d \in Cmds : cells[d] # None => cs[d] # None
  BY <1>4, <1>5
<1>8. ASSUME NEW d \in Cmds, Live(cs[d])
      PROVE  /\ Live(cells[d])
             /\ cs[d].commands = cells[d].commands /\ cs[d].begins = cells[d].begins
             /\ ~cs[d].error => Sound(cs[d], heap[cells[d].commands], versions')
  BY <1>4, <1>5, <1>8
<1>9. QED
  BY <1>1, <1>2, <1>3, <1>6, <1>7, <1>8, RelabelKeeps

\* What a snapshot in a packet must say of its buffer.
Fits(s) ==
  /\ cells[s.cmd] # None
  /\ Live(cells[s.cmd]) => s.cmd \in early \/ s.begins = cells[s.cmd].begins

\* Packets change, recordings become invalid, and every list stays.
LEMMA QueueKeeps ==
  ASSUME CommandsInv, NEW cs \in [Cmds -> CellStates], NEW ps \in Seq(PacketRecords),
         PutState(heap, cs, ps) \/ (cells' = cs /\ packets' = ps /\ heap' = heap),
         UNCHANGED <<versions, early>>,
         submits' \in Nat, Len(ps) <= submits', submits' <= MaxSubmits,
         \A d \in Cmds : cells[d] # None => cs[d] # None,
         \A d \in Cmds : Live(cs[d]) =>
           /\ Live(cells[d])
           /\ cs[d].commands = cells[d].commands /\ cs[d].begins = cells[d].begins
           /\ ~cs[d].error => Sound(cs[d], heap[cells[d].commands], versions),
         \A i \in 1..Len(ps) : \A j \in DOMAIN ps[i].recs :
           ps[i].recs[j].cmd \in Cmds /\ Fits(ps[i].recs[j])
  PROVE  CommandsInv' /\ SharedListsStay
<1>1. /\ heap \in [Addresses -> Lists] /\ CommandsTypeOK
      /\ versions \in [Sets -> Nat] /\ early \subseteq Cmds
  BY DEF CommandsInv, CommandsTypeOK
<1>2. /\ cells' = cs /\ packets' = ps /\ heap' \in [Addresses -> Lists]
      /\ \A a \in Addresses : heap'[a] = heap[a] \/ a \notin Referenced(cells', packets')
      /\ \A d \in Cmds : Live(cs[d]) => heap'[cs[d].commands] = heap[cs[d].commands]
  <2>1. CASE PutState(heap, cs, ps)
    BY <1>1, <2>1, PutKeeps
  <2>2. CASE cells' = cs /\ packets' = ps /\ heap' = heap
    BY <1>1, <2>2
  <2>3. QED
    BY <2>1, <2>2
<1>3. CommandsTypeOK'
  BY <1>1, <1>2 DEF CommandsTypeOK
<1>4. RecordingsSound'
  BY <1>2 DEF RecordingsSound
<1>5. SnapshotsFit'
  <2>1. ASSUME NEW i \in 1..Len(ps), NEW j \in DOMAIN ps[i].recs
        PROVE  LET s == ps[i].recs[j] IN
               /\ cs[s.cmd] # None
               /\ Live(cs[s.cmd]) => s.cmd \in early \/ s.begins = cs[s.cmd].begins
    <3> DEFINE s == ps[i].recs[j]
    <3>1. s.cmd \in Cmds /\ Fits(s)
      OBVIOUS
    <3>2. QED
      BY <3>1 DEF Fits
  <2>2. QED
    BY <1>2, <2>1 DEF SnapshotsFit
<1>6. SharedListsStay
  BY <1>1, <1>2, NoListChanges
<1>7. QED
  BY <1>3, <1>4, <1>5, <1>6 DEF CommandsInv

\* What is known of the packets there are.
LEMMA PacketsFit ==
  ASSUME CommandsInv
  PROVE  /\ packets \in Seq(PacketRecords) /\ Len(packets) \in Nat
         /\ cells \in [Cmds -> CellStates]
         /\ submits \in Nat /\ Len(packets) <= submits /\ submits <= MaxSubmits
         /\ \A i \in 1..Len(packets) : \A j \in DOMAIN packets[i].recs :
              packets[i].recs[j].cmd \in Cmds /\ Fits(packets[i].recs[j])
         /\ \A d \in Cmds : Live(cells[d]) /\ ~cells[d].error =>
              Sound(cells[d], heap[cells[d].commands], versions)
<1>1. /\ CommandsTypeOK /\ packets \in Seq(PacketRecords) /\ Len(packets) \in Nat
      /\ cells \in [Cmds -> CellStates]
      /\ submits \in Nat /\ Len(packets) <= submits /\ submits <= MaxSubmits
  BY DEF CommandsInv, CommandsTypeOK
<1>2. ASSUME NEW i \in 1..Len(packets), NEW j \in DOMAIN packets[i].recs
      PROVE  packets[i].recs[j].cmd \in Cmds /\ Fits(packets[i].recs[j])
  <2>1. packets[i].recs[j].cmd \in Cmds
    BY <1>1, PacketFields, SnapshotFields
  <2>2. QED
    BY <2>1 DEF CommandsInv, SnapshotsFit, Fits
<1>3. QED
  BY <1>1, <1>2, LiveCells

\* vkQueueSubmit takes buffers that are there, as they are.
LEMMA SubmitKeeps ==
  ASSUME CommandsInv, NEW cs \in [1..1 -> Cmds] \cup [1..2 -> Cmds], QueueSubmit(cs)
  PROVE  CommandsInv' /\ SharedListsStay
<1> DEFINE p == [phase |-> "queued", recs |-> [i \in DOMAIN cs |-> SnapshotOf(cs[i])]]
           ps == Append(packets, p)
<1>1. /\ packets' = ps /\ UNCHANGED <<cells, heap, versions, early>>
      /\ submits < MaxSubmits /\ submits' = submits + 1
      /\ \A i \in DOMAIN cs : Submittable(cs[i])
  BY DEF QueueSubmit
<1>2. MaxSubmits \in Nat
  BY CommandsAssumption
<1>3. DOMAIN cs = 1..1 \/ DOMAIN cs = 1..2
  OBVIOUS
<1>4. \A i \in DOMAIN cs : cs[i] \in Cmds
  OBVIOUS
<1>5. ASSUME NEW i \in DOMAIN cs
      PROVE  /\ SnapshotOf(cs[i]) \in Snapshots /\ SnapshotOf(cs[i]).cmd \in Cmds
             /\ Fits(SnapshotOf(cs[i]))
  <2>1. cs[i] \in Cmds /\ Live(cells[cs[i]])
    BY <1>1, <1>4 DEF Submittable
  <2>2. cells[cs[i]].commands \in Addresses /\ cells[cs[i]].begins \in Nat
    BY <2>1, LiveCells, RecordingFields
  <2>3. QED
    BY <2>1, <2>2 DEF SnapshotOf, Snapshots, Fits, Live
<1>6. p.recs \in [1..1 -> Snapshots] \cup [1..2 -> Snapshots]
  BY <1>3, <1>5
<1>7. p \in PacketRecords
  BY <1>6 DEF PacketRecords
<1>8. /\ packets \in Seq(PacketRecords) /\ Len(packets) \in Nat
      /\ cells \in [Cmds -> CellStates]
      /\ submits \in Nat /\ Len(packets) <= submits
      /\ \A i \in 1..Len(packets) : \A j \in DOMAIN packets[i].recs :
           packets[i].recs[j].cmd \in Cmds /\ Fits(packets[i].recs[j])
      /\ \A d \in Cmds : Live(cells[d]) /\ ~cells[d].error =>
           Sound(cells[d], heap[cells[d].commands], versions)
  BY PacketsFit
<1>9. \A j \in DOMAIN p.recs : p.recs[j].cmd \in Cmds /\ Fits(p.recs[j])
  BY <1>5
<1> HIDE DEF p
<1>10. /\ ps \in Seq(PacketRecords) /\ Len(ps) = Len(packets) + 1
       /\ \A i \in 1..Len(ps) : ps[i] = IF i = Len(packets) + 1 THEN p ELSE packets[i]
  BY <1>7, <1>8
<1> HIDE DEF ps
<1>11. ASSUME NEW i \in 1..Len(ps), NEW j \in DOMAIN ps[i].recs
       PROVE  ps[i].recs[j].cmd \in Cmds /\ Fits(ps[i].recs[j])
  <2>1. CASE i = Len(packets) + 1
    BY <1>9, <1>10, <2>1
  <2>2. CASE i # Len(packets) + 1
    <3>1. i \in 1..Len(packets) /\ ps[i] = packets[i]
      BY <1>8, <1>10, <2>2
    <3>2. QED
      BY <1>8, <3>1
  <2>3. QED
    BY <2>1, <2>2
<1>12. submits' \in Nat /\ Len(ps) <= submits' /\ submits' <= MaxSubmits
  BY <1>1, <1>2, <1>8, <1>10
<1>13. cells' = cells /\ packets' = ps /\ heap' = heap /\ UNCHANGED <<versions, early>>
  BY <1>1
<1>14. QED
  BY <1>8, <1>10, <1>11, <1>12, <1>13, QueueKeeps

\* The phase of the first packet changes, and its snapshots do not.
LEMMA PhaseIs ==
  ASSUME CommandsInv, packets # << >>, NEW phase \in {"queued", "executed", "invalidated"},
         NEW ps, ps = [packets EXCEPT ![1].phase = phase]
  PROVE  /\ ps \in Seq(PacketRecords) /\ Len(ps) = Len(packets)
         /\ \A i \in 1..Len(ps) : ps[i].recs = packets[i].recs
<1>1. packets \in Seq(PacketRecords) /\ Len(packets) \in Nat
  BY PacketsFit
<1>2. 1 \in 1..Len(packets)
  BY <1>1
<1>3. packets[1] \in PacketRecords
  BY <1>1, <1>2
<1> DEFINE p == [packets[1] EXCEPT !.phase = phase]
<1>4. p \in PacketRecords /\ p.recs = packets[1].recs
  BY <1>3 DEF PacketRecords
<1>5. ps = [packets EXCEPT ![1] = p]
  OBVIOUS
<1> HIDE DEF p
<1>6. /\ ps \in Seq(PacketRecords) /\ Len(ps) = Len(packets)
      /\ \A i \in 1..Len(ps) : ps[i] = IF i = 1 THEN p ELSE packets[i]
  BY <1>1, <1>2, <1>4, <1>5
<1>7. QED
  BY <1>4, <1>6

\* The worker runs a packet, or loses the device.
LEMMA ExecuteKeeps ==
  ASSUME CommandsInv, ExecutePacket
  PROVE  CommandsInv' /\ SharedListsStay
<1>1. UNCHANGED <<versions, early, submits>> /\ packets # << >>
  BY DEF ExecutePacket
<1>2. /\ packets \in Seq(PacketRecords) /\ Len(packets) \in Nat
      /\ cells \in [Cmds -> CellStates]
      /\ submits \in Nat /\ Len(packets) <= submits /\ submits <= MaxSubmits
      /\ \A i \in 1..Len(packets) : \A j \in DOMAIN packets[i].recs :
           packets[i].recs[j].cmd \in Cmds /\ Fits(packets[i].recs[j])
      /\ \A d \in Cmds : Live(cells[d]) /\ ~cells[d].error =>
           Sound(cells[d], heap[cells[d].commands], versions)
  BY PacketsFit
<1>3. CASE PutState(heap, cells, [packets EXCEPT ![1].phase = "executed"])
  <2> DEFINE ps == [packets EXCEPT ![1].phase = "executed"]
  <2>1. /\ ps \in Seq(PacketRecords) /\ Len(ps) = Len(packets)
        /\ \A i \in 1..Len(ps) : ps[i].recs = packets[i].recs
    BY <1>1, PhaseIs
  <2>2. PutState(heap, cells, ps)
    BY <1>3
  <2> HIDE DEF ps
  <2>3. \A i \in 1..Len(ps) : \A j \in DOMAIN ps[i].recs :
          ps[i].recs[j].cmd \in Cmds /\ Fits(ps[i].recs[j])
    BY <1>2, <2>1
  <2>4. submits' \in Nat /\ Len(ps) <= submits' /\ submits' <= MaxSubmits
    BY <1>1, <1>2, <2>1
  <2>5. QED
    BY <1>1, <1>2, <2>1, <2>2, <2>3, <2>4, QueueKeeps
<1>4. CASE PutState(heap, cells, << >>)
  <2> DEFINE ps == << >>
  <2>1. ps \in Seq(PacketRecords) /\ Len(ps) = 0
    OBVIOUS
  <2>2. PutState(heap, cells, ps)
    BY <1>4
  <2> HIDE DEF ps
  <2>3. \A i \in 1..Len(ps) : \A j \in DOMAIN ps[i].recs :
          ps[i].recs[j].cmd \in Cmds /\ Fits(ps[i].recs[j])
    BY <2>1
  <2>4. submits' \in Nat /\ Len(ps) <= submits' /\ submits' <= MaxSubmits
    BY <1>1, <1>2, <2>1
  <2>5. QED
    BY <1>1, <1>2, <2>1, <2>2, <2>3, <2>4, QueueKeeps
<1>5. QED
  BY <1>3, <1>4 DEF ExecutePacket

\* A one-time recording that ran.
Spent(r) == [r EXCEPT !.state = "invalid"]

\* It is invalid, and otherwise what it was.
LEMMA SpentIs ==
  ASSUME NEW r \in Recordings
  PROVE  /\ Spent(r) \in Recordings /\ Spent(r).state = "invalid" /\ Spent(r).error = r.error
         /\ Spent(r).commands = r.commands /\ Spent(r).begins = r.begins
         /\ \A list, vs : Sound(r, list, vs) => Sound(Spent(r), list, vs)
<1> DEFINE e == Spent(r)
<1>1. e \in Recordings
  BY DEF Spent, Recordings
<1>2. /\ e.state = "invalid" /\ e.error = r.error
      /\ e.commands = r.commands /\ e.begins = r.begins
      /\ e.active = r.active /\ e.renderActive = r.renderActive
      /\ e.renderDynamic = r.renderDynamic /\ e.refs = r.refs
  BY DEF Spent, Recordings
<1> HIDE DEF e
<1>3. ASSUME NEW list, NEW vs, Sound(r, list, vs) PROVE Sound(e, list, vs)
  <2>1. ActiveFits(e) /\ BindsCurrent(e, list, vs) /\ WholePushes(list)
    BY <1>2, <1>3 DEF Sound, ActiveFits, BindsCurrent
  <2>2. WalkOf(e) = WalkOf(r)
    BY <1>2 DEF WalkOf, OpenOf, AtOf
  <2>3. Walk(list) = WalkOf(e)
    BY <1>3, <2>2 DEF Sound
  <2>4. e.state # "executable"
    BY <1>2
  <2>5. QED
    BY <2>1, <2>3, <2>4 DEF Sound
<1>4. QED
  BY <1>1, <1>2, <1>3 DEF e

\* The originals are spent.
LEMMA OriginalsKeep ==
  ASSUME CommandsInv, InvalidateOriginals
  PROVE  CommandsInv' /\ SharedListsStay
<1> DEFINE hit(c) == c \in Originals /\ Live(cells[c]) /\ cells[c].oneTime
           cs == [c \in Cmds |-> IF hit(c) THEN Spent(cells[c]) ELSE cells[c]]
           ps == [packets EXCEPT ![1].phase = "invalidated"]
<1>1. /\ packets # << >> /\ UNCHANGED <<heap, versions, early, submits>>
      /\ cells' = cs /\ packets' = ps
  BY DEF InvalidateOriginals, Spent
<1>2. /\ cells \in [Cmds -> CellStates] /\ Len(packets) \in Nat
      /\ submits \in Nat /\ Len(packets) <= submits /\ submits <= MaxSubmits
      /\ \A i \in 1..Len(packets) : \A j \in DOMAIN packets[i].recs :
           packets[i].recs[j].cmd \in Cmds /\ Fits(packets[i].recs[j])
  BY PacketsFit
<1>3. /\ ps \in Seq(PacketRecords) /\ Len(ps) = Len(packets)
      /\ \A i \in 1..Len(ps) : ps[i].recs = packets[i].recs
  BY <1>1, PhaseIs
<1> HIDE DEF ps
<1>4. ASSUME NEW d \in Cmds
      PROVE  /\ cs[d] \in CellStates
             /\ cells[d] # None => cs[d] # None
             /\ Live(cs[d]) =>
                  /\ Live(cells[d])
                  /\ cs[d].commands = cells[d].commands /\ cs[d].begins = cells[d].begins
                  /\ ~cs[d].error => Sound(cs[d], heap[cells[d].commands], versions)
  <2>1. CASE hit(d)
    <3>1. cs[d] = Spent(cells[d]) /\ Live(cells[d])
      BY <2>1
    <3>2. /\ cells[d] \in Recordings
          /\ ~cells[d].error => Sound(cells[d], heap[cells[d].commands], versions)
      BY <3>1, LiveCells
    <3> DEFINE r == cells[d]
               list == heap[r.commands]
    <3>3. r \in Recordings /\ (~r.error => Sound(r, list, versions))
      BY <3>2
    <3> HIDE DEF r, list
    <3>4. /\ Spent(r) \in Recordings /\ Spent(r).error = r.error
          /\ Spent(r).commands = r.commands /\ Spent(r).begins = r.begins
          /\ ~r.error => Sound(Spent(r), list, versions)
      BY <3>3, SpentIs
    <3>5. Spent(r) \in CellStates /\ Spent(r) # None
      BY <3>4, AbsentCommandsAssumption DEF CellStates
    <3> HIDE DEF cs
    <3>6. QED
      BY <3>1, <3>4, <3>5 DEF r, list
  <2>2. CASE ~hit(d)
    <3>1. cs[d] = cells[d]
      BY <2>2
    <3> HIDE DEF cs
    <3>2. QED
      BY <1>2, <3>1, LiveCells
  <2>3. QED
    BY <2>1, <2>2
<1>5. cs \in [Cmds -> CellStates]
  BY <1>4
<1> HIDE DEF cs
<1>6. \A i \in 1..Len(ps) : \A j \in DOMAIN ps[i].recs :
        ps[i].recs[j].cmd \in Cmds /\ Fits(ps[i].recs[j])
  BY <1>2, <1>3
<1>7. submits' \in Nat /\ Len(ps) <= submits' /\ submits' <= MaxSubmits
  BY <1>1, <1>2, <1>3
<1>8. cells' = cs /\ packets' = ps /\ heap' = heap /\ UNCHANGED <<versions, early>>
  BY <1>1
<1>9. QED
  BY <1>3, <1>4, <1>5, <1>6, <1>7, <1>8, QueueKeeps

\* The fence observes a packet.
LEMMA ObserveKeeps ==
  ASSUME CommandsInv, ObservePacket
  PROVE  CommandsInv' /\ SharedListsStay
<1> DEFINE ps == Tail(packets)
<1>1. /\ packets # << >> /\ packets' = ps
      /\ UNCHANGED <<cells, heap, versions, early, submits>>
  BY DEF ObservePacket
<1>2. /\ packets \in Seq(PacketRecords) /\ Len(packets) \in Nat
      /\ cells \in [Cmds -> CellStates]
      /\ submits \in Nat /\ Len(packets) <= submits /\ submits <= MaxSubmits
      /\ \A i \in 1..Len(packets) : \A j \in DOMAIN packets[i].recs :
           packets[i].recs[j].cmd \in Cmds /\ Fits(packets[i].recs[j])
      /\ \A d \in Cmds : Live(cells[d]) /\ ~cells[d].error =>
           Sound(cells[d], heap[cells[d].commands], versions)
  BY PacketsFit
<1>3. /\ ps \in Seq(PacketRecords) /\ Len(ps) = Len(packets) - 1
      /\ \A i \in 1..Len(ps) : ps[i] = packets[i + 1] /\ i + 1 \in 1..Len(packets)
  BY <1>1, <1>2
<1> HIDE DEF ps
<1>4. ASSUME NEW i \in 1..Len(ps), NEW j \in DOMAIN ps[i].recs
      PROVE  ps[i].recs[j].cmd \in Cmds /\ Fits(ps[i].recs[j])
  <2>1. ps[i] = packets[i + 1] /\ i + 1 \in 1..Len(packets)
    BY <1>3
  <2>2. j \in DOMAIN packets[i + 1].recs
    BY <2>1
  <2>3. packets[i + 1].recs[j].cmd \in Cmds /\ Fits(packets[i + 1].recs[j])
    BY <1>2, <2>1, <2>2
  <2>4. QED
    BY <2>1, <2>3
<1>5. submits' \in Nat /\ Len(ps) <= submits' /\ submits' <= MaxSubmits
  BY <1>1, <1>2, <1>3
<1>6. cells' = cells /\ packets' = ps /\ heap' = heap /\ UNCHANGED <<versions, early>>
  BY <1>1
<1>7. QED
  BY <1>2, <1>3, <1>4, <1>5, <1>6, QueueKeeps

\* A set goes into one that is no smaller.
LEMMA InjectionExists ==
  ASSUME NEW S, NEW T, IsFiniteSet(S), IsFiniteSet(T), Cardinality(S) <= Cardinality(T)
  PROVE  \E f : f \in Injection(S, T)
<1> DEFINE n == Cardinality(S)
           m == Cardinality(T)
<1>1. n \in Nat /\ m \in Nat /\ n <= m
  BY FS_CardinalityType
<1>2. ExistsBijection(1..n, S) /\ ExistsBijection(1..m, T)
  BY FS_CardinalityType
<1> HIDE DEF n, m
<1>3. PICK g : /\ g \in [1..n -> S]
               /\ \A s \in S : \E i \in 1..n : g[i] = s
  BY <1>2 DEF ExistsBijection, Bijection, Surjection
<1>4. PICK h : /\ h \in [1..m -> T]
               /\ \A i, j \in 1..m : h[i] = h[j] => i = j
  BY <1>2 DEF ExistsBijection, Bijection, Injection, IsInjective
<1> DEFINE at(s) == CHOOSE i \in 1..n : g[i] = s
           f == [s \in S |-> h[at(s)]]
<1>5. ASSUME NEW s \in S PROVE at(s) \in 1..n /\ at(s) \in 1..m /\ g[at(s)] = s
  <2>1. \E i \in 1..n : g[i] = s
    BY <1>3
  <2>2. at(s) \in 1..n /\ g[at(s)] = s
    BY <2>1
  <2>3. QED
    BY <1>1, <2>2
<1> HIDE DEF at
<1>6. f \in [S -> T]
  BY <1>4, <1>5
<1>7. ASSUME NEW s \in S, NEW t \in S, f[s] = f[t] PROVE s = t
  <2>1. at(s) = at(t)
    BY <1>4, <1>5, <1>7
  <2>2. QED
    BY <1>5, <2>1
<1> HIDE DEF f
<1>8. f \in Injection(S, T)
  BY <1>6, <1>7 DEF Injection, IsInjective
<1>9. QED
  BY <1>8

\* Without packets, every cell that must have a new list gets one.
LEMMA RoomForNew ==
  ASSUME CommandsInv, packets = << >>, NEW hit \in SUBSET Cmds
  PROVE  \E f : f \in Injection(hit, Addresses \ Referenced(cells, packets))
<1> DEFINE R == Referenced(cells, packets)
           F == Addresses \ R
           g == [a \in R |-> CHOOSE c \in Cmds : c \in CellRefs(cells, a)]
<1>1. /\ IsFiniteSet(Addresses) /\ IsFiniteSet(Cmds)
      /\ Cardinality(Addresses) >= 2 * Cardinality(Cmds)
  BY CommandsAssumption
<1>2. R \subseteq Addresses
  BY DEF Referenced
<1>3. ASSUME NEW a \in R PROVE g[a] \in Cmds /\ g[a] \in CellRefs(cells, a)
  <2>1. PacketRefs(packets, a) = {}
    <3>1. Len(packets) = 0
      OBVIOUS
    <3>2. 1..Len(packets) = {}
      BY <3>1
    <3>3. QED
      BY <3>2 DEF PacketRefs
  <2>2. \E c \in Cmds : c \in CellRefs(cells, a)
    BY <1>3, <2>1 DEF Referenced, CellRefs
  <2>3. QED
    BY <2>2
<1>4. g \in [R -> Cmds]
  BY <1>3
<1>5. ASSUME NEW a \in R, NEW b \in R, g[a] = g[b] PROVE a = b
  BY <1>3, <1>5 DEF CellRefs
<1> HIDE DEF g
<1>6. g \in Injection(R, Cmds)
  BY <1>4, <1>5 DEF Injection, IsInjective
<1> HIDE DEF R
<1>7. IsFiniteSet(R) /\ Cardinality(R) <= Cardinality(Cmds)
  BY <1>1, <1>6, FS_Injection
<1>8. IsFiniteSet(F) /\ Cardinality(F) = Cardinality(Addresses) - Cardinality(Addresses \cap R)
  BY <1>1, FS_Difference
<1>9. Addresses \cap R = R
  BY <1>2
<1>10. IsFiniteSet(hit) /\ Cardinality(hit) <= Cardinality(Cmds)
  BY <1>1, FS_Subset
<1>11. /\ Cardinality(R) \in Nat /\ Cardinality(Cmds) \in Nat /\ Cardinality(Addresses) \in Nat
       /\ Cardinality(hit) \in Nat
  BY <1>1, <1>7, <1>10, FS_CardinalityType
<1>12. Cardinality(F) = Cardinality(Addresses) - Cardinality(R)
  BY <1>8, <1>9
<1> HIDE DEF F
<1>13. Cardinality(hit) <= Cardinality(F)
  BY <1>1, <1>7, <1>10, <1>11, <1>12
<1>14. \E f : f \in Injection(hit, F)
  BY <1>8, <1>10, <1>13, InjectionExists
<1>15. QED
  BY <1>14 DEF F, R

\* A recording that lost its commands.
Emptied(r, a) == [WithError(r) EXCEPT !.state = "invalid", !.refs = {}, !.commands = a]

\* It is one, with an error.
LEMMA EmptiedIs ==
  ASSUME NEW r \in Recordings, NEW a \in Addresses
  PROVE  Emptied(r, a) \in Recordings /\ Emptied(r, a).error
BY DEF Emptied, WithError, Recordings

\* The worker replaces the table when no packet is left.
LEMMA TableKeeps ==
  ASSUME CommandsInv, InvalidateResourceRecordings
  PROVE  CommandsInv' /\ SharedListsStay
<1> DEFINE hit == {c \in Cmds : Live(cells[c]) /\ heap[cells[c].commands] # <<>>}
           free == Addresses \ Referenced(cells, packets)
           to == CHOOSE f \in Injection(hit, free) : TRUE
           h == [a \in Addresses |-> IF a \in {to[c] : c \in hit} THEN <<>> ELSE heap[a]]
           cs == [c \in Cmds |-> IF c \in hit THEN Emptied(cells[c], to[c]) ELSE cells[c]]
<1>1. /\ packets = << >> /\ UNCHANGED <<versions, early, submits>>
      /\ PutState(h, cs, packets)
  BY DEF InvalidateResourceRecordings, Emptied
<1>2. hit \in SUBSET Cmds /\ \A c \in hit : Live(cells[c])
  OBVIOUS
<1>3. to \in Injection(hit, free)
  <2>1. \E f : f \in Injection(hit, free)
    BY <1>1, <1>2, RoomForNew
  <2>2. QED
    BY <2>1
<1> HIDE DEF hit, to
<1>4. \A c \in hit : to[c] \in free
  BY <1>3 DEF Injection
<1>5. /\ heap \in [Addresses -> Lists] /\ cells \in [Cmds -> CellStates] /\ CommandsTypeOK
      /\ versions \in [Sets -> Nat] /\ early \subseteq Cmds
      /\ submits \in Nat /\ submits <= MaxSubmits
  BY DEF CommandsInv, CommandsTypeOK
<1>6. /\ h \in [Addresses -> Lists]
      /\ \A a \in Addresses : a \notin free => h[a] = heap[a]
  <2>1. << >> \in Lists
    BY DEF Lists
  <2>2. QED
    BY <1>4, <1>5, <2>1
<1>7. ASSUME NEW c \in hit PROVE Emptied(cells[c], to[c]) \in Recordings /\ Emptied(cells[c], to[c]).error
  <2>1. cells[c] \in Recordings /\ to[c] \in Addresses
    BY <1>2, <1>4, LiveCells
  <2>2. QED
    BY <2>1, EmptiedIs
<1>8. \A d \in Cmds : cs[d] = IF d \in hit THEN Emptied(cells[d], to[d]) ELSE cells[d]
  OBVIOUS
<1>9. cs \in [Cmds -> CellStates]
  BY <1>5, <1>7 DEF CellStates
<1> HIDE DEF h, cs
<1>10. /\ cells' = cs /\ packets' = packets /\ heap' \in [Addresses -> Lists]
       /\ \A d \in Cmds : Live(cs[d]) => heap'[cs[d].commands] = h[cs[d].commands]
  BY <1>1, <1>6, <1>9, PutKeeps
<1>11. packets \in Seq(PacketRecords) /\ Len(packets) = 0
  BY <1>1
<1>12. CommandsTypeOK'
  BY <1>1, <1>5, <1>9, <1>10, <1>11 DEF CommandsTypeOK
<1>13. ASSUME NEW d \in Cmds, Live(cs[d]), ~cs[d].error
       PROVE  Sound(cs[d], heap'[cs[d].commands], versions)
  <2>1. d \notin hit
    BY <1>7, <1>8, <1>13
  <2>2. cs[d] = cells[d]
    BY <1>8, <2>1
  <2>3. Live(cells[d]) /\ ~cells[d].error
    BY <1>13, <2>2
  <2>4. /\ cells[d].commands \in Addresses
        /\ Sound(cells[d], heap[cells[d].commands], versions)
    BY <2>3, LiveCells
  <2>5. cells[d].commands \notin free
    <3>1. d \in CellRefs(cells, cells[d].commands)
      BY <2>3 DEF CellRefs
    <3>2. QED
      BY <2>4, <3>1 DEF Referenced
  <2>6. heap'[cells[d].commands] = heap[cells[d].commands]
    BY <1>6, <1>10, <1>13, <2>2, <2>4, <2>5
  <2>7. QED
    BY <2>2, <2>4, <2>6
<1>14. RecordingsSound'
  BY <1>1, <1>10, <1>13 DEF RecordingsSound
<1>15. SnapshotsFit'
  BY <1>10, <1>11 DEF SnapshotsFit
<1>16. SharedListsStay
  BY <1>1 DEF SharedListsStay
<1>17. QED
  BY <1>12, <1>14, <1>15, <1>16 DEF CommandsInv

-----------------------------------------------------------------------------
(* The theorems.                                                           *)

\* Every step keeps the invariant, and the lists of the queued packets.
LEMMA CommandsStep ==
  ASSUME CommandsInv, [CommandsNext]_commandVars
  PROVE  CommandsInv' /\ SharedListsStay
<1>1. ASSUME NEW c \in Cmds, CmdState(c) \/ CmdOutside(c) \/ CmdPass(c) \/ CmdQuery(c)
      PROVE  CommandsInv' /\ SharedListsStay
  BY <1>1, CmdStateKeeps, CmdOutsideKeeps, CmdPassKeeps, CmdQueryKeeps
<1>2. CASE Manage
  BY <1>2, ManageKeeps
<1>3. ASSUME NEW s \in Sets, UpdateDescriptors(s) PROVE CommandsInv' /\ SharedListsStay
  BY <1>3, UpdateKeeps
<1>4. CASE InvalidateResourceRecordings
  BY <1>4, TableKeeps
<1>5. CASE Submit
  <2>1. ASSUME NEW c \in Cmds, QueueSubmit(<<c>>) PROVE CommandsInv' /\ SharedListsStay
    <3>1. <<c>> \in [1..1 -> Cmds] \cup [1..2 -> Cmds]
      OBVIOUS
    <3>2. QED
      BY <2>1, <3>1, SubmitKeeps
  <2>2. ASSUME NEW c \in Cmds, NEW d \in Cmds, QueueSubmit(<<c, d>>)
        PROVE  CommandsInv' /\ SharedListsStay
    <3>1. <<c, d>> \in [1..1 -> Cmds] \cup [1..2 -> Cmds]
      OBVIOUS
    <3>2. QED
      BY <2>2, <3>1, SubmitKeeps
  <2>3. QED
    BY <1>5, <2>1, <2>2 DEF Submit
<1>6. CASE QueueWorker
  BY <1>6, ExecuteKeeps, OriginalsKeep, ObserveKeeps DEF QueueWorker
<1>7. CASE UNCHANGED commandVars
  BY <1>7, NothingKeeps DEF commandVars
<1>8. QED
  BY <1>1, <1>2, <1>3, <1>4, <1>5, <1>6, <1>7, Zenon DEF CommandsNext

\* Before the first call there is nothing.
LEMMA CommandsStart ==
  ASSUME CommandsInit
  PROVE  CommandsInv
<1>1. /\ cells = [c \in Cmds |-> None] /\ heap = [a \in Addresses |-> <<>>]
      /\ versions = [s \in Sets |-> 0] /\ packets = << >> /\ early = {} /\ submits = 0
  BY DEF CommandsInit
<1>2. MaxSubmits \in Nat
  BY CommandsAssumption
<1>3. cells \in [Cmds -> CellStates] /\ versions \in [Sets -> Nat] /\ early \subseteq Cmds
  BY <1>1 DEF CellStates
<1>4. heap \in [Addresses -> Lists]
  <2>1. << >> \in Lists
    BY DEF Lists
  <2>2. QED
    BY <1>1, <2>1
<1>5. packets \in Seq(PacketRecords) /\ Len(packets) = 0
  BY <1>1
<1>6. CommandsTypeOK
  BY <1>1, <1>2, <1>3, <1>4, <1>5 DEF CommandsTypeOK
<1>7. RecordingsSound
  BY <1>1 DEF RecordingsSound, Live
<1>8. SnapshotsFit
  BY <1>5 DEF SnapshotsFit
<1>9. QED
  BY <1>6, <1>7, <1>8 DEF CommandsInv

\* In every reachable state, under any calls, updates and submissions: the
\* types hold, a recording without an error describes its list, and a packet
\* has the recording its buffer still holds.
THEOREM CommandsCorrect == CommandsSpec => []CommandsInv
<1>1. CommandsInit => CommandsInv
  BY CommandsStart
<1>2. CommandsInv /\ [CommandsNext]_commandVars => CommandsInv'
  BY CommandsStep
<1>3. QED
  BY <1>1, <1>2, PTL DEF CommandsSpec

\* What the invariant says of a recording the queue would take.
LEMMA SubmittableIs ==
  ASSUME CommandsInv, NEW c \in Cmds, Submittable(c)
  PROVE  /\ heap[cells[c].commands] \in Lists
         /\ Walk(heap[cells[c].commands]) = WalkStart
         /\ BindsCurrent(cells[c], heap[cells[c].commands], versions)
         /\ WholePushes(heap[cells[c].commands])
<1> DEFINE r == cells[c]
           list == heap[r.commands]
<1>1. Live(r) /\ r.state = "executable" /\ ~r.error
  BY DEF Submittable
<1>2. r \in Recordings /\ list \in Lists /\ Sound(r, list, versions)
  BY <1>1, LiveCells
<1> HIDE DEF r, list
<1>3. ~r.renderActive /\ \A k \in Kinds : r.active[k] = None
  BY <1>1, <1>2 DEF Sound
<1>4. WalkOf(r) = WalkStart
  <2>1. Walk(<< >>) = WalkOf(r)
    BY <1>3, EmptyIsSound DEF Sound
  <2>2. QED
    BY <2>1, WalkOfEmpty
<1>5. Walk(list) = WalkStart /\ BindsCurrent(r, list, versions) /\ WholePushes(list)
  BY <1>2, <1>4 DEF Sound
<1>6. QED
  BY <1>2, <1>5 DEF r, list

\* A recording that the queue takes is closed, binds every descriptor set as
\* it is now and has whole pushes, whatever was recorded, reset or updated in
\* between (Recording::push, vkEndCommandBuffer, vkUpdateDescriptorSets).
THEOREM RecordingsAreComplete == CommandsSpec => []RecordingsInvariant
<1>1. CommandsInv => RecordingsInvariant
  <2>1. SUFFICES ASSUME CommandsInv PROVE RecordingsInvariant
    OBVIOUS
  <2>2. ASSUME NEW c \in Cmds, Submittable(c)
        PROVE  /\ DOMAIN heap[cells[c].commands] = 1..Len(heap[cells[c].commands])
               /\ Walk(heap[cells[c].commands]) = WalkStart
               /\ BindsCurrent(cells[c], heap[cells[c].commands], versions)
               /\ WholePushes(heap[cells[c].commands])
    BY <2>1, <2>2, SubmittableIs DEF Lists
  <2>3. ExecutableIsClosed
    BY <2>2 DEF ExecutableIsClosed
  <2>4. BindsCurrentSets
    BY <2>2 DEF BindsCurrentSets, BindsCurrent
  <2>5. PushesAreWhole
    BY <2>2 DEF PushesAreWhole, WholePushes
  <2>6. QED
    BY <2>3, <2>4, <2>5 DEF RecordingsInvariant
<1>2. QED
  BY <1>1, CommandsCorrect, PTL

\* What was submitted is what runs: no step changes the commands of a queued
\* packet, although the cells share its lists (Arc::make_mut, reset_recording).
THEOREM SharedListsNeverChange == CommandsSpec => SnapshotsNeverChange
<1>1. CommandsInv /\ [CommandsNext]_commandVars => SharedListsStay
  BY CommandsStep
<1>2. CommandsSpec => [][SharedListsStay]_commandVars
  BY <1>1, CommandsCorrect, PTL DEF CommandsSpec
<1>3. QED
  BY <1>2 DEF SnapshotsNeverChange, SharedListsStay

\* What SpendsOnlyWhatRan says of a step.
SpendsOnly ==
  \A c \in Cmds :
    (Live(cells[c]) /\ Live(cells'[c]) /\ cells[c].state \in {"recording", "executable"}
     /\ cells'[c].state = "invalid" /\ QueueWorker)
    => c \in early \/ \E j \in DOMAIN packets[1].recs :
         packets[1].recs[j].cmd = c /\ packets[1].recs[j].begins = cells[c].begins

\* A step of the queue thread spends what the packet it ran has.
LEMMA WorkerSpends ==
  ASSUME CommandsInv
  PROVE  SpendsOnly
<1>1. SUFFICES ASSUME NEW c \in Cmds, Live(cells[c]), cells[c].state \in {"recording", "executable"},
                      cells'[c].state = "invalid", QueueWorker
               PROVE  c \in early \/ \E j \in DOMAIN packets[1].recs :
                        packets[1].recs[j].cmd = c /\ packets[1].recs[j].begins = cells[c].begins
  BY DEF SpendsOnly
<1>2. cells[c].state # "invalid"
  BY <1>1
<1>3. cells'[c] # cells[c]
  BY <1>1, <1>2
<1>4. InvalidateOriginals
  BY <1>1, <1>3 DEF QueueWorker, ExecutePacket, ObservePacket, PutState
<1>5. packets # << >> /\ c \in Originals
  BY <1>3, <1>4 DEF InvalidateOriginals
<1>6. PICK j \in DOMAIN packets[1].recs : packets[1].recs[j].cmd = c
  BY <1>5 DEF Originals
<1>7. /\ packets \in Seq(PacketRecords)
      /\ \A i \in 1..Len(packets) : \A k \in DOMAIN packets[i].recs : Fits(packets[i].recs[k])
  BY PacketsFit
<1>8. 1 \in 1..Len(packets)
  BY <1>5, <1>7
<1>9. Fits(packets[1].recs[j])
  BY <1>6, <1>7, <1>8
<1>10. QED
  BY <1>1, <1>6, <1>9 DEF Fits

\* The queue thread invalidates a one-time recording only when it is the one
\* that the packet it ran was submitted with: a buffer begun again after the
\* fence keeps its new recording (the worker's pass over the originals).
THEOREM OnlyWhatRanIsSpent == CommandsSpec => SpendsOnlyWhatRan
<1>1. CommandsInv => SpendsOnly
  BY WorkerSpends
<1>2. CommandsSpec => [][SpendsOnly]_commandVars
  BY <1>1, CommandsCorrect, PTL DEF CommandsSpec
<1>3. QED
  BY <1>2 DEF SpendsOnlyWhatRan, SpendsOnly
=============================================================================

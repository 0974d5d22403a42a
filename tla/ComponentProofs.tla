--------------------------- MODULE ComponentProofs ---------------------------
(***************************************************************************)
(* The theorems of ChatMemory and of Components, each for any values of    *)
(* the constants: both memories keep their types, the window is a suffix   *)
(* of what was added, and what an agent reads of them is repaired; what    *)
(* compile accepts can run and what it refuses cannot, and no message of a *)
(* node is lost; a memory of turns is whole; and a deep agent's approvals, *)
(* its files and the tools it reads and edits them with.                   *)
(***************************************************************************)
EXTENDS ChatMemory, Components, MessageRepairProofs, FiniteSetTheorems
-------------------------------------------------------------------------------
(* ChatMemory.                                                             *)

MemoryHolds == TypeOK /\ WindowIsSuffix

\* A message that is added is a message.
LEMMA MessagesAreMessages ==
  ASSUME NEW kind \in Kinds, NEW ids \in Seq(Nat)
  PROVE  Message(kind, ids) \in Messages
BY DEF Message, Messages

\* The last n messages lose their oldest when one is added to n of them.
LEMMA SuffixMovesOn ==
  ASSUME NEW s \in Seq(Messages), NEW m \in Messages, NEW n \in 1..Len(s),
         NEW w, w = LastOf(s, n)
  PROVE  /\ Len(w) = n
         /\ Append(Tail(w), m) \in Seq(Messages)
         /\ Len(Append(Tail(w), m)) = n
         /\ Append(Tail(w), m) = LastOf(Append(s, m), n)
<1> DEFINE k == Len(s)
           a == Append(Tail(w), m)
           p == Append(s, m)
           b == LastOf(p, n)
<1>0. k \in Nat /\ n \in Nat /\ n >= 1 /\ n <= k
  OBVIOUS
<1>1. w \in Seq(Messages) /\ Len(w) = n /\ \A i \in 1..n : w[i] = s[k - n + i]
  <2>1. \A i \in (k - n + 1)..k : s[i] \in Messages
    BY <1>0
  <2>2. /\ SubSeq(s, k - n + 1, k) \in Seq(Messages)
        /\ Len(SubSeq(s, k - n + 1, k)) = k - (k - n + 1) + 1
        /\ \A i \in 1..(k - (k - n + 1) + 1) : SubSeq(s, k - n + 1, k)[i] = s[k - n + 1 + i - 1]
    BY <2>1, <1>0, SubSeqProperties
  <2> QED BY <2>2, <1>0 DEF LastOf
<1>2. Tail(w) \in Seq(Messages) /\ Len(Tail(w)) = n - 1 /\ \A i \in 1..(n - 1) : Tail(w)[i] = w[i + 1]
  <2>1. w # <<>>
    BY <1>0, <1>1
  <2> QED BY <2>1, <1>1, HeadTailProperties
<1>3. a \in Seq(Messages) /\ Len(a) = n /\ a[n] = m /\ \A i \in 1..(n - 1) : a[i] = Tail(w)[i]
  BY <1>0, <1>2, AppendProperties
<1>4. p \in Seq(Messages) /\ Len(p) = k + 1 /\ p[k + 1] = m /\ \A i \in 1..k : p[i] = s[i]
  BY <1>0, AppendProperties
<1> HIDE DEF a, p, k
<1>5. b \in Seq(Messages) /\ Len(b) = n /\ \A i \in 1..n : b[i] = p[k + 1 - n + i]
  <2>1. \A i \in (Len(p) - n + 1)..Len(p) : p[i] \in Messages
    BY <1>0, <1>4
  <2>2. Len(p) - n + 1 \in Int /\ Len(p) \in Int /\ Len(p) - n + 1 <= Len(p)
    BY <1>0, <1>4
  <2>3. /\ b \in Seq(Messages)
        /\ Len(b) = Len(p) - (Len(p) - n + 1) + 1
        /\ \A i \in 1..(Len(p) - (Len(p) - n + 1) + 1) : b[i] = p[Len(p) - n + 1 + i - 1]
    BY <2>1, <2>2, SubSeqProperties DEF LastOf
  <2> QED BY <2>3, <1>0, <1>4
<1> HIDE DEF b
<1>6. \A i \in 1..n : a[i] = b[i]
  <2> SUFFICES ASSUME NEW i \in 1..n
               PROVE  a[i] = b[i]
    OBVIOUS
  <2>1. CASE i = n
    BY <2>1, <1>0, <1>3, <1>4, <1>5
  <2>2. CASE i # n
    <3>1. i \in 1..(n - 1) /\ i + 1 \in 1..n /\ k + 1 - n + i \in 1..k
      BY <2>2, <1>0
    <3>2. a[i] = s[k - n + (i + 1)]
      BY <3>1, <1>1, <1>2, <1>3
    <3>3. b[i] = s[k + 1 - n + i]
      BY <3>1, <1>4, <1>5
    <3>4. k - n + (i + 1) = k + 1 - n + i
      BY <3>1, <1>0
    <3> QED BY <3>2, <3>3, <3>4
  <2> QED BY <2>1, <2>2
<1>7. a = b
  BY <1>3, <1>5, <1>6, SeqEqual
<1> QED BY <1>1, <1>3, <1>7 DEF a, b, p

\* All of the messages.
LEMMA LastOfAll ==
  ASSUME NEW s \in Seq(Messages)
  PROVE  LastOf(s, Len(s)) = s
<1>1. SubSeq(s, 1, Len(s)) = s
  OBVIOUS
<1>2. Len(s) - Len(s) + 1 = 1
  OBVIOUS
<1> QED BY <1>1, <1>2 DEF LastOf

\* None of the messages.
LEMMA LastOfNone ==
  LastOf(<<>>, 0) = <<>>
BY SubSeqEmpty DEF LastOf

\* Adding a message.
LEMMA AddKeeps ==
  ASSUME MemoryHolds, NEW m \in Messages, NEW ids \in Nat, issued + ids <= MaxIds,
         MaxIds \in Nat, WindowSizes \subseteq Nat, AddMessage(m, ids)
  PROVE  MemoryHolds'
<1>1. /\ ~panicked /\ size \in Nat /\ size \in WindowSizes /\ issued \in Nat
      /\ simple \in Seq(Messages) /\ window \in Seq(Messages)
      /\ Len(simple) \in Nat /\ Len(window) \in Nat /\ Len(window) <= size
  BY DEF MemoryHolds, TypeOK, AddMessage
<1>2. /\ simple' = Append(simple, m) /\ size' = size
      /\ simple' \in Seq(Messages) /\ Len(simple') = Len(simple) + 1
      /\ issued' \in 0..MaxIds
  BY <1>1, AppendProperties DEF AddMessage
<1>3. CASE size = 0
  <2>1. panicked' = TRUE /\ window' = window
    BY <1>3 DEF AddMessage
  <2> QED BY <2>1, <1>1, <1>2 DEF MemoryHolds, TypeOK, WindowIsSuffix
<1>4. CASE size # 0 /\ Len(simple) < size
  <2>1. window = simple
    <3>1. window = LastOf(simple, Len(simple))
      BY <1>1, <1>4 DEF MemoryHolds, WindowIsSuffix
    <3> QED BY <3>1, <1>1, LastOfAll
  <2>2. window' = simple' /\ panicked' = FALSE
    BY <2>1, <1>1, <1>2, <1>4 DEF AddMessage, Windowed
  <2>3. window' = LastOf(simple', Len(simple'))
    BY <2>2, <1>1, <1>2, LastOfAll
  <2>4. (IF Len(simple') < size' THEN Len(simple') ELSE size') = Len(simple')
    BY <1>1, <1>2, <1>4
  <2>5. WindowIsSuffix'
    BY <2>3, <2>4 DEF WindowIsSuffix
  <2>6. Len(window') <= size'
    BY <2>2, <1>1, <1>2, <1>4
  <2> QED BY <2>2, <2>5, <2>6, <1>1, <1>2 DEF MemoryHolds, TypeOK
<1>5. CASE size # 0 /\ Len(simple) >= size
  <2>1. window = LastOf(simple, size) /\ size \in 1..Len(simple)
    <3>1. (IF Len(simple) < size THEN Len(simple) ELSE size) = size
      BY <1>1, <1>5
    <3>2. window = LastOf(simple, size)
      BY <3>1, <1>1 DEF MemoryHolds, WindowIsSuffix
    <3> QED BY <3>2, <1>1, <1>5
  <2>2. /\ Len(window) = size
        /\ Append(Tail(window), m) \in Seq(Messages)
        /\ Len(Append(Tail(window), m)) = size
        /\ Append(Tail(window), m) = LastOf(Append(simple, m), size)
    BY <2>1, <1>1, SuffixMovesOn
  <2>3. window' = Append(Tail(window), m) /\ panicked' = FALSE
    BY <2>2, <1>1, <1>5 DEF AddMessage, Windowed
  <2>4. window' = LastOf(simple', size')
    BY <2>2, <2>3, <1>2
  <2>5. (IF Len(simple') < size' THEN Len(simple') ELSE size') = size'
    BY <1>1, <1>2, <1>5
  <2>6. WindowIsSuffix'
    BY <2>4, <2>5 DEF WindowIsSuffix
  <2> QED BY <2>2, <2>3, <2>6, <1>1, <1>2 DEF MemoryHolds, TypeOK
<1> QED BY <1>1, <1>3, <1>4, <1>5

(***************************************************************************)
(* The window is exactly the last window_size messages of the memory that  *)
(* keeps all of them.                                                      *)
(***************************************************************************)
THEOREM WindowCorrect == Spec => [](TypeOK /\ WindowIsSuffix)
<1> USE MemoryAssumption DEF MemoryAssumption
<1>1. Init => MemoryHolds
  <2> SUFFICES ASSUME Init
               PROVE  MemoryHolds
    OBVIOUS
  <2>2. simple = <<>> /\ window = <<>> /\ Len(simple) = 0 /\ size \in Nat
    BY DEF Init
  <2>3. (IF Len(simple) < size THEN Len(simple) ELSE size) = 0
    BY <2>2
  <2>4. WindowIsSuffix
    BY <2>2, <2>3, LastOfNone DEF WindowIsSuffix
  <2>5. /\ simple \in Seq(Messages) /\ window \in Seq(Messages) /\ Len(window) <= size
        /\ issued \in 0..MaxIds /\ panicked \in BOOLEAN /\ size \in WindowSizes
    <3>1. <<>> \in Seq(Messages)
      OBVIOUS
    <3>2. Len(window) = 0 /\ 0 <= size /\ 0 \in 0..MaxIds
      BY <2>2
    <3> QED BY <2>2, <3>1, <3>2 DEF Init
  <2> QED BY <2>4, <2>5 DEF MemoryHolds, TypeOK
<1>2. MemoryHolds /\ [Next]_vars => MemoryHolds'
  <2> SUFFICES ASSUME MemoryHolds, [Next]_vars
               PROVE  MemoryHolds'
    OBVIOUS
  <2>1. CASE AddText
    <3>1. PICK kind \in {"user", "ai"} : AddMessage(Message(kind, <<>>), 0)
      BY <2>1 DEF AddText
    <3>2. kind \in Kinds /\ <<>> \in Seq(Nat)
      BY DEF Kinds
    <3>3. Message(kind, <<>>) \in Messages
      BY <3>2, MessagesAreMessages
    <3>4. issued + 0 <= MaxIds
      BY DEF MemoryHolds, TypeOK
    <3> QED BY <3>1, <3>3, <3>4, AddKeeps
  <2>2. ASSUME NEW n \in 1..MaxCallsPer, AddCalls(n)
        PROVE  MemoryHolds'
    <3>1. [k \in 1..n |-> issued + k] \in Seq(Nat)
      BY DEF MemoryHolds, TypeOK
    <3>2. Message("calls", [k \in 1..n |-> issued + k]) \in Messages
      BY <3>1, MessagesAreMessages DEF Kinds
    <3> QED BY <2>2, <3>2, AddKeeps DEF AddCalls
  <2>3. ASSUME NEW id \in 1..issued, AddAnswer(id)
        PROVE  MemoryHolds'
    <3>1. id \in Nat
      BY DEF MemoryHolds, TypeOK
    <3>2. "tool" \in Kinds /\ <<id>> \in Seq(Nat)
      BY <3>1 DEF Kinds
    <3>3. Message("tool", <<id>>) \in Messages
      BY <3>2, MessagesAreMessages
    <3>4. issued + 0 <= MaxIds
      BY DEF MemoryHolds, TypeOK
    <3> QED BY <2>3, <3>3, <3>4, AddKeeps DEF AddAnswer
  <2>4. CASE Clear
    <3>1. /\ simple' = <<>> /\ window' = <<>> /\ Len(simple') = 0
          /\ size' \in Nat /\ UNCHANGED <<size, issued, panicked>>
      BY <2>4 DEF Clear, MemoryHolds, TypeOK
    <3>2. (IF Len(simple') < size' THEN Len(simple') ELSE size') = 0
      BY <3>1
    <3>4. WindowIsSuffix'
      BY <3>1, <3>2, LastOfNone DEF WindowIsSuffix
    <3> QED BY <3>1, <3>4 DEF MemoryHolds, TypeOK
  <2>5. CASE UNCHANGED vars
    BY <2>5 DEF vars, MemoryHolds, TypeOK, WindowIsSuffix
  <2> QED BY <2>1, <2>2, <2>3, <2>4, <2>5 DEF Next
<1>3. MemoryHolds => TypeOK /\ WindowIsSuffix
  BY DEF MemoryHolds
<1> QED BY <1>1, <1>2, <1>3, PTL DEF Spec

(***************************************************************************)
(* What an agent reads of either memory answers every tool call, wherever  *)
(* in a turn the window begins and whatever was added in whatever order:   *)
(* the repair of any sequence of messages does.                            *)
(***************************************************************************)
THEOREM HistoriesAreRepaired == Spec => []RepairAnswersCalls
<1>1. TypeOK /\ WindowIsSuffix => RepairAnswersCalls
  <2> SUFFICES ASSUME TypeOK
               PROVE  RepairAnswersCalls
    OBVIOUS
  <2>1. Messages = Remembered
    BY DEF Messages, Remembered
  <2>2. \A h \in Histories : h \in Seq(Remembered)
    BY <2>1 DEF TypeOK, Histories
  <2>3. \A h \in Histories : AnswersFollow(Repair(h))
    BY <2>2, RepairIsAnswered
  <2> QED BY <2>3 DEF AnswersFollow, RepairAnswersCalls
<1> QED BY <1>1, WindowCorrect, PTL
-------------------------------------------------------------------------------
(***************************************************************************)
(* GraphBuild.  The search of has_path_to_end keeps what any search does:  *)
(* the edges of the nodes it has seen lead to nodes that it has seen or    *)
(* has still to look at, and it has seen nothing that START does not       *)
(* reach.  So END is reached if it comes up, and not if nothing is left.   *)
(***************************************************************************)

Elements(p) == {p[k] : k \in 1..Len(p)}

PendingNodes == Elements(pending)

Names == nodes \cup {GraphStart, GraphEnd}

\* START is in it, and with a node the targets of its edges.
ClosedSet(R) ==
  /\ GraphStart \in R
  /\ \A i \in 1..Len(edges) : edges[i].from \in R => edges[i].targets \subseteq R

Reached(x) == \A R \in SUBSET Names : ClosedSet(R) => x \in R

SearchHolds ==
  /\ GraphStart \in searched \cup PendingNodes
  /\ \A i \in 1..Len(edges) :
       edges[i].from \in searched => edges[i].targets \subseteq searched \cup PendingNodes
  /\ \A x \in searched \cup PendingNodes : Reached(x)

BuildsTyped ==
  /\ edges \in Seq(BuildEdges)
  /\ GraphEnd \notin nodes
  /\ pending \in Seq(Names)
  /\ searched \subseteq nodes \cup {GraphStart}
  /\ phase \in {"building", "searching", "compiled", "refused"}

BuildsHold ==
  /\ BuildsTyped
  /\ phase = "building" => pending = <<>> /\ searched = {}
  /\ phase \in {"searching", "compiled"} =>
       (\A i \in 1..Len(edges) : Builds!Known(edges[i])) /\ SearchHolds
  /\ Builds!CompilesWhatRuns

\* The instances have these operators of their own.
LEMMA BuildsOperators ==
  /\ \A s, P : Builds!Selected(s, P) = Selected(s, P)
  /\ \A s : Builds!FlattenSeq(s) = FlattenSeq(s)
  /\ \A s : Builds!ToSet(s) = ToSet(s)
  /\ \A S : Builds!Cardinality(S) = Cardinality(S)
  /\ \A S : Builds!Graphs!IsFiniteSet(S) = IsFiniteSet(S)
  /\ \A S : Builds!Graphs!Cardinality(S) = Cardinality(S)
<1>1. \A s : Builds!FlattenSeq(s) = FlattenSeq(s)
  BY DEF Builds!FlattenSeq, FlattenSeq
<1>2. \A s, P : Builds!Selected(s, P) = Selected(s, P)
  BY DEF Builds!Selected, Selected, Builds!FlattenSeq, FlattenSeq
<1>3. \A s : Builds!ToSet(s) = ToSet(s)
  BY DEF Builds!ToSet, ToSet
<1>4. \A S : Builds!Cardinality(S) = Cardinality(S)
  BY DEF Builds!Cardinality, Cardinality, Builds!IsFiniteSet, IsFiniteSet
<1>5. \A S : Builds!Graphs!IsFiniteSet(S) = IsFiniteSet(S)
  BY DEF Builds!Graphs!IsFiniteSet, IsFiniteSet
<1>6. \A S : Builds!Graphs!Cardinality(S) = Cardinality(S)
  BY DEF Builds!Graphs!Cardinality, Cardinality, Builds!Graphs!IsFiniteSet, IsFiniteSet
<1> QED BY <1>1, <1>2, <1>3, <1>4, <1>5, <1>6

\* The targets of a node are those of its edges.
IsTargetsOf(t, n) ==
  /\ t \in Seq(UNION {e.targets : e \in BuildEdges})
  /\ \A k \in 1..Len(t) : \E i \in 1..Len(edges) :
       edges[i].from = n /\ t[k] \in edges[i].targets
  /\ \A i \in 1..Len(edges) : edges[i].from = n =>
       \A x \in edges[i].targets : \E k \in 1..Len(t) : t[k] = x

LEMMA TargetsAreOfEdges ==
  ASSUME BuildsTyped, NEW n, NEW t \in Builds!TargetLists(n)
  PROVE  IsTargetsOf(t, n)
<1> DEFINE U   == UNION {e.targets : e \in BuildEdges}
           P   == {i \in DOMAIN edges : edges[i].from = n}
           out == Selected(edges, P)
<1>1. out \in Seq(BuildEdges) /\ \E g : Selects(g, edges, P, out)
  BY SelectedElements DEF BuildsTyped
<1>2. PICK g : Selects(g, edges, P, out)
  BY <1>1
<1>3. /\ \A r \in 1..Len(out) : g[r] \in P /\ out[r] = edges[g[r]]
      /\ \A i \in 1..Len(edges) : i \in P => \E r \in 1..Len(out) : g[r] = i
  BY <1>2 DEF Selects
<1>4. out = Builds!Adjacency(n)
  BY BuildsOperators DEF Builds!Adjacency
<1> HIDE DEF out
<1>5. PICK l \in [DOMAIN out -> UNION {Builds!SetToSeqs(out[i].targets) : i \in DOMAIN out}] :
        /\ \A i \in DOMAIN out : Builds!ToSet(l[i]) = out[i].targets
        /\ t = Builds!FlattenSeq(l)
  BY <1>4 DEF Builds!TargetLists
<1>6. DOMAIN out = 1..Len(out) /\ Len(out) \in Nat
  BY <1>1
<1>7. ASSUME NEW i \in 1..Len(out)
      PROVE  l[i] \in Seq(U)
  <2>1. PICK j \in 1..Len(out) : l[i] \in Builds!SetToSeqs(out[j].targets)
    BY <1>5, <1>6
  <2>2. out[j] \in BuildEdges
    BY <1>1, <1>6
  <2>3. PICK c : c = Cardinality(out[j].targets)
    OBVIOUS
  <2>4. c \in Nat
    BY <2>2, <2>3, BuildsAssumption, FS_CardinalityType
  <2>5. l[i] \in [1..c -> out[j].targets]
    BY <2>1, <2>3, BuildsOperators DEF Builds!SetToSeqs
  <2>6. out[j].targets \subseteq U
    BY <2>2
  <2>7. l[i] \in [1..c -> U]
    BY <2>5, <2>6
  <2> QED BY <2>4, <2>7
<1>8. l \in Seq(Seq(U)) /\ Len(l) = Len(out)
  <2>1. l \in [1..Len(out) -> Seq(U)]
    BY <1>5, <1>6, <1>7
  <2> QED BY <2>1, <1>6
<1>9. t \in Seq(U) /\ HasElements(t, l, Len(out))
  <2>1. FlattenSeq(l) \in Seq(U) /\ HasElements(FlattenSeq(l), l, Len(l))
    BY <1>8, FlattenType, FlattenElements
  <2> QED BY <2>1, <1>5, <1>8, BuildsOperators
<1>10. ASSUME NEW i \in 1..Len(out)
       PROVE  out[i].targets = {l[i][j] : j \in 1..Len(l[i])}
  <2>1. out[i].targets = {l[i][j] : j \in DOMAIN l[i]}
    BY <1>5, <1>6 DEF Builds!ToSet
  <2>2. DOMAIN l[i] = 1..Len(l[i])
    BY <1>7
  <2> QED BY <2>1, <2>2
<1>11. ASSUME NEW k \in 1..Len(t)
       PROVE  \E i \in 1..Len(edges) : edges[i].from = n /\ t[k] \in edges[i].targets
  <2>1. PICK r \in 1..Len(out) : \E j \in 1..Len(l[r]) : t[k] = l[r][j]
    BY <1>9 DEF HasElements
  <2>2. t[k] \in out[r].targets
    BY <2>1, <1>10
  <2>3. g[r] \in P /\ out[r] = edges[g[r]]
    BY <1>3
  <2>4. g[r] \in 1..Len(edges)
    BY <2>3 DEF BuildsTyped
  <2> QED BY <2>2, <2>3, <2>4
<1>12. ASSUME NEW i \in 1..Len(edges), edges[i].from = n, NEW x \in edges[i].targets
       PROVE  \E k \in 1..Len(t) : t[k] = x
  <2>1. i \in P
    BY <1>12
  <2>2. PICK r \in 1..Len(out) : g[r] = i
    BY <2>1, <1>3
  <2>3. x \in out[r].targets
    BY <2>2, <1>3, <1>12
  <2>4. PICK j \in 1..Len(l[r]) : x = l[r][j]
    BY <2>3, <1>10
  <2> QED BY <2>4, <1>9 DEF HasElements
<1> QED BY <1>9, <1>11, <1>12 DEF IsTargetsOf
-------------------------------------------------------------------------------
\* Every edge joins nodes that are there, and START reaches END.
AllKnown == \A i \in 1..Len(edges) : Builds!Known(edges[i])

LEMMA CompiledMeansThis ==
  ASSUME BuildsTyped
  PROVE  Builds!Graphs!Compiled(Builds!ToSet(edges)) <=> AllKnown /\ Reached(GraphEnd)
<1> DEFINE g == Builds!ToSet(edges)
<1>1. /\ Len(edges) \in Nat /\ edges \in [1..Len(edges) -> BuildEdges]
      /\ g = {edges[i] : i \in 1..Len(edges)}
  BY DEF BuildsTyped, Builds!ToSet
<1>2. IsFiniteSet(g)
  <2>1. edges \in Surjection(1..Len(edges), g)
    BY <1>1 DEF Surjection
  <2>2. IsFiniteSet(1..Len(edges))
    BY <1>1, FS_Interval
  <2> QED BY <2>1, <2>2, FS_Surjection
<1>3. \A e \in g : e.kind = "regular" => Builds!Graphs!Cardinality(e.targets) = 1
  BY <1>1, BuildsAssumption, BuildsOperators
<1>4. g \subseteq Builds!Graphs!Edge <=> AllKnown
  <2>1. ASSUME g \subseteq Builds!Graphs!Edge, NEW i \in 1..Len(edges)
        PROVE  Builds!Known(edges[i])
    <3>1. edges[i] \in Builds!Graphs!Edge
      BY <1>1, <2>1
    <3> QED BY <3>1 DEF Builds!Graphs!Edge, Builds!Known
  <2>2. ASSUME AllKnown, NEW i \in 1..Len(edges)
        PROVE  edges[i] \in Builds!Graphs!Edge
    <3>1. PICK e : e = edges[i]
      OBVIOUS
    <3>2. /\ e = [from |-> e.from, kind |-> e.kind, targets |-> e.targets]
          /\ e.kind \in {"regular", "conditional"}
      BY <3>1, <1>1, BuildsAssumption
    <3>3. e.from \in nodes \cup {GraphStart} /\ e.targets \subseteq nodes \cup {GraphEnd}
      BY <2>2, <3>1 DEF AllKnown, Builds!Known
    <3> QED BY <3>1, <3>2, <3>3 DEF Builds!Graphs!Edge
  <2> QED BY <1>1, <2>1, <2>2 DEF AllKnown
<1>5. Builds!Graphs!HasPathToEnd(g) <=> Reached(GraphEnd)
  <2>1. \A R : Builds!Graphs!ClosedUnder(g, R) <=>
                 \A i \in 1..Len(edges) : edges[i].from \in R => edges[i].targets \subseteq R
    BY <1>1 DEF Builds!Graphs!ClosedUnder
  <2> QED BY <2>1 DEF Builds!Graphs!HasPathToEnd, Reached, ClosedSet, Names
<1> HIDE DEF g
<1>6. Builds!Graphs!Compiled(g) <=> AllKnown /\ Reached(GraphEnd)
  BY <1>2, <1>3, <1>4, <1>5, BuildsOperators DEF Builds!Graphs!Compiled
<1> QED BY <1>6 DEF g

\* It is said of the nodes and edges alone.
LEMMA CompiledStays ==
  ASSUME UNCHANGED <<nodes, edges>>
  PROVE  /\ Builds!Graphs!Compiled(Builds!ToSet(edges))' <=> Builds!Graphs!Compiled(Builds!ToSet(edges))
         /\ AllKnown' <=> AllKnown
         /\ \A x : Reached(x)' <=> Reached(x)
<1>1. nodes' = nodes /\ edges' = edges
  OBVIOUS
<1>2. Builds!Graphs!Compiled(Builds!ToSet(edges))' <=> Builds!Graphs!Compiled(Builds!ToSet(edges))
  BY <1>1 DEF Builds!Graphs!Compiled, Builds!Graphs!Edge, Builds!Graphs!HasPathToEnd,
    Builds!Graphs!ClosedUnder, Builds!ToSet
<1>3. AllKnown' <=> AllKnown
  BY <1>1 DEF AllKnown, Builds!Known
<1>4. \A x : Reached(x)' <=> Reached(x)
  BY <1>1 DEF Reached, ClosedSet, Names
<1> QED BY <1>2, <1>3, <1>4

\* The elements of a sequence are its head and the others.
LEMMA HeadAndTail ==
  ASSUME NEW S, NEW p \in Seq(S), p # <<>>
  PROVE  /\ Head(p) \in S /\ Tail(p) \in Seq(S)
         /\ Elements(p) = {Head(p)} \cup Elements(Tail(p))
<1>1. PICK n \in Nat : Len(p) = n /\ n > 0
  OBVIOUS
<1>2. /\ Head(p) = p[1] /\ Head(p) \in S /\ Tail(p) \in Seq(S)
      /\ Len(Tail(p)) = n - 1
      /\ \A k \in 1..(n - 1) : Tail(p)[k] = p[k + 1]
  BY <1>1, HeadTailProperties
<1> DEFINE whole == {p[k] : k \in 1..n}
           rest  == {Tail(p)[k] : k \in 1..(n - 1)}
<1>3. whole \subseteq {Head(p)} \cup rest
  <2>1. SUFFICES ASSUME NEW k \in 1..n
                 PROVE  p[k] \in {Head(p)} \cup rest
    BY Zenon
  <2>2. CASE k = 1
    BY <2>2, <1>2
  <2>3. CASE k # 1
    <3>1. k - 1 \in 1..(n - 1) /\ (k - 1) + 1 = k
      BY <2>3, <1>1
    <3>2. p[k] = Tail(p)[k - 1]
      BY <3>1, <1>2
    <3> QED BY <3>1, <3>2, Zenon
  <2> QED BY <2>2, <2>3
<1>4. rest \subseteq whole
  <2>1. SUFFICES ASSUME NEW j \in 1..(n - 1)
                 PROVE  Tail(p)[j] \in whole
    BY Zenon
  <2>2. j + 1 \in 1..n
    BY <1>1
  <2>3. Tail(p)[j] = p[j + 1]
    BY <1>2
  <2> QED BY <2>2, <2>3, Zenon
<1>5. Head(p) \in whole
  <2>1. 1 \in 1..n
    BY <1>1
  <2> QED BY <2>1, <1>2, Zenon
<1> HIDE DEF whole, rest
<1>6. whole = {Head(p)} \cup rest
  BY <1>3, <1>4, <1>5
<1> QED BY <1>1, <1>2, <1>6 DEF whole, rest, Elements

\* The elements of two sequences one after another are those of both.
LEMMA ConcatSet ==
  ASSUME NEW S, NEW p \in Seq(S), NEW q \in Seq(S)
  PROVE  /\ p \o q \in Seq(S)
         /\ Elements(p \o q) = Elements(p) \cup Elements(q)
<1>1. p \o q \in Seq(S)
  OBVIOUS
<1>2. \A s \in Seq(S) : Elements(s) = Range(s)
  BY DEF Elements, Range
<1>3. Range(p \o q) = Range(p) \cup Range(q)
  BY RangeConcatenation
<1> QED BY <1>1, <1>2, <1>3
-------------------------------------------------------------------------------
LEMMA BuildsInit ==
  ASSUME Builds!Init
  PROVE  BuildsHold
BY DEF Builds!Init, BuildsHold, BuildsTyped, Builds!CompilesWhatRuns

\* An edge or a node is added.
LEMMA BuildingKeeps ==
  ASSUME BuildsHold, Builds!AddNode \/ Builds!AddEdge
  PROVE  BuildsHold'
<1>1. phase = "building" /\ phase' = "building" /\ pending = <<>> /\ searched = {}
      /\ pending' = pending /\ searched' = searched
  BY DEF Builds!AddNode, Builds!AddEdge, BuildsHold
<1>2. edges' \in Seq(BuildEdges) /\ GraphEnd \notin nodes'
  <2>1. CASE Builds!AddNode
    BY <2>1 DEF Builds!AddNode, BuildsHold, BuildsTyped
  <2>2. CASE Builds!AddEdge
    <3>1. PICK e \in BuildEdges : edges' = Append(edges, e)
      BY <2>2 DEF Builds!AddEdge
    <3> QED BY <3>1, <2>2 DEF Builds!AddEdge, BuildsHold, BuildsTyped
  <2> QED BY <2>1, <2>2
<1> QED BY <1>1, <1>2 DEF BuildsHold, BuildsTyped, Builds!CompilesWhatRuns

\* An edge that joins nothing is found here; else the search begins with START.
LEMMA ValidateKeeps ==
  ASSUME BuildsHold, Builds!Validate
  PROVE  BuildsHold'
<1>1. /\ phase = "building" /\ pending = <<>> /\ searched = {} /\ searched' = searched
      /\ nodes' = nodes /\ edges' = edges /\ BuildsTyped
  BY DEF Builds!Validate, BuildsHold
<1>2. DOMAIN edges = 1..Len(edges)
  BY <1>1 DEF BuildsTyped
<1>3. /\ Builds!Graphs!Compiled(Builds!ToSet(edges))' <=> Builds!Graphs!Compiled(Builds!ToSet(edges))
      /\ AllKnown' <=> AllKnown
      /\ \A x : Reached(x)' <=> Reached(x)
  BY <1>1, CompiledStays
<1>4. CASE AllKnown
  <2>1. phase' = "searching" /\ pending' = <<GraphStart>>
    BY <1>2, <1>4 DEF Builds!Validate, AllKnown
  <2>2. PendingNodes' = {GraphStart}
    BY <2>1 DEF PendingNodes, Elements
  <2>3. Reached(GraphStart)
    BY DEF Reached, ClosedSet
  <2>4. Reached(GraphStart)'
    BY <2>3, <1>3
  <2>5. SearchHolds'
    BY <1>1, <2>2, <2>4 DEF SearchHolds
  <2>6. BuildsTyped'
    BY <1>1, <2>1 DEF BuildsTyped, Names
  <2>7. AllKnown'
    BY <1>3, <1>4
  <2> QED BY <2>1, <2>5, <2>6, <2>7 DEF BuildsHold, AllKnown, Builds!CompilesWhatRuns
<1>5. CASE ~AllKnown
  <2>1. phase' = "refused" /\ pending' = pending
    BY <1>2, <1>5 DEF Builds!Validate, AllKnown
  <2>2. ~Builds!Graphs!Compiled(Builds!ToSet(edges))'
    BY <1>1, <1>3, <1>5, CompiledMeansThis
  <2>3. BuildsTyped'
    BY <1>1, <2>1 DEF BuildsTyped, Names
  <2> QED BY <2>1, <2>2, <2>3 DEF BuildsHold, Builds!CompilesWhatRuns
<1> QED BY <1>4, <1>5

\* A node is seen: it makes room for the targets of its edges.
LEMMA VisitKeeps ==
  ASSUME BuildsHold, Builds!Visit
  PROVE  BuildsHold'
<1> DEFINE h    == Head(pending)
           rest == Elements(Tail(pending))
<1>1. /\ phase = "searching" /\ phase' = "searching" /\ nodes' = nodes /\ edges' = edges
      /\ pending # <<>> /\ h \notin searched /\ h # GraphEnd /\ searched' = searched \cup {h}
      /\ BuildsTyped /\ AllKnown /\ SearchHolds
  BY DEF Builds!Visit, BuildsHold, AllKnown
<1>2. PICK t \in Builds!TargetLists(h) : pending' = t \o Tail(pending)
  BY DEF Builds!Visit
<1>3. /\ h \in Names /\ Tail(pending) \in Seq(Names)
      /\ PendingNodes = {h} \cup rest
  BY <1>1, HeadAndTail DEF BuildsTyped, PendingNodes
<1>4. IsTargetsOf(t, h)
  BY <1>1, TargetsAreOfEdges
<1>5. t \in Seq(Names)
  <2>1. \A k \in 1..Len(t) : t[k] \in Names
    BY <1>1, <1>4 DEF AllKnown, Builds!Known, Names, IsTargetsOf
  <2> QED BY <1>4, <2>1 DEF IsTargetsOf
<1> DEFINE T == Elements(t)
<1>6. pending' \in Seq(Names) /\ PendingNodes' = T \cup rest
  <2>1. PICK q : q = Tail(pending) /\ q \in Seq(Names)
    BY <1>3
  <2>2. t \o q \in Seq(Names) /\ Elements(t \o q) = Elements(t) \cup Elements(q)
    <3>1. PICK S : S = Names
      OBVIOUS
    <3>2. t \in Seq(S) /\ q \in Seq(S)
      BY <3>1, <2>1, <1>5
    <3> HIDE DEF T
    <3> QED BY ONLY <3>1, <3>2, ConcatSet
  <2> QED BY <1>2, <2>1, <2>2 DEF PendingNodes
<1>7. \A x \in T : \E i \in 1..Len(edges) : edges[i].from = h /\ x \in edges[i].targets
  BY <1>4 DEF IsTargetsOf, Elements
<1>8. \A i \in 1..Len(edges) : edges[i].from = h => edges[i].targets \subseteq T
  BY <1>4 DEF IsTargetsOf, Elements
<1> HIDE DEF h, rest, T
<1>9. BuildsTyped'
  BY <1>1, <1>3, <1>6 DEF BuildsTyped, Names
<1>10. SearchHolds'
  <2>1. GraphStart \in searched' \cup PendingNodes'
    BY <1>1, <1>3, <1>6 DEF SearchHolds
  <2>2. ASSUME NEW i \in 1..Len(edges), edges[i].from \in searched'
        PROVE  edges[i].targets \subseteq searched' \cup PendingNodes'
    <3>1. CASE edges[i].from = h
      BY <3>1, <1>6, <1>8
    <3>2. CASE edges[i].from \in searched
      BY <3>2, <1>1, <1>3, <1>6 DEF SearchHolds
    <3> QED BY <1>1, <2>2, <3>1, <3>2
  <2>3. \A x \in T : Reached(x)
    <3>1. SUFFICES ASSUME NEW x \in T, NEW R \in SUBSET Names, ClosedSet(R)
                   PROVE  x \in R
      BY DEF Reached
    <3>2. h \in R
      BY <1>1, <1>3, <3>1 DEF SearchHolds, Reached
    <3> QED BY <1>7, <3>1, <3>2 DEF ClosedSet
  <2>4. \A x \in searched' \cup PendingNodes' : Reached(x)
    BY <1>1, <1>3, <1>6, <2>3 DEF SearchHolds
  <2>5. \A x \in searched' \cup PendingNodes' : Reached(x)'
    BY <2>4, <1>1, CompiledStays
  <2> QED BY <2>1, <2>2, <2>5, <1>1 DEF SearchHolds
<1>11. AllKnown'
  BY <1>1, CompiledStays
<1> QED BY <1>1, <1>9, <1>10, <1>11 DEF BuildsHold, AllKnown, Builds!CompilesWhatRuns

\* A node that has been seen comes up again.
LEMMA SkipKeeps ==
  ASSUME BuildsHold, Builds!Skip
  PROVE  BuildsHold'
<1>1. /\ phase = "searching" /\ phase' = "searching" /\ nodes' = nodes /\ edges' = edges
      /\ pending # <<>> /\ Head(pending) \in searched /\ searched' = searched
      /\ pending' = Tail(pending)
      /\ BuildsTyped /\ AllKnown /\ SearchHolds
  BY DEF Builds!Skip, BuildsHold, AllKnown
<1>2. /\ Tail(pending) \in Seq(Names)
      /\ PendingNodes = {Head(pending)} \cup PendingNodes'
  BY <1>1, HeadAndTail DEF BuildsTyped, PendingNodes
<1>3. searched' \cup PendingNodes' = searched \cup PendingNodes
  BY <1>1, <1>2
<1>4. BuildsTyped'
  BY <1>1, <1>2 DEF BuildsTyped, Names
<1>5. SearchHolds'
  <2>1. \A x \in searched \cup PendingNodes : Reached(x)'
    BY <1>1, CompiledStays DEF SearchHolds
  <2> QED BY <1>1, <1>3, <2>1 DEF SearchHolds
<1>6. AllKnown'
  BY <1>1, CompiledStays
<1> QED BY <1>1, <1>4, <1>5, <1>6 DEF BuildsHold, AllKnown, Builds!CompilesWhatRuns

\* END comes up: START reaches it.
LEMMA FindEndKeeps ==
  ASSUME BuildsHold, Builds!FindEnd
  PROVE  BuildsHold'
<1>1. /\ phase = "searching" /\ phase' = "compiled" /\ nodes' = nodes /\ edges' = edges
      /\ pending # <<>> /\ Head(pending) = GraphEnd /\ searched' = searched
      /\ pending' = pending
      /\ BuildsTyped /\ AllKnown /\ SearchHolds
  BY DEF Builds!FindEnd, BuildsHold, AllKnown
<1>2. GraphEnd \in PendingNodes
  BY <1>1, HeadAndTail DEF BuildsTyped, PendingNodes
<1>3. Builds!Graphs!Compiled(Builds!ToSet(edges))'
  BY <1>1, <1>2, CompiledMeansThis, CompiledStays DEF SearchHolds
<1>4. BuildsTyped'
  BY <1>1 DEF BuildsTyped, Names
<1>5. SearchHolds'
  <2>1. \A x \in searched \cup PendingNodes : Reached(x)'
    BY <1>1, CompiledStays DEF SearchHolds
  <2> QED BY <1>1, <2>1 DEF SearchHolds, PendingNodes
<1>6. AllKnown'
  BY <1>1, CompiledStays
<1> QED BY <1>1, <1>3, <1>4, <1>5, <1>6 DEF BuildsHold, AllKnown, Builds!CompilesWhatRuns

\* Nothing is left, and what was seen is closed without END.
LEMMA NoPathKeeps ==
  ASSUME BuildsHold, Builds!NoPathToEnd
  PROVE  BuildsHold'
<1>1. /\ phase = "searching" /\ phase' = "refused" /\ nodes' = nodes /\ edges' = edges
      /\ pending = <<>> /\ pending' = pending /\ searched' = searched
      /\ BuildsTyped /\ SearchHolds
  BY DEF Builds!NoPathToEnd, BuildsHold
<1>2. PendingNodes = {}
  BY <1>1 DEF PendingNodes, Elements
<1>3. searched \in SUBSET Names /\ ClosedSet(searched)
  BY <1>1, <1>2 DEF SearchHolds, ClosedSet, BuildsTyped, Names
<1>4. GraphEnd \notin searched
  BY <1>1, BuildsAssumption DEF BuildsTyped
<1>5. ~Reached(GraphEnd)
  BY <1>3, <1>4 DEF Reached
<1>6. ~Builds!Graphs!Compiled(Builds!ToSet(edges))'
  BY <1>1, <1>5, CompiledMeansThis, CompiledStays
<1>7. BuildsTyped'
  BY <1>1 DEF BuildsTyped, Names
<1> QED BY <1>1, <1>6, <1>7 DEF BuildsHold, Builds!CompilesWhatRuns

LEMMA BuildsStep ==
  ASSUME BuildsHold, [Builds!Next]_(Builds!vars)
  PROVE  BuildsHold'
<1>1. CASE Builds!Next
  BY <1>1, BuildingKeeps, ValidateKeeps, VisitKeeps, SkipKeeps, FindEndKeeps, NoPathKeeps
    DEF Builds!Next
<1>2. CASE UNCHANGED Builds!vars
  <2>1. /\ nodes' = nodes /\ edges' = edges /\ phase' = phase /\ pending' = pending
        /\ searched' = searched
    BY <1>2 DEF Builds!vars
  <2>2. /\ Builds!Graphs!Compiled(Builds!ToSet(edges))' <=> Builds!Graphs!Compiled(Builds!ToSet(edges))
        /\ AllKnown' <=> AllKnown
        /\ \A x : Reached(x)' <=> Reached(x)
    BY <2>1, CompiledStays
  <2>3. BuildsTyped' <=> BuildsTyped
    BY <2>1 DEF BuildsTyped, Names
  <2>4. PendingNodes' = PendingNodes
    BY <2>1 DEF PendingNodes
  <2>5. SearchHolds => SearchHolds'
    BY <2>1, <2>2, <2>4 DEF SearchHolds
  <2> QED BY <2>1, <2>2, <2>3, <2>5 DEF BuildsHold, AllKnown, Builds!CompilesWhatRuns
<1> QED BY <1>1, <1>2
-------------------------------------------------------------------------------
(***************************************************************************)
(* GraphNodes.  The messages of a state are those it began with and those  *)
(* the nodes returned.  Every one is a number not given before, so the     *)
(* newest is the greatest; what a node was asked ends in the newest there  *)
(* was before its own.                                                     *)
(***************************************************************************)

\* Its elements are of 1..n, and none is greater than the last.
EndsInGreatest(s, n) ==
  /\ s \in Seq(1..n) /\ s # <<>>
  /\ \A k \in 1..Len(s) : s[k] <= s[Len(s)]

Running == ending \in {"running", "returned"}

\* What the nodes have said, after what the graph was given.
Said == <<1>> \o told

NodesHold ==
  /\ shape.messages \in BOOLEAN /\ shape.fields \in BOOLEAN
  /\ values \in Nat /\ values >= 1
  /\ told \in Seq(1..values)
  /\ EndsInGreatest(Said, values)
  /\ Nodes!MessagesAreNeverLost
  /\ Nodes!NodesReadTheNewest

LEMMA GreatestOfAll ==
  ASSUME NEW n \in Nat, NEW s, EndsInGreatest(s, n)
  PROVE  Nodes!Max(Elements(s)) = s[Len(s)]
<1>1. s \in Seq(1..n) /\ Len(s) \in Nat /\ Len(s) >= 1
  BY DEF EndsInGreatest
<1>2. PICK w : w = s[Len(s)]
  OBVIOUS
<1>3. w \in Elements(s) /\ w \in Nat
  BY <1>1, <1>2 DEF Elements
<1>4. \A x \in Elements(s) : x \in Nat /\ w >= x
  BY <1>1, <1>2 DEF Elements, EndsInGreatest
<1>5. PICK m : m = Nodes!Max(Elements(s))
  OBVIOUS
<1>6. m \in Elements(s) /\ \A x \in Elements(s) : m >= x
  BY <1>3, <1>4, <1>5 DEF Nodes!Max
<1>7. m = w
  <2>1. m \in Nat /\ m >= w /\ w >= m
    BY <1>3, <1>4, <1>6
  <2> QED BY <2>1, <1>3
<1> QED BY <1>2, <1>5, <1>7

\* A node adds nothing, or what ends in a new message.
LEMMA GreaterAdded ==
  ASSUME NEW n \in Nat, NEW s, EndsInGreatest(s, n), NEW t \in Seq(1..(n + 1)),
         t = <<>> \/ t[Len(t)] = n + 1
  PROVE  EndsInGreatest(s \o t, n + 1)
<1>1. PICK a \in Nat : Len(s) = a /\ a >= 1
  BY DEF EndsInGreatest
<1>2. PICK b \in Nat : Len(t) = b
  OBVIOUS
<1>3. s \in Seq(1..(n + 1))
  BY DEF EndsInGreatest
<1>4. PICK r : r = s \o t
  OBVIOUS
<1>5. r \in Seq(1..(n + 1)) /\ Len(r) = a + b
  <2>1. r \in Seq(1..(n + 1))
    BY <1>3, <1>4
  <2>2. Len(s \o t) = Len(s) + Len(t)
    <3>1. PICK S : S = 1..(n + 1)
      OBVIOUS
    <3>2. s \in Seq(S) /\ t \in Seq(S)
      BY <3>1, <1>3
    <3> QED BY ONLY <3>2, ConcatProperties
  <2>3. Len(r) = a + b
    BY ONLY <1>1, <1>2, <1>4, <2>2
  <2> QED BY <2>1, <2>3
<1>6. \A k \in 1..a : r[k] = s[k]
  BY <1>1, <1>2, <1>3, <1>4
<1>7. \A k \in 1..b : r[a + k] = t[k]
  BY <1>1, <1>2, <1>3, <1>4
<1>8. CASE b = 0
  BY <1>1, <1>5, <1>6, <1>8 DEF EndsInGreatest
<1>9. CASE b # 0
  <2>1. r[a + b] = n + 1
    BY <1>2, <1>7, <1>9
  <2>2. \A k \in 1..(a + b) : r[k] \in 1..(n + 1)
    BY <1>5
  <2>3. \A k \in 1..(a + b) : r[k] <= n + 1
    BY <2>2
  <2>4. r # <<>>
    BY <1>1, <1>5
  <2> QED BY <2>1, <2>3, <2>4, <1>4, <1>5 DEF EndsInGreatest
<1> QED BY <1>8, <1>9, <1>4

LEMMA NodesInit ==
  ASSUME Nodes!Init
  PROVE  NodesHold
<1>1. /\ shape \in Nodes!Shapes /\ told = <<>> /\ question = <<>> /\ values = 1
      /\ shape.messages => state.messages = <<1>>
  BY DEF Nodes!Init
<1>2. Said = <<1>>
  BY <1>1 DEF Said
<1>3. EndsInGreatest(Said, 1)
  BY <1>2 DEF EndsInGreatest
<1> QED BY <1>1, <1>2, <1>3 DEF NodesHold, Nodes!Shapes, Nodes!MessagesAreNeverLost,
  Nodes!NodesReadTheNewest, Said

\* What any node does: it is asked, and adds messages of its own.
Asked == {<<>>, state.messages, <<state.messages[Len(state.messages)]>>}
Adds == {<<>>, <<values + 1>>, Append(state.messages, values + 1)}

NodeStep ==
  /\ ending = "running"
  /\ values' = values + 1 /\ shape' = shape
  /\ shape.messages => question' \in Asked \/ shape.fields
  /\ \E t \in Adds : /\ told' = told \o t
                     /\ shape.messages \/ t \in {<<>>, <<values + 1>>}
                     /\ shape.messages /\ Running' => state'.messages = state.messages \o t

LEMMA NodeStepKeeps ==
  ASSUME NodesHold, NodeStep
  PROVE  NodesHold'
<1>1. /\ ending = "running" /\ Running
      /\ values' = values + 1 /\ shape' = shape
      /\ shape.messages => question' \in Asked \/ shape.fields
      /\ values \in Nat /\ values >= 1
      /\ told \in Seq(1..values) /\ EndsInGreatest(Said, values)
      /\ shape.messages => state.messages = Said
  BY DEF NodeStep, NodesHold, Nodes!MessagesAreNeverLost, Said, Running
<1>2. PICK n \in Nat : n = values /\ n >= 1
  BY <1>1
<1>3. PICK t \in Adds :
        /\ told' = told \o t
        /\ shape.messages \/ t \in {<<>>, <<values + 1>>}
        /\ shape.messages /\ Running' => state'.messages = state.messages \o t
  BY DEF NodeStep
<1>4. Said \in Seq(1..n) /\ Said # <<>>
  BY <1>1, <1>2 DEF EndsInGreatest
<1>5. PICK p : p = Said
  OBVIOUS
<1>6. t \in Seq(1..(n + 1)) /\ (t = <<>> \/ t[Len(t)] = n + 1)
  <2>1. CASE t = <<>>
    BY <2>1
  <2>2. CASE t = <<n + 1>>
    BY <2>2
  <2>3. CASE shape.messages /\ t = Append(p, n + 1)
    <3>1. p \in Seq(1..(n + 1))
      BY <1>4, <1>5
    <3> QED BY <2>3, <3>1
  <2> QED BY <1>1, <1>2, <1>3, <1>5, <2>1, <2>2, <2>3 DEF Adds
<1>7. Said' = p \o t
  <2>1. PICK S : S = 1..(n + 1)
    OBVIOUS
  <2>2. <<1>> \in Seq(S) /\ told \in Seq(S) /\ t \in Seq(S)
    BY <1>1, <1>2, <1>6, <2>1
  <2>3. (<<1>> \o told) \o t = <<1>> \o (told \o t)
    BY <2>2, ConcatAssociative
  <2> QED BY <1>3, <1>5, <2>3 DEF Said
<1>8. told' \in Seq(1..(n + 1))
  <2>1. told \in Seq(1..(n + 1))
    BY <1>1, <1>2
  <2> QED BY <2>1, <1>3, <1>6
<1>9. EndsInGreatest(Said', n + 1)
  <2>1. EndsInGreatest(p, n)
    BY <1>1, <1>2, <1>5
  <2> QED BY ONLY <2>1, <1>6, <1>7, n \in Nat, GreaterAdded
<1>10. Nodes!MessagesAreNeverLost'
  <2>1. shape'.messages /\ Running' => state'.messages = Said'
    BY <1>1, <1>3, <1>5, <1>7
  <2> QED BY <2>1 DEF Nodes!MessagesAreNeverLost, Said, Running
<1>11. Nodes!NodesReadTheNewest'
  <2>1. SUFFICES ASSUME shape.messages, ~shape.fields, question' # <<>>
                 PROVE  Nodes!Last(question') = Nodes!Max(({1} \cup Nodes!ToSet(told')) \ {values'})
    BY <1>1 DEF Nodes!NodesReadTheNewest
  <2>2. Nodes!Last(question') = p[Len(p)]
    <3>1. question' = p \/ question' = <<p[Len(p)]>>
      BY <1>1, <1>5, <2>1 DEF Asked
    <3>2. Nodes!Last(<<p[Len(p)]>>) = p[Len(p)]
      BY DEF Nodes!Last
    <3>3. Nodes!Last(p) = p[Len(p)]
      BY DEF Nodes!Last
    <3> QED BY <3>1, <3>2, <3>3
  <2>3. {1} \cup Nodes!ToSet(told') = Elements(p) \cup Elements(t)
    <3>1. PICK S : S = 1..(n + 1)
      OBVIOUS
    <3>2. <<1>> \in Seq(S) /\ told' \in Seq(S) /\ t \in Seq(S) /\ p \in Seq(S)
      BY <1>2, <1>4, <1>5, <1>6, <1>8, <3>1
    <3>3. PICK u : u = told'
      OBVIOUS
    <3>4. Elements(<<1>> \o u) = Elements(<<1>>) \cup Elements(u)
      <4>1. PICK o : o = <<1>>
        OBVIOUS
      <4>2. o \in Seq(S) /\ u \in Seq(S)
        BY <4>1, <3>2, <3>3
      <4>3. Elements(o \o u) = Elements(o) \cup Elements(u)
        BY ONLY <4>2, ConcatSet
      <4> QED BY <4>1, <4>3
    <3>5. Elements(p \o t) = Elements(p) \cup Elements(t)
      BY <3>2, ConcatSet
    <3>6. Elements(<<1>>) = {1}
      BY DEF Elements
    <3>7. Elements(u) = Nodes!ToSet(u)
      BY <3>2, <3>3 DEF Elements, Nodes!ToSet
    <3>8. <<1>> \o u = p \o t
      BY <1>7, <3>3 DEF Said
    <3> QED BY <3>3, <3>4, <3>5, <3>6, <3>7, <3>8
  <2>4. Elements(t) \subseteq Elements(p) \cup {n + 1}
    <3>1. CASE t = <<>>
      BY <3>1 DEF Elements
    <3>2. CASE t = <<n + 1>>
      BY <3>2 DEF Elements
    <3>3. CASE t = Append(p, n + 1)
      <4>1. PICK a \in Nat : Len(p) = a
        BY <1>4, <1>5
      <4>2. Len(t) = a + 1 /\ t[a + 1] = n + 1
        BY <4>1, <3>3, <1>4, <1>5
      <4>3. \A k \in 1..a : t[k] = p[k]
        BY <4>1, <3>3, <1>4, <1>5
      <4> QED BY <4>1, <4>2, <4>3 DEF Elements
    <3> QED BY <1>1, <1>2, <1>3, <1>5, <2>1, <3>1, <3>2, <3>3 DEF Adds
  <2>5. n + 1 \notin Elements(p)
    BY <1>2, <1>4, <1>5 DEF Elements
  <2>6. ({1} \cup Nodes!ToSet(told')) \ {values'} = Elements(p)
    BY <1>1, <1>2, <2>3, <2>4, <2>5
  <2>7. Nodes!Max(Elements(p)) = p[Len(p)]
    BY <1>1, <1>2, <1>5, GreatestOfAll
  <2> QED BY <2>2, <2>6, <2>7
<1>12. shape'.messages \in BOOLEAN /\ shape'.fields \in BOOLEAN
  BY <1>1 DEF NodesHold
<1> QED BY <1>1, <1>2, <1>8, <1>9, <1>10, <1>11, <1>12 DEF NodesHold

\* The nodes are such steps: each returns an update, or fails.
LEMMA UpdatesAreSteps ==
  ASSUME NodesHold, Nodes!Executes,
         NEW read, shape.messages => read \in Asked \/ shape.fields,
         NEW update, update.messages \in Adds,
         shape.messages \/ update.messages \in {<<>>, <<values + 1>>},
         Nodes!Returns(update, read)
  PROVE  NodeStep
<1>1. /\ ending = "running" /\ values' = values + 1 /\ shape' = shape
      /\ question' = read
      /\ told' = told \o (IF update.parses THEN update.messages ELSE <<>>)
      /\ Nodes!Merges(update)
  BY DEF Nodes!Executes, Nodes!Returns
<1>2. PICK t : t = IF update.parses THEN update.messages ELSE <<>>
  OBVIOUS
<1>3. t \in Adds /\ (shape.messages \/ t \in {<<>>, <<values + 1>>})
  <2>1. <<>> \in Adds
    BY DEF Adds
  <2> QED BY <2>1, <1>2
<1>4. ASSUME shape.messages, Running'
      PROVE  state'.messages = state.messages \o t
  <2>1. state.messages = Said /\ Said \in Seq(1..values)
    BY <1>1, <1>4 DEF NodesHold, Nodes!MessagesAreNeverLost, Said, EndsInGreatest
  <2>2. state'.messages = Nodes!ApplyUpdate(state.messages, update)
    <3>1. ~(shape.fields /\ ~shape.default)
      <4>1. "serialization error" \notin {"running", "returned"}
        OBVIOUS
      <4> QED BY <1>1, <1>4, <4>1, Zenon DEF Nodes!Merges, Running
    <3>2. state' = [messages |-> Nodes!ApplyUpdate(state.messages, update), fields |-> Nodes!Empty]
      BY <1>1, <1>4, <3>1, Zenon DEF Nodes!Merges
    <3> QED BY <3>2, Zenon
  <2>3. Said \o <<>> = Said
    BY <2>1
  <2> QED BY <1>2, <2>1, <2>2, <2>3 DEF Nodes!ApplyUpdate
<1> QED BY <1>1, <1>2, <1>3, <1>4 DEF NodeStep

LEMMA FailuresAreSteps ==
  ASSUME NodesHold, Nodes!Executes,
         NEW read, shape.messages => read \in Asked \/ shape.fields,
         Nodes!Fails(read)
  PROVE  NodeStep
<1>1. /\ ending = "running" /\ values' = values + 1 /\ shape' = shape
      /\ question' = read /\ told' = told /\ ~Running'
  BY DEF Nodes!Executes, Nodes!Fails, Running
<1>2. told \o <<>> = told
  BY DEF NodesHold
<1>3. <<>> \in Adds
  BY DEF Adds
<1> QED BY <1>1, <1>2, <1>3 DEF NodeStep

LEMMA NodesAreSteps ==
  ASSUME NodesHold,
         \/ Nodes!FunctionNode \/ Nodes!ChainNode \/ Nodes!LLMNode \/ Nodes!AgentNode
         \/ Nodes!SubgraphNode \/ Nodes!SubgraphNodeWithTransform
  PROVE  NodeStep
<1>1. Nodes!Executes
  BY DEF Nodes!FunctionNode, Nodes!ChainNode, Nodes!LLMNode, Nodes!AgentNode,
    Nodes!SubgraphNode, Nodes!SubgraphNodeWithTransform
<1>2. <<>> \in Asked /\ state.messages \in Asked
  BY DEF Asked
<1>3. shape.messages => Nodes!Input \in Asked \/ shape.fields
  BY DEF Nodes!Input, Asked, Nodes!Last
<1>4. /\ <<>> \in Adds /\ <<values + 1>> \in Adds /\ Append(state.messages, values + 1) \in Adds
  BY DEF Adds
<1>5. /\ \A m : Nodes!Says(m).messages = m
      /\ \A m : [Nodes!Says(m) EXCEPT !.parses = FALSE].messages = m
      /\ \A f, v : Nodes!Sets(f, v).messages = <<>>
      /\ \A f : [Nodes!Nothing EXCEPT !.fields = f].messages = <<>>
      /\ Nodes!Nothing.messages = <<>>
  BY DEF Nodes!Says, Nodes!Sets, Nodes!Nothing
<1>6. CASE Nodes!FunctionNode
  <2>1. CASE Nodes!Fails(<<>>) \/ Nodes!Fails(state.messages)
    BY <1>1, <1>2, <2>1, FailuresAreSteps
  <2>2. CASE Nodes!Returns(Nodes!Says(<<values + 1>>), state.messages)
    BY <1>1, <1>2, <1>4, <1>5, <2>2, UpdatesAreSteps
  <2>3. CASE Nodes!Returns([Nodes!Says(<<values + 1>>) EXCEPT !.parses = FALSE], state.messages)
    BY <1>1, <1>2, <1>4, <1>5, <2>3, UpdatesAreSteps
  <2>4. CASE Nodes!Returns(Nodes!Sets("output", values + 1), state.messages)
    BY <1>1, <1>2, <1>4, <1>5, <2>4, UpdatesAreSteps
  <2>5. CASE Nodes!Returns([Nodes!Nothing EXCEPT !.fields = [f \in Field |-> values + 1]], state.messages)
    BY <1>1, <1>2, <1>4, <1>5, <2>5, UpdatesAreSteps
  <2> QED BY <1>6, <2>1, <2>2, <2>3, <2>4, <2>5 DEF Nodes!FunctionNode, Nodes!Value
<1>7. CASE Nodes!ChainNode \/ Nodes!AgentNode
  <2>1. CASE Nodes!Fails(Nodes!Input)
    BY <1>1, <1>3, <2>1, FailuresAreSteps
  <2>2. CASE Nodes!Returns(Nodes!Sets("output", values + 1), Nodes!Input)
    BY <1>1, <1>3, <1>4, <1>5, <2>2, UpdatesAreSteps
  <2>3. CASE Nodes!Returns(Nodes!Sets("action", values + 1), Nodes!Input)
    BY <1>1, <1>3, <1>4, <1>5, <2>3, UpdatesAreSteps
  <2>4. CASE Nodes!Returns(Nodes!Nothing, Nodes!Input)
    BY <1>1, <1>3, <1>4, <1>5, <2>4, UpdatesAreSteps
  <2> QED BY <1>7, <2>1, <2>2, <2>3, <2>4 DEF Nodes!ChainNode, Nodes!AgentNode, Nodes!Value
<1>8. CASE Nodes!LLMNode \/ Nodes!SubgraphNode \/ Nodes!SubgraphNodeWithTransform
  <2>1. CASE Nodes!Fails(state.messages)
    BY <1>1, <1>2, <2>1, FailuresAreSteps
  <2>2. CASE Nodes!Returns(Nodes!Says(<<values + 1>>), state.messages)
    BY <1>1, <1>2, <1>4, <1>5, <2>2, UpdatesAreSteps
  <2>3. CASE Nodes!Returns(Nodes!Says(Append(state.messages, values + 1)), state.messages) /\ shape.messages
    BY <1>1, <1>2, <1>4, <1>5, <2>3, UpdatesAreSteps
  <2> QED BY <1>8, <2>1, <2>2, <2>3 DEF Nodes!LLMNode, Nodes!SubgraphNode,
    Nodes!SubgraphNodeWithTransform, Nodes!Value
<1> QED BY <1>6, <1>7, <1>8

LEMMA NodesStep ==
  ASSUME NodesHold, [Nodes!Next]_(Nodes!vars)
  PROVE  NodesHold'
<1>1. CASE Nodes!ReachEnd
  BY <1>1 DEF Nodes!ReachEnd, NodesHold, Said, EndsInGreatest, Nodes!MessagesAreNeverLost,
    Nodes!NodesReadTheNewest
<1>2. CASE UNCHANGED Nodes!vars
  BY <1>2 DEF Nodes!vars, NodesHold, Said, EndsInGreatest, Nodes!MessagesAreNeverLost,
    Nodes!NodesReadTheNewest
<1> QED BY <1>1, <1>2, NodesAreSteps, NodeStepKeeps DEF Nodes!Next

-------------------------------------------------------------------------------
\* StateGraph::compile, has_path_to_end; merge_state_update and the nodes: what compile
\* accepts is a graph whose edges join what is there and whose START reaches END, it
\* refuses no such graph, no message of a node is lost or moved, and a node is asked about
\* the newest there is.
THEOREM GraphsCorrect == Builds!Spec /\ Nodes!Spec => []GraphsHold
<1>1. Builds!Spec => []BuildsHold
  BY BuildsInit, BuildsStep, PTL DEF Builds!Spec
<1>2. Nodes!Spec => []NodesHold
  BY NodesInit, NodesStep, PTL DEF Nodes!Spec
<1>3. BuildsHold /\ NodesHold => GraphsHold
  BY DEF BuildsHold, NodesHold, GraphsHold
<1> QED BY <1>1, <1>2, <1>3, PTL
-------------------------------------------------------------------------------
(***************************************************************************)
(* Conversation.  A call has added one turn for every try that was         *)
(* answered, and no two calls add under the same number; so where others   *)
(* add their turns between its question and its answer makes no            *)
(* difference.                                                             *)
(***************************************************************************)

Spoken == [by : {"human", "ai"}, id : Nat, try : Nat, said : Nat]

Calls ==
  [at : Chains!Places, kind : Chains!Kinds, id : Nat, read : Nat, retrievals : Nat,
   tries : Nat, said : Nat, items : Nat, accepted : BOOLEAN]

TurnsIn(m, id) == Selected(m, {i \in DOMAIN m : m[i].by = "ai" /\ m[i].id = id})

\* The turns that a call has added.
TurnsDone(k) == k.tries + (IF k.at \in {"validate", "returned"} THEN 1 ELSE 0)

OneTurnEach(t, n) == Len(t) = n /\ \A i \in 1..Len(t) : t[i].try = i - 1

\* A memory of calls up to n: whole turns, and those of a call in the order of its tries.
Whole(m, n) ==
  /\ m \in Seq(Spoken)
  /\ \A i \in 1..Len(m) : m[i].id \in 1..n
  /\ Len(m) % 2 = 0
  /\ \A i \in 1..Len(m) : i % 2 = 1 =>
       /\ m[i].by = "human" /\ m[i + 1].by = "ai"
       /\ m[i].id = m[i + 1].id /\ m[i].try = m[i + 1].try
  /\ \A i, j \in 1..Len(m) : m[i].id = m[j].id /\ i < j => m[i].try <= m[j].try

\* A call, of the first n, in a memory.
CallHolds(k, m, n) ==
  /\ k \in Calls
  /\ k.id <= n
  /\ k.tries <= MaxGenerationRetries
  /\ k.at = "stream" => k.kind = "stream"
  /\ k.at = "returned" /\ k.kind = "hybrid" => k.accepted \/ k.tries = MaxGenerationRetries
  /\ k.at # "idle" => k.id >= 1
  /\ \A i \in 1..Len(m) : m[i].id = k.id => m[i].try <= k.tries
  /\ k.at \notin {"idle", "failed"} => OneTurnEach(TurnsIn(m, k.id), TurnsDone(k))

ChatsHold ==
  /\ chats \in Nat
  /\ Whole(memory, chats)
  /\ chat \in [Chatter -> Calls]
  /\ \A c \in Chatter : CallHolds(chat[c], memory, chats)
  /\ \A c, d \in Chatter : c # d /\ chat[c].id = chat[d].id => chat[c].id = 0

LEMMA ChatsInit ==
  ASSUME Chains!Init
  PROVE  ChatsHold
<1>1. memory = <<>> /\ Len(memory) = 0 /\ chats = 0 /\ chat = [c \in Chatter |-> Chains!Idle]
  BY DEF Chains!Init
<1>2. Chains!Idle \in Calls /\ Chains!Idle.id = 0 /\ Chains!Idle.at = "idle" /\ Chains!Idle.tries = 0
  BY DEF Chains!Idle, Calls, Chains!Places, Chains!Kinds
<1>3. Whole(<<>>, 0)
  BY DEF Whole
<1>4. CallHolds(Chains!Idle, <<>>, 0)
  BY <1>2, ChainsAssumption DEF CallHolds
<1> QED BY <1>1, <1>2, <1>3, <1>4 DEF ChatsHold

\* A call goes on with the memory as it is.
LEMMA CallGoesOn ==
  ASSUME ChatsHold, NEW c \in Chatter, NEW new, CallHolds(new, memory, chats),
         new.id = chat[c].id,
         memory' = memory, chats' = chats, chat' = [chat EXCEPT ![c] = new]
  PROVE  ChatsHold'
<1>1. new \in Calls
  BY DEF CallHolds
<1>2. chat' \in [Chatter -> Calls]
  BY <1>1 DEF ChatsHold
<1>3. \A d \in Chatter : chat'[d] = IF d = c THEN new ELSE chat[d]
  BY DEF ChatsHold
<1> QED BY <1>2, <1>3 DEF ChatsHold

\* A caller calls.
LEMMA CallBegins ==
  ASSUME ChatsHold, NEW c \in Chatter, NEW kind \in Chains!Kinds, Chains!Begin(c, kind)
  PROVE  ChatsHold'
<1> DEFINE new == [Chains!Idle EXCEPT !.at = IF kind = "hybrid" THEN "retrieve" ELSE "read",
                                      !.kind = kind, !.id = chats + 1]
<1>1. memory' = memory /\ chats' = chats + 1 /\ chat' = [chat EXCEPT ![c] = new]
  BY DEF Chains!Begin
<1>2. chats \in Nat
  BY DEF ChatsHold
<1>3. /\ new \in Calls /\ new.id = chats + 1 /\ new.tries = 0 /\ new.at \in {"retrieve", "read"}
  <2>1. PICK to \in {"retrieve", "read"} : to = IF kind = "hybrid" THEN "retrieve" ELSE "read"
    OBVIOUS
  <2>2. new = [Chains!Idle EXCEPT !.at = to, !.kind = kind, !.id = chats + 1]
    BY <2>1
  <2>3. new.at = to /\ new.id = chats + 1 /\ new.tries = 0
    BY <2>2 DEF Chains!Idle
  <2>4. Chains!Idle \in Calls
    BY DEF Chains!Idle, Calls, Chains!Places, Chains!Kinds
  <2>5. to \in Chains!Places /\ chats + 1 \in Nat
    BY <1>2 DEF Chains!Places
  <2> HIDE DEF new
  <2>6. new \in Calls
    BY <2>2, <2>4, <2>5 DEF Calls
  <2> QED BY <2>1, <2>3, <2>6
<1> HIDE DEF new
<1>4. \A i \in 1..Len(memory) : memory[i].id # chats + 1
  BY <1>2 DEF ChatsHold, Whole
<1>5. TurnsIn(memory, chats + 1) = <<>>
  <2>1. memory \in Seq(Spoken)
    BY DEF ChatsHold, Whole
  <2>2. PICK P : P = {i \in DOMAIN memory : memory[i].by = "ai" /\ memory[i].id = chats + 1}
    OBVIOUS
  <2>3. P = {}
    BY <1>4, <2>1, <2>2
  <2>4. PICK g : Selects(g, memory, P, Selected(memory, P)) /\ Selected(memory, P) \in Seq(Spoken)
    BY <2>1, SelectedElements
  <2>5. \A r \in 1..Len(Selected(memory, P)) : FALSE
    BY <2>3, <2>4 DEF Selects
  <2>6. PICK p : p = Selected(memory, P)
    OBVIOUS
  <2>7. p \in Seq(Spoken) /\ \A r \in 1..Len(p) : FALSE
    BY <2>4, <2>5, <2>6
  <2>8. p = <<>>
    BY ONLY <2>7
  <2> QED BY <2>2, <2>6, <2>8 DEF TurnsIn
<1>6. CallHolds(new, memory, chats + 1)
  <2>1. OneTurnEach(<<>>, 0)
    BY DEF OneTurnEach
  <2>2. TurnsDone(new) = 0
    BY <1>3 DEF TurnsDone
  <2> QED BY <1>2, <1>3, <1>4, <1>5, <2>1, <2>2, ChainsAssumption DEF CallHolds
<1>7. Whole(memory, chats + 1)
  BY <1>2 DEF ChatsHold, Whole
<1>8. chat' \in [Chatter -> Calls]
  BY <1>1, <1>3 DEF ChatsHold
<1>9. \A d \in Chatter : chat'[d] = IF d = c THEN new ELSE chat[d]
  BY <1>1 DEF ChatsHold
<1>10. \A d \in Chatter : chat[d].id \in 0..chats
  BY <1>2 DEF ChatsHold, CallHolds, Calls
<1>11. \A d \in Chatter : CallHolds(chat[d], memory, chats + 1)
  <2>1. \A d \in Chatter : chat[d].id <= chats + 1
    BY <1>2, <1>10
  <2> QED BY <2>1 DEF ChatsHold, CallHolds
<1>12. \A d \in Chatter : CallHolds(chat'[d], memory, chats + 1)
  BY <1>6, <1>9, <1>11
<1>13. \A d, e \in Chatter : d # e /\ chat'[d].id = chat'[e].id => chat'[d].id = 0
  BY <1>2, <1>3, <1>9, <1>10 DEF ChatsHold
<1> QED BY <1>1, <1>2, <1>7, <1>8, <1>12, <1>13 DEF ChatsHold

\* A turn behind the others is the last of its call, and not of any other.
LEMMA TurnAdded ==
  ASSUME NEW m \in Seq(Spoken), NEW h \in Spoken, NEW a \in Spoken,
         h.by = "human", a.by = "ai"
  PROVE  /\ TurnsIn(m, a.id) \in Seq(Spoken)
         /\ TurnsIn(Append(Append(m, h), a), a.id) = Append(TurnsIn(m, a.id), a)
         /\ \A id : id # a.id => TurnsIn(Append(Append(m, h), a), id) = TurnsIn(m, id)
<1> DEFINE At(s, id) == {i \in DOMAIN s : s[i].by = "ai" /\ s[i].id = id}
<1>1. PICK n \in Nat : n = Len(m)
  OBVIOUS
<1>2. PICK o : o = Append(m, h)
  OBVIOUS
<1>3. o \in Seq(Spoken) /\ Len(o) = n + 1 /\ o[n + 1] = h /\ \A i \in 1..n : o[i] = m[i]
  BY <1>1, <1>2
<1>4. PICK p : p = Append(o, a)
  OBVIOUS
<1>5. /\ p \in Seq(Spoken) /\ Len(p) = n + 2 /\ p[n + 2] = a
      /\ \A i \in 1..(n + 1) : p[i] = o[i]
  BY <1>1, <1>3, <1>4
<1>6. DOMAIN m = 1..n /\ DOMAIN o = 1..(n + 1) /\ DOMAIN p = 1..(n + 2)
  BY <1>1, <1>3, <1>5
<1>7. ASSUME NEW id
      PROVE  Selected(o, At(o, id)) = Selected(m, At(m, id))
  <2>1. \A i \in 1..Len(m) : i \in At(m, id) <=> i \in At(o, id)
    BY <1>1, <1>3, <1>6
  <2>2. Len(m) + 1 \notin At(o, id)
    BY <1>1, <1>3
  <2> HIDE DEF At
  <2>3. PICK P : P = At(m, id)
    OBVIOUS
  <2>4. PICK Q : Q = At(o, id)
    OBVIOUS
  <2>5. Selected(Append(m, h), Q) = Selected(m, P)
    BY <2>1, <2>2, <2>3, <2>4, SelectedAppend
  <2> QED BY <2>3, <2>4, <2>5, <1>2
<1>8. ASSUME NEW id
      PROVE  Selected(p, At(p, id)) = IF a.id = id THEN Append(Selected(o, At(o, id)), a)
                                                   ELSE Selected(o, At(o, id))
  <2>1. \A i \in 1..Len(o) : i \in At(o, id) <=> i \in At(p, id)
    BY <1>1, <1>3, <1>5, <1>6
  <2>2. Len(o) + 1 \in At(p, id) <=> a.id = id
    BY <1>1, <1>3, <1>5, <1>6
  <2> HIDE DEF At
  <2>3. PICK P : P = At(o, id)
    OBVIOUS
  <2>4. PICK Q : Q = At(p, id)
    OBVIOUS
  <2>5. Selected(Append(o, a), Q) = IF Len(o) + 1 \in Q THEN Append(Selected(o, P), a) ELSE Selected(o, P)
    BY <2>1, <2>3, <2>4, <1>3, SelectedAppend
  <2> QED BY <2>2, <2>3, <2>4, <2>5, <1>4
<1>9. \A id : Selected(m, At(m, id)) \in Seq(Spoken)
  BY SelectedElements
<1>10. \A s, id : TurnsIn(s, id) = Selected(s, At(s, id))
  BY DEF TurnsIn
<1> HIDE DEF At
<1>11. TurnsIn(m, a.id) \in Seq(Spoken)
  BY <1>9, <1>10
<1>12. TurnsIn(p, a.id) = Append(TurnsIn(m, a.id), a)
  BY <1>7, <1>8, <1>10
<1>13. \A id : id # a.id => TurnsIn(p, id) = TurnsIn(m, id)
  BY <1>7, <1>8, <1>10
<1> QED BY <1>2, <1>4, <1>11, <1>12, <1>13

\* A call adds its turn to the memory.
LEMMA TurnKeeps ==
  ASSUME ChatsHold, NEW c \in Chatter, NEW k \in Calls, NEW new \in Calls,
         chat[c].at \in {"ask", "stream"}, k.id = chat[c].id, k.tries = chat[c].tries,
         new.id = k.id, new.tries = k.tries, new.at \in {"validate", "returned"},
         new.kind = "hybrid" => new.at = "validate",
         memory' = memory \o <<Chains!Human(k), Chains!Ai(k)>>,
         chats' = chats, chat' = [chat EXCEPT ![c] = new]
  PROVE  ChatsHold'
<1>1. PICK h : h = Chains!Human(k)
  OBVIOUS
<1>2. PICK a : a = Chains!Ai(k)
  OBVIOUS
<1>3. k.id \in Nat /\ k.tries \in Nat /\ k.said \in Nat
  BY DEF Calls
<1>4. h \in Spoken /\ h.by = "human" /\ h.id = k.id /\ h.try = k.tries
  BY <1>1, <1>3 DEF Spoken, Chains!Human
<1>5. a \in Spoken /\ a.by = "ai" /\ a.id = k.id /\ a.try = k.tries
  BY <1>2, <1>3 DEF Spoken, Chains!Ai
<1>6. memory \in Seq(Spoken) /\ chats \in Nat
  BY DEF ChatsHold, Whole
<1>7. PICK n \in Nat : n = Len(memory)
  BY <1>6
<1>8. PICK m : m = Append(Append(memory, h), a)
  OBVIOUS
<1>9. memory' = m
  BY <1>1, <1>2, <1>4, <1>5, <1>6, <1>8
<1>10. PICK o : o = Append(memory, h)
  OBVIOUS
<1>11. o \in Seq(Spoken) /\ Len(o) = n + 1 /\ o[n + 1] = h /\ \A i \in 1..n : o[i] = memory[i]
  BY <1>4, <1>6, <1>7, <1>10
<1>12. /\ m \in Seq(Spoken) /\ Len(m) = n + 2 /\ m[n + 2] = a
       /\ \A i \in 1..(n + 1) : m[i] = o[i]
  BY <1>5, <1>7, <1>8, <1>10, <1>11
<1>13. m[n + 1] = h /\ \A i \in 1..n : m[i] = memory[i]
  BY <1>7, <1>11, <1>12
<1>14. CallHolds(chat[c], memory, chats) /\ Whole(memory, chats)
  BY DEF ChatsHold
<1>15. k.id \in 1..chats /\ k.tries <= MaxGenerationRetries
  BY <1>3, <1>6, <1>14 DEF CallHolds
<1>16. \A i \in 1..n : memory[i].id = k.id => memory[i].try <= k.tries
  BY <1>7, <1>14 DEF CallHolds
<1>17. Whole(m, chats)
  <2>1. \A i \in 1..(n + 2) : i \in 1..n \/ i = n + 1 \/ i = n + 2
    BY <1>7
  <2>2. \A i \in 1..n : m[i].id \in 1..chats
    BY <1>7, <1>13, <1>14 DEF Whole
  <2>3. \A i \in 1..(n + 2) : m[i].id \in 1..chats
    BY <1>4, <1>5, <1>12, <1>13, <1>15, <2>1, <2>2
  <2>4. n % 2 = 0 /\ (n + 2) % 2 = 0 /\ (n + 1) % 2 = 1
    <3>1. n % 2 = 0
      BY <1>7, <1>14 DEF Whole
    <3>2. ASSUME NEW x \in Nat, x % 2 = 0
          PROVE  (x + 2) % 2 = 0 /\ (x + 1) % 2 = 1
      BY ONLY <3>2
    <3> QED BY <1>7, <3>1, <3>2
  <2>5. ASSUME NEW i \in 1..n, i % 2 = 1
        PROVE  /\ i + 1 \in 1..n
               /\ memory[i].by = "human" /\ memory[i + 1].by = "ai"
               /\ memory[i].id = memory[i + 1].id /\ memory[i].try = memory[i + 1].try
    BY <1>7, <1>14, <2>4, <2>5 DEF Whole
  <2>6. \A i \in 1..(n + 2) : i % 2 = 1 =>
          /\ m[i].by = "human" /\ m[i + 1].by = "ai"
          /\ m[i].id = m[i + 1].id /\ m[i].try = m[i + 1].try
    <3>1. ASSUME NEW i \in 1..(n + 2), i % 2 = 1
          PROVE  /\ m[i].by = "human" /\ m[i + 1].by = "ai"
                 /\ m[i].id = m[i + 1].id /\ m[i].try = m[i + 1].try
      <4>1. CASE i \in 1..n
        BY <1>13, <2>5, <3>1, <4>1
      <4>2. CASE i = n + 1
        <5>1. m[i] = h /\ m[i + 1] = a
          BY <1>7, <1>12, <1>13, <4>2
        <5> QED BY <1>4, <1>5, <5>1
      <4> QED BY <2>1, <2>4, <3>1, <4>1, <4>2
    <3> QED BY <3>1
  <2>7. \A i, j \in 1..n : memory[i].id = memory[j].id /\ i < j => memory[i].try <= memory[j].try
    BY <1>7, <1>14 DEF Whole
  <2>8. \A i, j \in 1..(n + 2) : m[i].id = m[j].id /\ i < j => m[i].try <= m[j].try
    <3>1. ASSUME NEW i \in 1..(n + 2), NEW j \in 1..(n + 2), m[i].id = m[j].id, i < j
          PROVE  m[i].try <= m[j].try
      <4>1. CASE j \in 1..n
        <5>1. i \in 1..n
          BY <1>7, <3>1, <4>1
        <5> QED BY <1>13, <2>7, <3>1, <4>1, <5>1
      <4>2. CASE j \notin 1..n
        <5>1. m[j].id = k.id /\ m[j].try = k.tries
          BY <1>4, <1>5, <1>12, <1>13, <2>1, <4>2
        <5>2. CASE i \in 1..n
          BY <1>13, <1>16, <3>1, <5>1, <5>2
        <5>3. CASE i \notin 1..n
          <6>1. m[i].try = k.tries
            BY <1>4, <1>5, <1>12, <1>13, <2>1, <5>3
          <6> QED BY <1>3, <5>1, <6>1
        <5> QED BY <5>2, <5>3
      <4> QED BY <4>1, <4>2
    <3> QED BY <3>1
  <2> QED BY <1>12, <2>3, <2>4, <2>6, <2>8 DEF Whole
<1>18. /\ TurnsIn(memory, k.id) \in Seq(Spoken)
       /\ TurnsIn(m, k.id) = Append(TurnsIn(memory, k.id), a)
       /\ \A id : id # k.id => TurnsIn(m, id) = TurnsIn(memory, id)
  BY <1>4, <1>5, <1>6, <1>8, TurnAdded
<1>19. CallHolds(new, m, chats)
  <2>1. OneTurnEach(TurnsIn(memory, k.id), k.tries)
    <3>1. OneTurnEach(TurnsIn(memory, chat[c].id), TurnsDone(chat[c]))
      BY <1>14 DEF CallHolds
    <3>2. TurnsDone(chat[c]) = k.tries
      BY <1>3 DEF TurnsDone
    <3> QED BY <3>1, <3>2
  <2>2. PICK t : t = TurnsIn(memory, k.id)
    OBVIOUS
  <2>3. t \in Seq(Spoken) /\ Len(t) = k.tries /\ \A i \in 1..Len(t) : t[i].try = i - 1
    BY <1>18, <2>1, <2>2 DEF OneTurnEach
  <2>4. PICK u : u = Append(t, a)
    OBVIOUS
  <2>5. Len(u) = k.tries + 1 /\ u[k.tries + 1] = a /\ \A i \in 1..k.tries : u[i] = t[i]
    BY <1>3, <1>5, <2>3, <2>4
  <2>6. \A i \in 1..(k.tries + 1) : u[i].try = i - 1
    <3>1. \A i \in 1..(k.tries + 1) : i \in 1..k.tries \/ i = k.tries + 1
      BY <1>3
    <3>2. \A i \in 1..k.tries : u[i].try = i - 1
      BY <2>3, <2>5
    <3>3. u[k.tries + 1].try = (k.tries + 1) - 1
      BY <1>3, <1>5, <2>5
    <3> QED BY <3>1, <3>2, <3>3
  <2>7. OneTurnEach(u, k.tries + 1)
    BY <2>5, <2>6 DEF OneTurnEach
  <2>8. TurnsDone(new) = k.tries + 1
    BY DEF TurnsDone
  <2>9. TurnsIn(m, new.id) = u
    BY <1>18, <2>2, <2>4
  <2>10. \A i \in 1..Len(m) : m[i].id = new.id => m[i].try <= new.tries
    <3>1. \A i \in 1..(n + 2) : i \in 1..n \/ i = n + 1 \/ i = n + 2
      BY <1>7
    <3>2. \A i \in 1..n : m[i].id = k.id => m[i].try <= k.tries
      BY <1>13, <1>16
    <3> QED BY <1>3, <1>4, <1>5, <1>12, <1>13, <3>1, <3>2
  <2> QED BY <1>3, <1>6, <1>15, <2>7, <2>8, <2>9, <2>10 DEF CallHolds
<1>20. ASSUME NEW d \in Chatter, d # c
       PROVE  CallHolds(chat[d], m, chats)
  <2>1. chat[d].id # k.id
    BY <1>15, <1>20 DEF ChatsHold
  <2>2. CallHolds(chat[d], memory, chats)
    BY DEF ChatsHold
  <2>3. TurnsIn(m, chat[d].id) = TurnsIn(memory, chat[d].id)
    BY <1>18, <2>1
  <2>4. \A i \in 1..Len(m) : m[i].id = chat[d].id => m[i].try <= chat[d].tries
    <3>1. \A i \in 1..(n + 2) : i \in 1..n \/ i = n + 1 \/ i = n + 2
      BY <1>7
    <3>2. \A i \in 1..n : m[i].id = chat[d].id => m[i].try <= chat[d].tries
      BY <1>7, <1>13, <2>2 DEF CallHolds
    <3> QED BY <1>4, <1>5, <1>12, <1>13, <2>1, <3>1, <3>2
  <2> QED BY <2>2, <2>3, <2>4 DEF CallHolds
<1>21. \A d \in Chatter : chat'[d] = IF d = c THEN new ELSE chat[d]
  BY DEF ChatsHold
<1>22. chat' \in [Chatter -> Calls]
  BY DEF ChatsHold
<1>23. \A d \in Chatter : CallHolds(chat'[d], m, chats)
  BY <1>19, <1>20, <1>21
<1>24. \A d, e \in Chatter : d # e /\ chat'[d].id = chat'[e].id => chat'[d].id = 0
  BY <1>21 DEF ChatsHold
<1> QED BY <1>6, <1>9, <1>17, <1>22, <1>23, <1>24 DEF ChatsHold

\* A place is left for another, and nothing else changes.
LEMMA PlaceLeft ==
  ASSUME ChatsHold, NEW c \in Chatter, NEW to \in Chains!Places,
         to \notin {"idle", "stream"},
         to = "failed" \/ TurnsDone([chat[c] EXCEPT !.at = to]) = TurnsDone(chat[c]),
         to = "returned" => chat[c].kind # "hybrid" \/ chat[c].tries = MaxGenerationRetries,
         chat[c].at \notin {"idle", "failed"},
         memory' = memory, chats' = chats, chat' = [chat EXCEPT ![c].at = to]
  PROVE  ChatsHold'
<1>1. PICK k : k = chat[c]
  OBVIOUS
<1>2. PICK new : new = [k EXCEPT !.at = to]
  OBVIOUS
<1>3. k \in Calls /\ CallHolds(k, memory, chats) /\ k.at \notin {"idle", "failed"}
  BY <1>1 DEF ChatsHold
<1>4. /\ new.at = to /\ new.id = k.id /\ new.kind = k.kind /\ new.tries = k.tries
      /\ new.accepted = k.accepted
  BY <1>2, <1>3 DEF Calls
<1>5. new \in Calls
  BY <1>2, <1>3 DEF Calls
<1>6. to = "failed" \/ TurnsDone(new) = TurnsDone(k)
  BY <1>1, <1>2
<1>7. CallHolds(new, memory, chats)
  BY <1>1, <1>3, <1>4, <1>5, <1>6 DEF CallHolds
<1>8. chat' = [chat EXCEPT ![c] = new]
  BY <1>1, <1>2 DEF ChatsHold
<1> QED BY <1>1, <1>4, <1>7, <1>8, CallGoesOn

LEMMA ChatsStep ==
  ASSUME ChatsHold, [Chains!Next]_(Chains!vars)
  PROVE  ChatsHold'
<1>1. CASE UNCHANGED Chains!vars
  BY <1>1 DEF ChatsHold, Chains!vars
<1>2. SUFFICES ASSUME NEW c \in Chatter,
                      \/ \E kind \in Chains!Kinds : Chains!Begin(c, kind)
                      \/ Chains!Retrieved(c) \/ Chains!RetrievalRejected(c)
                      \/ Chains!ReadHistory(c)
                      \/ \E ok \in BOOLEAN : Chains!Item(c, ok)
                      \/ Chains!Answered(c) \/ Chains!Drained(c)
                      \/ Chains!Accept(c) \/ Chains!Reject(c)
                      \/ Chains!Fails(c)
               PROVE  ChatsHold'
  BY <1>1 DEF Chains!Next
<1>3. PICK k : k = chat[c]
  OBVIOUS
<1>4. k \in Calls /\ CallHolds(k, memory, chats)
  BY <1>3 DEF ChatsHold
<1>5. memory \in Seq(Spoken) /\ Len(memory) \in Nat
  BY DEF ChatsHold, Whole
<1>6. CASE \E kind \in Chains!Kinds : Chains!Begin(c, kind)
  BY <1>6, CallBegins
<1>7. CASE Chains!Retrieved(c)
  <2>1. k.at = "retrieve" /\ chat' = [chat EXCEPT ![c].at = "read"]
        /\ memory' = memory /\ chats' = chats
    BY <1>3, <1>7 DEF Chains!Retrieved, Chains!Goes
  <2>2. TurnsDone([k EXCEPT !.at = "read"]) = TurnsDone(k) /\ "read" \in Chains!Places
    BY <1>4, <2>1 DEF TurnsDone, Chains!Places, Calls
  <2> QED BY <1>3, <2>1, <2>2, PlaceLeft
<1>8. CASE Chains!RetrievalRejected(c)
  <2>1. k.at = "retrieve" /\ memory' = memory /\ chats' = chats
    BY <1>3, <1>8 DEF Chains!RetrievalRejected
  <2>2. CASE k.retrievals < MaxRetrievalRetries
    <3>1. PICK new : new = [k EXCEPT !.retrievals = @ + 1]
      OBVIOUS
    <3>2. chat' = [chat EXCEPT ![c] = new]
      BY <1>3, <1>8, <2>2, <3>1 DEF Chains!RetrievalRejected
    <3>3. new \in Calls
      BY <1>4, <3>1 DEF Calls
    <3>4. new.at = k.at /\ new.id = k.id /\ new.kind = k.kind /\ new.tries = k.tries
      BY <1>4, <3>1 DEF Calls
    <3>5. CallHolds(new, memory, chats)
      BY <1>4, <2>1, <3>3, <3>4 DEF CallHolds, TurnsDone
    <3> QED BY <1>3, <2>1, <3>2, <3>4, <3>5, CallGoesOn
  <2>3. CASE ~ (k.retrievals < MaxRetrievalRetries)
    <3>1. chat' = [chat EXCEPT ![c].at = "read"]
      BY <1>3, <1>8, <2>3 DEF Chains!RetrievalRejected, Chains!Goes
    <3>2. TurnsDone([k EXCEPT !.at = "read"]) = TurnsDone(k) /\ "read" \in Chains!Places
      BY <1>4, <2>1 DEF TurnsDone, Chains!Places, Calls
    <3> QED BY <1>3, <2>1, <3>1, <3>2, PlaceLeft
  <2> QED BY <2>2, <2>3
<1>9. CASE Chains!ReadHistory(c)
  <2>1. PICK to \in {"stream", "ask"} : to = IF k.kind = "stream" THEN "stream" ELSE "ask"
    OBVIOUS
  <2>2. PICK new : new = [k EXCEPT !.read = Len(memory), !.said = 0, !.items = 0, !.at = to]
    OBVIOUS
  <2>3. /\ k.at = "read" /\ memory' = memory /\ chats' = chats
        /\ chat' = [chat EXCEPT ![c] = new]
    BY <1>3, <1>9, <2>1, <2>2 DEF Chains!ReadHistory
  <2>4. to \in Chains!Places
    BY DEF Chains!Places
  <2>5. new \in Calls
    BY <1>4, <1>5, <2>2, <2>4 DEF Calls
  <2>6. new.at = to /\ new.id = k.id /\ new.kind = k.kind /\ new.tries = k.tries
    BY <1>4, <2>2 DEF Calls
  <2>7. TurnsDone(new) = TurnsDone(k)
    BY <2>1, <2>3, <2>6 DEF TurnsDone
  <2>8. CallHolds(new, memory, chats)
    BY <1>4, <2>1, <2>3, <2>5, <2>6, <2>7 DEF CallHolds
  <2> QED BY <1>3, <2>3, <2>6, <2>8, CallGoesOn
<1>10. CASE \E ok \in BOOLEAN : Chains!Item(c, ok)
  <2>1. PICK ok \in BOOLEAN : Chains!Item(c, ok)
    BY <1>10
  <2>2. PICK said \in Nat : said = IF ok THEN k.said + 1 ELSE k.said
    BY <1>4 DEF Calls
  <2>3. PICK items \in Nat : items = k.items + 1
    BY <1>4 DEF Calls
  <2>4. PICK new : new = [k EXCEPT !.items = items, !.said = said]
    OBVIOUS
  <2>5. /\ k.at = "stream" /\ memory' = memory /\ chats' = chats
        /\ chat' = [chat EXCEPT ![c] = new]
    BY <1>3, <2>1, <2>2, <2>4, <2>3 DEF Chains!Item
  <2>6. new \in Calls
    BY <1>4, <2>2, <2>4, <2>3 DEF Calls
  <2>7. new.at = k.at /\ new.id = k.id /\ new.kind = k.kind /\ new.tries = k.tries
    BY <1>4, <2>4 DEF Calls
  <2>8. CallHolds(new, memory, chats)
    BY <1>4, <2>5, <2>6, <2>7 DEF CallHolds, TurnsDone
  <2> QED BY <1>3, <2>5, <2>7, <2>8, CallGoesOn
<1>11. CASE Chains!Answered(c)
  <2>1. PICK to \in {"validate", "returned"} :
          to = IF k.kind = "hybrid" THEN "validate" ELSE "returned"
    OBVIOUS
  <2>2. PICK heard : heard = [k EXCEPT !.said = 1]
    OBVIOUS
  <2>3. heard \in Calls /\ heard.id = k.id /\ heard.tries = k.tries /\ heard.kind = k.kind
    BY <1>4, <2>2 DEF Calls
  <2>4. PICK new : new = [heard EXCEPT !.at = to]
    OBVIOUS
  <2>5. to \in Chains!Places
    BY DEF Chains!Places
  <2>6. /\ new \in Calls /\ new.at = to /\ new.id = k.id /\ new.tries = k.tries
        /\ new.kind = k.kind
    BY <2>3, <2>4, <2>5 DEF Calls
  <2>7. /\ k.at = "ask" /\ chats' = chats
        /\ memory' = memory \o <<Chains!Human(heard), Chains!Ai(heard)>>
    BY <1>3, <1>11, <2>2 DEF Chains!Answered, Chains!AddTurn, Chains!WithTurn
  <2>8. chat' = [chat EXCEPT ![c] = new]
    BY <1>3, <1>11, <2>1, <2>2, <2>3, <2>4 DEF Chains!Answered
  <2> QED BY <1>3, <2>1, <2>3, <2>6, <2>7, <2>8, TurnKeeps
<1>12. CASE Chains!Drained(c)
  <2>1. PICK new : new = [k EXCEPT !.at = "returned"]
    OBVIOUS
  <2>2. /\ k.at = "stream" /\ chats' = chats
        /\ memory' = memory \o <<Chains!Human(k), Chains!Ai(k)>>
        /\ chat' = [chat EXCEPT ![c] = new]
    BY <1>3, <1>12, <2>1 DEF Chains!Drained, Chains!AddTurn, Chains!WithTurn, Chains!Goes
  <2>3. new \in Calls /\ new.at = "returned" /\ new.id = k.id /\ new.tries = k.tries
        /\ new.kind = k.kind
    BY <1>4, <2>1 DEF Calls, Chains!Places
  <2>4. new.kind # "hybrid"
    BY <1>4, <2>2, <2>3 DEF CallHolds
  <2> QED BY <1>3, <1>4, <2>2, <2>3, <2>4, TurnKeeps
<1>13. CASE Chains!Accept(c)
  <2>1. PICK new : new = [k EXCEPT !.at = "returned", !.accepted = TRUE]
    OBVIOUS
  <2>2. /\ k.at = "validate" /\ memory' = memory /\ chats' = chats
        /\ chat' = [chat EXCEPT ![c] = new]
    BY <1>3, <1>13, <2>1 DEF Chains!Accept
  <2>3. new \in Calls
    BY <1>4, <2>1 DEF Calls, Chains!Places
  <2>4. new.at = "returned" /\ new.id = k.id /\ new.tries = k.tries
    BY <1>4, <2>1 DEF Calls
  <2>5. new.accepted
    BY <1>4, <2>1 DEF Calls
  <2>6. TurnsDone(new) = TurnsDone(k)
    BY <2>2, <2>4 DEF TurnsDone
  <2>7. CallHolds(new, memory, chats)
    BY <1>4, <2>2, <2>3, <2>4, <2>5, <2>6 DEF CallHolds
  <2> QED BY <1>3, <2>2, <2>4, <2>7, CallGoesOn
<1>14. CASE Chains!Reject(c)
  <2>1. k.at = "validate" /\ memory' = memory /\ chats' = chats
    BY <1>3, <1>14 DEF Chains!Reject
  <2>2. CASE k.tries < MaxGenerationRetries
    <3>1. PICK tries \in Nat : tries = k.tries + 1
      BY <1>4 DEF Calls
    <3>2. PICK new : new = [k EXCEPT !.tries = tries, !.at = "read"]
      OBVIOUS
    <3>3. chat' = [chat EXCEPT ![c] = new]
      BY <1>3, <1>14, <2>2, <3>1, <3>2 DEF Chains!Reject, Chains!RetriesLeft
    <3>4. new \in Calls
      BY <1>4, <3>1, <3>2 DEF Calls, Chains!Places
    <3>5. new.at = "read" /\ new.id = k.id /\ new.tries = k.tries + 1
      BY <1>4, <3>1, <3>2 DEF Calls
    <3>6. k.tries \in Nat /\ k.tries + 1 <= MaxGenerationRetries
      BY <1>4, <2>2, ChainsAssumption DEF Calls
    <3>7. TurnsDone(new) = TurnsDone(k)
      BY <2>1, <3>5, <3>6 DEF TurnsDone
    <3>8. \A i \in 1..Len(memory) : memory[i].id = new.id => memory[i].try <= new.tries
      <4>1. \A i \in 1..Len(memory) : memory[i] \in Spoken
        BY <1>5
      <4>2. \A i \in 1..Len(memory) : memory[i].try \in Nat
        BY <4>1 DEF Spoken
      <4>3. \A x, y \in Nat : x <= y => x <= y + 1
        OBVIOUS
      <4> QED BY <1>4, <3>5, <3>6, <4>2, <4>3 DEF CallHolds
    <3>9. CallHolds(new, memory, chats)
      BY <1>4, <2>1, <3>4, <3>5, <3>6, <3>7, <3>8 DEF CallHolds
    <3> QED BY <1>3, <2>1, <3>3, <3>5, <3>9, CallGoesOn
  <2>3. CASE ~ (k.tries < MaxGenerationRetries)
    <3>1. chat' = [chat EXCEPT ![c].at = "returned"]
      BY <1>3, <1>14, <2>3 DEF Chains!Reject, Chains!RetriesLeft, Chains!Goes
    <3>2. k.tries = MaxGenerationRetries
      BY <1>4, <2>3, ChainsAssumption DEF CallHolds, Calls
    <3>3. /\ TurnsDone([k EXCEPT !.at = "returned"]) = TurnsDone(k)
          /\ "returned" \in Chains!Places
      BY <1>4, <2>1 DEF TurnsDone, Chains!Places, Calls
    <3> QED BY <1>3, <2>1, <3>1, <3>2, <3>3, PlaceLeft
  <2> QED BY <2>2, <2>3
<1>15. CASE Chains!Fails(c)
  <2>1. /\ k.at \notin {"idle", "failed"} /\ memory' = memory /\ chats' = chats
        /\ chat' = [chat EXCEPT ![c].at = "failed"]
    BY <1>3, <1>15 DEF Chains!Fails, Chains!Goes
  <2>2. "failed" \in Chains!Places
    BY DEF Chains!Places
  <2> QED BY <1>3, <2>1, <2>2, PlaceLeft
<1> QED BY <1>2, <1>6, <1>7, <1>8, <1>9, <1>10, <1>11, <1>12, <1>13, <1>14, <1>15

LEMMA ChatsAreRight ==
  ASSUME ChatsHold
  PROVE  ConversationsHold
<1>1. Whole(memory, chats)
  BY DEF ChatsHold
<1>2. DOMAIN memory = 1..Len(memory)
  BY <1>1 DEF Whole
<1>3. Chains!TurnsAreWhole
  BY <1>1, <1>2 DEF Chains!TurnsAreWhole, Whole
<1>4. \A k : Chains!TurnsOf(k) = TurnsIn(memory, k.id)
  BY DEF Chains!TurnsOf, TurnsIn, Chains!Selected, Selected, Chains!FlattenSeq, FlattenSeq
<1>5. ASSUME NEW c \in Chatter, chat[c].at = "returned"
      PROVE  /\ Len(Chains!TurnsOf(chat[c])) = chat[c].tries + 1
             /\ \A i \in DOMAIN Chains!TurnsOf(chat[c]) : Chains!TurnsOf(chat[c])[i].try = i - 1
             /\ chat[c].kind = "hybrid" => chat[c].accepted \/ chat[c].tries = MaxGenerationRetries
  <2>1. CallHolds(chat[c], memory, chats)
    BY DEF ChatsHold
  <2>2. PICK t : t = TurnsIn(memory, chat[c].id)
    OBVIOUS
  <2>3. OneTurnEach(t, TurnsDone(chat[c]))
    BY <1>5, <2>1, <2>2 DEF CallHolds
  <2>4. TurnsDone(chat[c]) = chat[c].tries + 1
    BY <1>5 DEF TurnsDone
  <2>5. t \in Seq(Spoken)
    BY <1>1, <2>2, SelectedElements DEF TurnsIn, Whole
  <2>6. DOMAIN t = 1..Len(t)
    BY <2>5
  <2>7. t = Chains!TurnsOf(chat[c])
    BY <1>4, <2>2
  <2>8. chat[c].kind = "hybrid" => chat[c].accepted \/ chat[c].tries = MaxGenerationRetries
    BY <1>5, <2>1 DEF CallHolds
  <2> QED BY <2>3, <2>4, <2>6, <2>7, <2>8 DEF OneTurnEach
<1> QED BY <1>3, <1>5 DEF ConversationsHold, Chains!AnswersAreRemembered

\* Whoever else adds his turns between a call's question and its answer, or gives his own
\* call up, the memory is one of whole turns, and has those of a call in the order of its
\* tries: HybridRAG's loop over ConversationalRetrieverChain's lock, read, ask, lock, add.
THEOREM ConversationsCorrect == Chains!Spec => []ConversationsHold
<1>1. Chains!Spec => []ChatsHold
  BY ChatsInit, ChatsStep, PTL DEF Chains!Spec
<1> QED BY <1>1, ChatsAreRight, PTL

-------------------------------------------------------------------------------
(***************************************************************************)
(* DeepAgent.  There is never more than the deep agent and one helper, so  *)
(* what a helper may do is to be looked at for one of them only.           *)
(***************************************************************************)

Built ==
  [tools |-> DeepAgents!BaseTools \cup (IF DeepAgents!Helpers # <<>> THEN {"task"} ELSE {}),
   helpers |-> DeepAgents!Helpers, guarded |-> DeepAgents!Guarded]

\* A helper that was given its task.
AtWork(f) ==
  /\ f.agent \in {"built-in", "custom"}
  /\ f.asked \in DeepAgents!ToSet(deep.helpers) => deep.helpers[f.helper] = f.asked
  /\ f.agent = "built-in" => f.asked \notin DeepAgents!ToSet(deep_config.subagents)

DeepHolds ==
  /\ deep_config \in DeepConfigs
  /\ deep \in {DeepAgents!NoAgents, Built}
  /\ frames # <<>> => deep = Built
  /\ \/ frames = <<>>
     \/ frames = <<DeepAgents!Main>>
     \/ \E f : frames = <<DeepAgents!Main, f>> /\ AtWork(f)
  /\ DeepAgents!GuardedToolsAreApproved
  /\ "custom" \notin todos

LEMMA DeepInit ==
  ASSUME DeepAgents!Init
  PROVE  DeepHolds
BY DEF DeepAgents!Init, DeepHolds, DeepAgents!GuardedToolsAreApproved

\* A sequence of two.
LEMMA FrontOfTwo ==
  ASSUME NEW a, NEW b
  PROVE  /\ Len(<<a, b>>) = 2 /\ <<a, b>>[2] = b /\ SubSeq(<<a, b>>, 1, 1) = <<a>>
         /\ Append(<<a>>, b) = <<a, b>>
<1>1. <<a, b>> \in Seq({a, b}) /\ Len(<<a, b>>) = 2 /\ <<a, b>>[1] = a /\ <<a, b>>[2] = b
  OBVIOUS
<1>2. PICK s \in Seq({a, b}) : s = <<a, b>>
  BY <1>1
<1>3. PICK t : t = SubSeq(s, 1, 1)
  OBVIOUS
<1>4. t \in Seq({a, b}) /\ Len(t) = 1 /\ t[1] = a
  BY <1>1, <1>2, <1>3
<1>5. t = <<a>>
  BY ONLY <1>4
<1>6. Append(<<a>>, b) = <<a, b>>
  <2>1. PICK u \in Seq({a, b}) : u = <<a>>
    BY <1>4, <1>5
  <2>2. PICK v : v = Append(u, b)
    OBVIOUS
  <2>3. v \in Seq({a, b}) /\ Len(v) = 2 /\ v[1] = a /\ v[2] = b
    BY <2>1, <2>2
  <2>4. v = <<a, b>>
    BY ONLY <2>3
  <2> QED BY <2>1, <2>2, <2>4
<1> QED BY <1>1, <1>2, <1>3, <1>5, <1>6

\* The agent that runs, and what is left when it returns.
LEMMA RunsInProgress ==
  ASSUME DeepHolds, frames # <<>>
  PROVE  \/ /\ frames = <<DeepAgents!Main>> /\ Len(frames) = 1
            /\ DeepAgents!Top = DeepAgents!Main /\ DeepAgents!Front(frames) = <<>>
         \/ \E f : /\ frames = <<DeepAgents!Main, f>> /\ Len(frames) = 2 /\ AtWork(f)
                   /\ DeepAgents!Top = f /\ DeepAgents!Front(frames) = <<DeepAgents!Main>>
<1>1. CASE frames = <<DeepAgents!Main>>
  BY <1>1 DEF DeepAgents!Top, DeepAgents!Last, DeepAgents!Front
<1>2. CASE \E f : frames = <<DeepAgents!Main, f>> /\ AtWork(f)
  <2>1. PICK f : frames = <<DeepAgents!Main, f>> /\ AtWork(f)
    BY <1>2
  <2>2. Len(frames) = 2 /\ DeepAgents!Top = f
    BY <2>1 DEF DeepAgents!Top, DeepAgents!Last
  <2>3. DeepAgents!Front(frames) = <<DeepAgents!Main>>
    <3>1. DeepAgents!Front(frames) = SubSeq(frames, 1, 1)
      BY <2>2 DEF DeepAgents!Front
    <3> QED BY <2>1, <3>1, FrontOfTwo
  <2> QED BY <2>1, <2>2, <2>3
<1> QED BY <1>1, <1>2 DEF DeepHolds

\* The agent of main's frame is main.
LEMMA MainIsMain == DeepAgents!Main.agent = "main"
BY DEF DeepAgents!Main

\* A tool that runs is not one that waits for an approval.
LEMMA RunningIsApproved ==
  ASSUME DeepHolds, NEW tool, DeepAgents!Plans(tool), DeepAgents!Free(tool),
         DeepAgents!Runs(tool), deep_config' = deep_config
  PROVE  DeepAgents!GuardedToolsAreApproved'
<1>1. PICK r : r = [tool |-> tool, by |-> DeepAgents!Top.agent, approved |-> tool \in approved,
                    nth |-> DeepAgents!Cardinality(ran)]
  OBVIOUS
<1>2. ran' = ran \cup {r}
  BY <1>1 DEF DeepAgents!Runs
<1>3. r.tool = tool /\ r.by = DeepAgents!Top.agent /\ (r.approved <=> tool \in approved)
  BY <1>1
<1>4. frames # <<>>
  BY DEF DeepAgents!Plans
<1>5. deep = Built
  BY <1>4 DEF DeepHolds
<1>6. deep.guarded = DeepAgents!Guarded
  BY <1>5 DEF Built
<1> DEFINE Kept(t) == \/ t \in DOMAIN deep_config.interrupt_on /\ deep_config.interrupt_on[t]
                      \/ t \in deep_config.interrupt_before_tools \ DOMAIN deep_config.interrupt_on
<1>7. ASSUME Kept(tool)
      PROVE  tool \in deep.guarded
  BY <1>6, <1>7 DEF DeepAgents!Guarded
<1>8. Kept(tool) /\ r.by # "custom" => r.approved
  <2> SUFFICES ASSUME Kept(tool), r.by # "custom"
               PROVE  r.approved
    OBVIOUS
  <2> HIDE DEF Kept
  <2>1. DeepAgents!Top.agent \in {"main", "built-in"}
    BY <1>3, <1>4, RunsInProgress, MainIsMain DEF AtWork
  <2>2. tool \in DeepAgents!GuardsOf(DeepAgents!Top.agent)
    BY <1>7, <2>1 DEF DeepAgents!GuardsOf
  <2>3. tool \in approved
    BY <2>2 DEF DeepAgents!Free
  <2> QED BY <1>3, <2>3
<1>9. \A s \in ran : Kept(s.tool) /\ s.by # "custom" => s.approved
  BY DEF DeepHolds, DeepAgents!GuardedToolsAreApproved
<1>10. \A s \in ran' : Kept(s.tool) /\ s.by # "custom" => s.approved
  <2> HIDE DEF Kept
  <2> QED BY <1>2, <1>3, <1>8, <1>9
<1> QED BY <1>10 DEF DeepAgents!GuardedToolsAreApproved

\* The caller's subagents plan nothing that is the deep agent's.
LEMMA WhoPlans ==
  ASSUME DeepHolds, NEW tool, DeepAgents!Plans(tool)
  PROVE  /\ tool = "task" => frames = <<DeepAgents!Main>>
         /\ tool = "write_todos" => DeepAgents!Top.agent # "custom"
<1>1. frames # <<>> /\ tool \in DeepAgents!ToolsOf(DeepAgents!Top.agent)
  BY DEF DeepAgents!Plans
<1>2. "task" \notin DeepAgents!ToolsOf("built-in") /\ "task" \notin DeepAgents!ToolsOf("custom")
  BY DEF DeepAgents!ToolsOf
<1>3. "write_todos" \notin DeepAgents!ToolsOf("custom")
  BY DEF DeepAgents!ToolsOf
<1> QED BY <1>1, <1>2, <1>3, RunsInProgress DEF AtWork

LEMMA ConfigurationsAre ==
  ASSUME DeepHolds
  PROVE  /\ deep_config.subagents \in Seq(STRING)
         /\ \/ DeepAgents!Helpers = <<>>
            \/ DeepAgents!Helpers = deep_config.subagents
               /\ ~ (deep_config.from = "model" \/ deep_config.default_model)
            \/ DeepAgents!Helpers = <<DeepAgents!GeneralPurpose>> \o deep_config.subagents
         /\ DeepAgents!Helpers \in Seq(STRING \cup {DeepAgents!GeneralPurpose})
<1>1. deep_config.subagents \in Seq(STRING)
  BY DeepAssumption DEF DeepHolds, DeepAgents!ConfigOK
<1> DEFINE Name == STRING \cup {DeepAgents!GeneralPurpose}
<1>2. PICK subs : subs = deep_config.subagents
  OBVIOUS
<1>3. PICK g : g = DeepAgents!GeneralPurpose
  OBVIOUS
<1>4. subs \in Seq(Name) /\ <<g>> \in Seq(Name)
  BY <1>1, <1>2, <1>3
<1> HIDE DEF Name
<1>5. <<g>> \o subs \in Seq(Name) /\ <<>> \o subs = subs /\ <<>> \in Seq(Name)
  BY <1>4
<1>6. DeepAgents!Helpers = IF ~deep_config.task THEN <<>>
                           ELSE (IF deep_config.from = "model" \/ deep_config.default_model
                                 THEN <<g>> ELSE <<>>) \o subs
  BY <1>2, <1>3 DEF DeepAgents!Helpers
<1> QED BY <1>1, <1>2, <1>3, <1>4, <1>5, <1>6 DEF Name

\* The last of its name, if it is anybody's.
LEMMA NamedIsLast ==
  ASSUME NEW S, NEW names \in Seq(S), NEW id, \E i \in DOMAIN names : names[i] = id
  PROVE  /\ DeepAgents!Named(names, id) \in 1..Len(names)
         /\ names[DeepAgents!Named(names, id)] = id
         /\ \A j \in 1..Len(names) : names[j] = id => j <= DeepAgents!Named(names, id)
<1>1. PICK n \in Nat : n = Len(names) /\ DOMAIN names = 1..n
  OBVIOUS
<1>2. PICK T : T = {i \in 1..n : names[i] = id}
  OBVIOUS
<1>3. T \subseteq Nat /\ T # {} /\ \A t \in T : t <= n
  BY <1>1, <1>2
<1>4. PICK x \in T : \A y \in T : x >= y
  BY <1>3, BoundedSetHasMax
<1> DEFINE Fits(i) == names[i] = id /\ \A j \in i + 1..Len(names) : names[j] # id
<1>5. x \in 1..n /\ names[x] = id /\ \A j \in (x + 1)..n : names[j] # id
  BY <1>1, <1>2, <1>4
<1>6. \E i \in DOMAIN names : Fits(i)
  BY <1>1, <1>5
<1>7. PICK k : k = CHOOSE i \in DOMAIN names : Fits(i)
  OBVIOUS
<1>8. k \in DOMAIN names /\ Fits(k)
  BY <1>6, <1>7
<1>9. DeepAgents!Named(names, id) = k
  BY <1>7 DEF DeepAgents!Named
<1> QED BY <1>1, <1>8, <1>9

\* A task reaches a helper of the name that was asked for, if there is one.
LEMMA TaskIsHandedOn ==
  ASSUME DeepHolds, DeepAgents!Task
  PROVE  \E f : frames' = <<DeepAgents!Main, f>> /\ AtWork(f)
<1>1. DeepAgents!Plans("task")
  BY DEF DeepAgents!Task
<1>2. frames = <<DeepAgents!Main>> /\ deep = Built
  BY <1>1, WhoPlans DEF DeepHolds, DeepAgents!Plans
<1>3. PICK id : LET i == DeepAgents!Named(deep.helpers, id)
                IN  frames' = Append(frames, [agent |-> IF DeepAgents!IsBuiltIn(i) THEN "built-in"
                                                        ELSE "custom",
                                              asked |-> id, helper |-> i])
  BY DEF DeepAgents!Task
<1>4. PICK i : i = DeepAgents!Named(deep.helpers, id)
  OBVIOUS
<1>5. PICK who \in {"built-in", "custom"} : /\ who = IF DeepAgents!IsBuiltIn(i) THEN "built-in" ELSE "custom"
  OBVIOUS
<1>6. PICK f : f = [agent |-> who, asked |-> id, helper |-> i]
  OBVIOUS
<1>7. frames' = <<DeepAgents!Main, f>>
  <2>1. frames' = Append(frames, f)
    BY <1>3, <1>4, <1>5, <1>6
  <2> QED BY <1>2, <2>1, FrontOfTwo
<1>8. f.agent = who /\ f.asked = id /\ f.helper = i
  BY <1>6
<1>9. PICK names \in Seq(STRING \cup {DeepAgents!GeneralPurpose}) : names = deep.helpers /\ names = DeepAgents!Helpers
  BY <1>2, ConfigurationsAre DEF Built
<1>10. id \in DeepAgents!ToSet(names) => names[i] = id
  BY <1>4, <1>9, NamedIsLast DEF DeepAgents!ToSet
<1>11. ASSUME DeepAgents!IsBuiltIn(i), id \in DeepAgents!ToSet(deep_config.subagents)
       PROVE  FALSE
  <2>1. PICK subs \in Seq(STRING) : subs = deep_config.subagents
    BY ConfigurationsAre
  <2>2. i = 1 /\ (deep_config.from = "model" \/ deep_config.default_model) /\ names[1] = DeepAgents!GeneralPurpose
    BY <1>9, <1>11 DEF DeepAgents!IsBuiltIn
  <2>3. PICK j \in 1..Len(subs) : subs[j] = id
    BY <1>11, <2>1 DEF DeepAgents!ToSet
  <2>4. names = <<>> \/ names = <<DeepAgents!GeneralPurpose>> \o subs
    BY <1>9, <2>1, <2>2, ConfigurationsAre
  <2>5. CASE names = <<DeepAgents!GeneralPurpose>> \o subs
    <3>1. j + 1 \in 1..Len(names) /\ names[j + 1] = id
      BY <2>3, <2>5 DEF DeepAgents!GeneralPurpose
    <3>2. j + 1 <= i
      BY <1>4, <1>9, <3>1, NamedIsLast
    <3> QED BY <2>2, <3>2
  <2>6. CASE names = <<>>
    <3>1. "task" \in deep.tools
      BY <1>1, <1>2, MainIsMain, RunsInProgress DEF DeepAgents!Plans, DeepAgents!ToolsOf
    <3>2. "task" \notin DeepAgents!BaseTools
      BY DeepAssumption DEF DeepAgents!BaseTools
    <3> QED BY <1>2, <1>9, <2>6, <3>1, <3>2 DEF Built
  <2> QED BY <2>4, <2>5, <2>6
<1> QED BY <1>5, <1>7, <1>8, <1>9, <1>10, <1>11 DEF AtWork
LEMMA DeepStep ==
  ASSUME DeepHolds, [DeepAgents!Next]_(DeepAgents!vars)
  PROVE  DeepHolds'
<1>1. CASE UNCHANGED DeepAgents!vars
  <2>1. Built' = Built
    BY <1>1 DEF Built, DeepAgents!vars, DeepAgents!BaseTools, DeepAgents!Helpers, DeepAgents!Guarded
  <2> QED BY <1>1, <2>1 DEF DeepHolds, DeepAgents!vars, AtWork, DeepAgents!GuardedToolsAreApproved
<1> DEFINE SameAgents == deep_config' = deep_config /\ deep' = deep
           SameRuns   == ran' = ran /\ todos' = todos
<1>2. ASSUME SameAgents
      PROVE  Built' = Built /\ \A f : AtWork(f)' <=> AtWork(f)
  BY <1>2 DEF Built, DeepAgents!BaseTools, DeepAgents!Helpers, DeepAgents!Guarded, AtWork
<1>3. ASSUME SameAgents, frames' = frames, DeepAgents!GuardedToolsAreApproved', "custom" \notin todos'
      PROVE  DeepHolds'
  BY <1>2, <1>3 DEF DeepHolds
<1>4. ASSUME SameAgents, SameRuns
      PROVE  DeepAgents!GuardedToolsAreApproved' /\ "custom" \notin todos'
  BY <1>4 DEF DeepHolds, DeepAgents!GuardedToolsAreApproved
<1>5. ASSUME SameAgents, SameRuns, frames # <<>>, frames' = DeepAgents!Front(frames)
      PROVE  DeepHolds'
  <2>1. frames' \in {<<>>, <<DeepAgents!Main>>}
    BY <1>5, RunsInProgress
  <2> QED BY <1>2, <1>4, <1>5, <2>1 DEF DeepHolds
<1>6. CASE DeepAgents!CreateDeepAgent
  <2>1. deep' = Built /\ deep_config' = deep_config /\ frames' = frames /\ SameRuns
    BY <1>6 DEF DeepAgents!CreateDeepAgent, Built
  <2>2. Built' = Built
    BY <2>1 DEF Built, DeepAgents!BaseTools, DeepAgents!Helpers, DeepAgents!Guarded
  <2>3. CASE frames = <<>>
    BY <2>1, <2>2, <2>3 DEF DeepHolds, DeepAgents!GuardedToolsAreApproved
  <2>4. CASE frames # <<>>
    <3>1. deep' = deep
      BY <2>1, <2>4 DEF DeepHolds
    <3> QED BY <1>3, <1>4, <2>1, <3>1
  <2> QED BY <2>3, <2>4
<1>7. CASE DeepAgents!Ask
  <2>1. SameAgents /\ SameRuns /\ frames' = <<DeepAgents!Main>> /\ deep = Built
    BY <1>7 DEF DeepAgents!Ask, DeepHolds
  <2> QED BY <1>2, <1>4, <2>1 DEF DeepHolds
<1>8. CASE DeepAgents!WriteTodos
  <2>1. /\ DeepAgents!Plans("write_todos") /\ DeepAgents!Free("write_todos")
        /\ DeepAgents!Runs("write_todos") /\ SameAgents /\ frames' = frames
        /\ todos' = {DeepAgents!Top.agent}
    BY <1>8 DEF DeepAgents!WriteTodos
  <2>2. DeepAgents!GuardedToolsAreApproved'
    BY <2>1, RunningIsApproved
  <2>3. "custom" \notin todos'
    BY <2>1, WhoPlans
  <2> QED BY <1>3, <2>1, <2>2, <2>3
<1>9. CASE DeepAgents!Task
  <2>1. /\ DeepAgents!Plans("task") /\ DeepAgents!Free("task")
        /\ DeepAgents!Runs("task") /\ SameAgents /\ todos' = todos
    BY <1>9 DEF DeepAgents!Task
  <2>2. DeepAgents!GuardedToolsAreApproved'
    BY <2>1, RunningIsApproved
  <2>3. PICK f : frames' = <<DeepAgents!Main, f>> /\ AtWork(f)
    BY <1>9, TaskIsHandedOn
  <2>4. deep = Built
    BY <2>1 DEF DeepAgents!Plans, DeepHolds
  <2> QED BY <1>2, <2>1, <2>2, <2>3, <2>4 DEF DeepHolds
<1>10. CASE \E tool \in Own \cup {"write_file", "other"} : DeepAgents!RunTool(tool)
  <2>1. PICK tool : DeepAgents!RunTool(tool)
    BY <1>10
  <2>2. /\ DeepAgents!Plans(tool) /\ DeepAgents!Free(tool)
        /\ DeepAgents!Runs(tool) /\ SameAgents /\ frames' = frames /\ todos' = todos
    BY <2>1 DEF DeepAgents!RunTool
  <2>3. DeepAgents!GuardedToolsAreApproved'
    BY <2>2, RunningIsApproved
  <2> QED BY <1>3, <2>2, <2>3 DEF DeepHolds
<1>11. CASE DeepAgents!Interrupt \/ DeepAgents!Decide
  <2>1. SameAgents /\ SameRuns /\ frames' = frames
    BY <1>11 DEF DeepAgents!Interrupt, DeepAgents!Decide
  <2> QED BY <1>3, <1>4, <2>1
<1>12. CASE DeepAgents!GiveUp
  <2>1. SameAgents /\ SameRuns /\ frames' = <<>>
    BY <1>12 DEF DeepAgents!GiveUp
  <2> QED BY <1>2, <1>4, <2>1 DEF DeepHolds
<1>13. CASE DeepAgents!InterruptInside \/ DeepAgents!Return
  <2>1. SameAgents /\ SameRuns /\ frames' = DeepAgents!Front(frames)
    BY <1>13 DEF DeepAgents!InterruptInside, DeepAgents!Return
  <2>2. frames # <<>>
    BY <1>13 DEF DeepAgents!InterruptInside, DeepAgents!Return
  <2> QED BY <1>5, <2>1, <2>2
<1> QED
  BY <1>1, <1>6, <1>7, <1>8, <1>9, <1>10, <1>11, <1>12, <1>13 DEF DeepAgents!Next

LEMMA DeepIsRight ==
  ASSUME DeepHolds
  PROVE  /\ DeepAgents!GuardedToolsAreApproved
         /\ DeepAgents!TasksAreHandedOnOnce /\ DeepAgents!TasksReachTheirHelper
<1>1. DeepAgents!GuardedToolsAreApproved /\ "custom" \notin todos
  BY DEF DeepHolds
<1>2. CASE frames = <<>>
  BY <1>1, <1>2 DEF DeepAgents!TasksAreHandedOnOnce, DeepAgents!TasksReachTheirHelper
<1>3. CASE frames # <<>>
  <2>1. Len(frames) <= 2
    <3>1. PICK n : n = Len(frames)
      OBVIOUS
    <3>2. n = 1 \/ n = 2
      BY <1>3, <3>1, RunsInProgress
    <3>3. n <= 2
      BY ONLY <3>2
    <3> QED BY <3>1, <3>3
  <2>2. ASSUME NEW i \in DOMAIN frames, frames[i].agent # "main"
        PROVE  AtWork(frames[i])
    <3>1. CASE frames = <<DeepAgents!Main>>
      BY <2>2, <3>1, MainIsMain
    <3>2. ASSUME NEW f, frames = <<DeepAgents!Main, f>>, AtWork(f)
          PROVE  AtWork(frames[i])
      <4>1. i = 1 \/ i = 2
        BY <3>2
      <4>2. frames[1] = DeepAgents!Main /\ frames[2] = f
        BY <3>2
      <4> QED BY <2>2, <3>2, <4>1, <4>2, MainIsMain
    <3> QED BY <1>3, <3>1, <3>2 DEF DeepHolds
  <2> QED BY <1>1, <2>1, <2>2
    DEF DeepAgents!TasksAreHandedOnOnce, DeepAgents!TasksReachTheirHelper, AtWork
<1> QED BY <1>2, <1>3

-------------------------------------------------------------------------------
(***************************************************************************)
(* DeepFiles.  A path is its route's prefix with what is left of it, so    *)
(* two paths of one backend are two files there, and what a backend has    *)
(* was put there for the path that its prefix makes of it.                 *)
(***************************************************************************)

Starts(s, t) == Len(s) <= Len(t) /\ \A i \in 1..Len(s) : s[i] = t[i]

RestOf(n, t) == SubSeq(t, n + 1, Len(t))

LEMMA FilesPrefix ==
  ASSUME NEW S, NEW s \in Seq(S), NEW t \in Seq(S)
  PROVE  Files!IsPrefix(s, t) <=> Starts(s, t)
<1>1. PICK n \in Nat, m \in Nat : n = Len(s) /\ m = Len(t)
  OBVIOUS
<1>2. CASE n <= m
  <2>1. PICK a : a = SubSeq(s, 1, n)
    OBVIOUS
  <2>2. PICK b : b = SubSeq(t, 1, n)
    OBVIOUS
  <2>3. a \in Seq(S) /\ Len(a) = n /\ \A i \in 1..n : a[i] = s[i]
    BY <1>1, <2>1, FrontOfSeq
  <2>4. b \in Seq(S) /\ Len(b) = n /\ \A i \in 1..n : b[i] = t[i]
    BY <1>1, <1>2, <2>2, FrontOfSeq
  <2>5. a = b <=> \A i \in 1..n : a[i] = b[i]
    BY <2>3, <2>4, SeqEqual
  <2> QED BY <1>1, <1>2, <2>1, <2>2, <2>3, <2>4, <2>5 DEF Files!IsPrefix, Starts
<1>3. CASE ~ (n <= m)
  BY <1>1, <1>3 DEF Files!IsPrefix, Starts
<1> QED BY <1>2, <1>3

\* A path is its beginning and the rest.
LEMMA BeginningAndRest ==
  ASSUME NEW S, NEW s \in Seq(S), NEW t \in Seq(S), Starts(s, t)
  PROVE  /\ RestOf(Len(s), t) \in Seq(S)
         /\ s \o RestOf(Len(s), t) = t
<1>1. PICK n \in Nat, m \in Nat : n = Len(s) /\ m = Len(t)
  OBVIOUS
<1>2. n <= m
  BY <1>1 DEF Starts
<1>3. PICK u : u = RestOf(n, t)
  OBVIOUS
<1>4. u \in Seq(S) /\ Len(u) = m - n /\ \A i \in 1..(m - n) : u[i] = t[n + i]
  BY <1>1, <1>2, <1>3, RestOfSeq DEF RestOf
<1>5. PICK v : v = s \o u
  OBVIOUS
<1>6. PICK k \in Nat : k = m - n
  BY <1>2
<1>7. /\ v \in Seq(S) /\ Len(v) = n + k
      /\ \A i \in 1..n : v[i] = s[i]
      /\ \A i \in 1..k : v[n + i] = u[i]
  <2>1. u \in Seq(S) /\ Len(u) = k /\ Len(s) = n
    BY <1>1, <1>4, <1>6
  <2>2. /\ s \o u \in Seq(S) /\ Len(s \o u) = n + k
        /\ \A i \in 1..n : (s \o u)[i] = s[i]
        /\ \A i \in 1..k : (s \o u)[n + i] = u[i]
    BY ONLY s \in Seq(S), n \in Nat, k \in Nat, <2>1
  <2> QED BY ONLY <1>5, <2>2
<1>8. n + k = m
  BY <1>1, <1>6
<1>9. \A i \in 1..m : v[i] = t[i]
  <2>1. ASSUME NEW i \in 1..m
        PROVE  v[i] = t[i]
    <3>1. CASE i \in 1..n
      BY <1>1, <1>7, <3>1 DEF Starts
    <3>2. CASE i \notin 1..n
      <4>1. i - n \in 1..k /\ n + (i - n) = i
        BY <1>1, <1>8, <3>2
      <4>2. v[n + (i - n)] = u[i - n] /\ u[i - n] = t[n + (i - n)]
        BY <1>4, <1>6, <1>7, <4>1
      <4> QED BY <4>1, <4>2
    <3> QED BY <3>1, <3>2
  <2> QED BY <2>1
<1>10. v = t
  BY <1>1, <1>7, <1>8, <1>9, SeqEqual
<1> QED BY <1>1, <1>3, <1>4, <1>5, <1>10

\* And back.
LEMMA RestOfJoined ==
  ASSUME NEW S, NEW s \in Seq(S), NEW u \in Seq(S)
  PROVE  Starts(s, s \o u) /\ RestOf(Len(s), s \o u) = u /\ s \o u \in Seq(S)
<1>1. PICK n \in Nat, k \in Nat : n = Len(s) /\ k = Len(u)
  OBVIOUS
<1>2. PICK v : v = s \o u
  OBVIOUS
<1>3. /\ v \in Seq(S) /\ Len(v) = n + k
      /\ \A i \in 1..n : v[i] = s[i]
      /\ \A i \in 1..k : v[n + i] = u[i]
  BY <1>1, <1>2, ConcatElements
<1>4. PICK w : w = RestOf(n, v)
  OBVIOUS
<1>5. w \in Seq(S) /\ Len(w) = k /\ \A i \in 1..k : w[i] = v[n + i]
  <2>1. n <= Len(v) /\ Len(v) - n = k
    BY <1>1, <1>3
  <2> QED BY <1>3, <1>4, <2>1, RestOfSeq DEF RestOf
<1>6. w = u
  BY <1>1, <1>3, <1>5, SeqEqual
<1>7. Starts(s, v)
  BY <1>1, <1>3 DEF Starts
<1> QED BY <1>1, <1>2, <1>3, <1>4, <1>6, <1>7

\* What begins with the same goes on alike.
LEMMA RestsStart ==
  ASSUME NEW S, NEW s \in Seq(S), NEW t \in Seq(S), NEW u \in Seq(S), Starts(s, t), Starts(s, u)
  PROVE  Starts(RestOf(Len(s), t), RestOf(Len(s), u)) <=> Starts(t, u)
<1>1. PICK n \in Nat, m \in Nat, k \in Nat : n = Len(s) /\ m = Len(t) /\ k = Len(u)
  OBVIOUS
<1>2. n <= m /\ n <= k /\ (\A i \in 1..n : s[i] = t[i] /\ s[i] = u[i])
  BY <1>1 DEF Starts
<1>3. PICK a : a = RestOf(n, t)
  OBVIOUS
<1>4. PICK b : b = RestOf(n, u)
  OBVIOUS
<1>5. a \in Seq(S) /\ Len(a) = m - n /\ \A i \in 1..(m - n) : a[i] = t[n + i]
  BY <1>1, <1>2, <1>3, RestOfSeq DEF RestOf
<1>6. b \in Seq(S) /\ Len(b) = k - n /\ \A i \in 1..(k - n) : b[i] = u[n + i]
  BY <1>1, <1>2, <1>4, RestOfSeq DEF RestOf
<1>7. ASSUME Starts(a, b)
      PROVE  Starts(t, u)
  <2>1. m <= k
    BY <1>1, <1>2, <1>5, <1>6, <1>7 DEF Starts
  <2>2. ASSUME NEW i \in 1..m
        PROVE  t[i] = u[i]
    <3>1. CASE i \in 1..n
      BY <1>2, <3>1
    <3>2. CASE i \notin 1..n
      <4>1. i - n \in 1..(m - n) /\ i - n \in 1..(k - n) /\ n + (i - n) = i
        BY <1>1, <2>1, <3>2
      <4>2. a[i - n] = b[i - n]
        BY <1>5, <1>7, <4>1 DEF Starts
      <4> QED BY <1>5, <1>6, <4>1, <4>2
    <3> QED BY <3>1, <3>2
  <2> QED BY <1>1, <2>1, <2>2 DEF Starts
<1>8. ASSUME Starts(t, u)
      PROVE  Starts(a, b)
  <2>1. m <= k /\ \A i \in 1..m : t[i] = u[i]
    BY <1>1, <1>8 DEF Starts
  <2>2. ASSUME NEW i \in 1..(m - n)
        PROVE  a[i] = b[i]
    <3>1. n + i \in 1..m /\ i \in 1..(k - n)
      BY <1>1, <1>2, <2>1
    <3> QED BY <1>5, <1>6, <2>1, <3>1
  <2>3. m - n <= k - n
    BY <1>1, <2>1
  <2> QED BY <1>5, <1>6, <2>2, <2>3 DEF Starts
<1> QED BY <1>1, <1>3, <1>4, <1>7, <1>8

\* The backend of a path is its default, or the one of a route that it begins with.
LEMMA ChosenMatches ==
  ASSUME NEW Seg, FilePath \subseteq Seq(Seg), routes \in RouteSets,
         \A R \in RouteSets : \A r \in R : r.prefix \in Seq(Seg),
         NEW p \in Seq(Seg)
  PROVE  /\ Files!Chosen(p) \in Files!Backend
         /\ Files!Chosen(p).prefix \in Seq(Seg)
         /\ Starts(Files!Chosen(p).prefix, p)
         /\ Files!Chosen(p) = Files!Workspace \/ (Files!Chosen(p) \in routes /\ Files!Matches(Files!Chosen(p), p))
         /\ Files!Chosen(p) = Files!Workspace <=> \A r \in routes : ~Files!Matches(r, p)
<1>1. Files!Workspace.prefix = <<>> /\ Files!Workspace \in Files!Backend
  BY DEF Files!Workspace, Files!Backend
<1>2. Starts(<<>>, p) /\ <<>> \in Seq(Seg)
  BY DEF Starts
<1>3. PICK M : M = {r \in routes : Files!Matches(r, p)}
  OBVIOUS
<1>4. CASE M = {}
  <2>1. Files!Chosen(p) = Files!Workspace
    BY <1>3, <1>4 DEF Files!Chosen
  <2> QED BY <1>1, <1>2, <1>3, <1>4, <2>1
<1>5. CASE M # {}
  <2>1. \A r \in M : r.prefix \in Seq(Seg) /\ r.prefix # <<>> /\ Starts(r.prefix, p)
    <3>1. ASSUME NEW r \in M
          PROVE  r.prefix \in Seq(Seg) /\ r.prefix # <<>> /\ Starts(r.prefix, p)
      <4>1. r \in routes /\ Files!Matches(r, p)
        BY <1>3
      <4>2. r.prefix \in Seq(Seg)
        BY <4>1
      <4>3. r.prefix # <<>> /\ Files!IsPrefix(r.prefix, p)
        BY <4>1 DEF Files!Matches
      <4> QED BY <4>2, <4>3, FilesPrefix
    <3> QED BY <3>1
  <2>2. PICK length : length = [r \in M |-> Len(r.prefix)]
    OBVIOUS
  <2>3. \A r \in M : length[r] = Len(r.prefix) /\ length[r] \in 0..Len(p)
    BY <2>1, <2>2 DEF Starts
  <2>4. \E r \in M : \A s \in M : length[r] >= length[s]
    <3>1. Len(p) \in Nat
      OBVIOUS
    <3> QED BY <1>5, <2>3, <3>1, GreatestExists
  <2>5. \E r \in M : \A s \in M : Len(s.prefix) <= Len(r.prefix)
    BY <2>3, <2>4
  <2>6. PICK b : b = CHOOSE r \in M : \A s \in M : Len(s.prefix) <= Len(r.prefix)
    OBVIOUS
  <2>7. b \in M
    BY <2>5, <2>6
  <2>8. Files!Chosen(p) = b
    BY <1>3, <1>5, <2>6 DEF Files!Chosen
  <2>9. b \in Files!Backend
    BY <1>3, <2>7 DEF Files!Backend, Files!Route
  <2>10. b # Files!Workspace
    BY <1>1, <2>1, <2>7
  <2> QED BY <1>3, <2>1, <2>7, <2>8, <2>9, <2>10
<1> QED BY <1>4, <1>5

\* A path has its own place in its own backend.
LEMMA InnerIsRest ==
  ASSUME NEW Seg, FilePath \subseteq Seq(Seg), routes \in RouteSets,
         \A R \in RouteSets : \A r \in R : r.prefix \in Seq(Seg),
         NEW p \in Seq(Seg)
  PROVE  /\ Files!Inner(p) = RestOf(Len(Files!Chosen(p).prefix), p)
         /\ Files!Inner(p) \in Seq(Seg)
         /\ Files!Chosen(p).prefix \o Files!Inner(p) = p
<1>1. PICK b : b = Files!Chosen(p)
  OBVIOUS
<1>2. b.prefix \in Seq(Seg) /\ Starts(b.prefix, p)
  BY <1>1, ChosenMatches
<1>3. Files!Inner(p) = RestOf(Len(b.prefix), p)
  BY <1>1 DEF Files!Inner, Files!Stripped, RestOf
<1> QED BY <1>1, <1>2, <1>3, BeginningAndRest

FilesHold ==
  /\ routes \in RouteSets
  /\ files = [b \in Files!Backend |-> files[b]]
  /\ \A b \in Files!Backend : \A f \in files[b] :
       \E p \in FilePath : Files!Chosen(p) = b /\ Files!Inner(p) = f.path
  /\ \A c \in Editor : \A e \in edits[c] : e.path \in FilePath
  /\ edits = [c \in Editor |-> edits[c]]
  /\ last = [p \in FilePath |-> last[p]]
  /\ Files!PathsReadTheirLastWrite

LEMMA FilesInit ==
  ASSUME Files!Init
  PROVE  FilesHold
<1>1. /\ routes \in RouteSets
      /\ \A b \in Files!Backend : files[b] = {}
      /\ \A c \in Editor : edits[c] = {}
      /\ \A p \in FilePath : last[p] = {}
      /\ files = [b \in Files!Backend |-> files[b]]
      /\ edits = [c \in Editor |-> edits[c]]
      /\ last = [p \in FilePath |-> last[p]]
  BY DEF Files!Init
<1>2. /\ FilePath \subseteq Seq(Segment)
      /\ \A R \in RouteSets : \A r \in R : r.prefix \in Seq(Segment)
  BY FilesAssumption
<1>3. ASSUME NEW p \in FilePath
      PROVE  Files!Read(p) = last[p]
  <2>1. Files!Chosen(p) \in Files!Backend
    BY <1>1, <1>2, ChosenMatches
  <2>2. files[Files!Chosen(p)] = {}
    BY <1>1, <2>1
  <2> QED BY <1>1, <2>2 DEF Files!Read, Files!Texts
<1> QED BY <1>1, <1>3 DEF FilesHold, Files!PathsReadTheirLastWrite

\* A text is put at a path.
LEMMA PutKeeps ==
  ASSUME FilesHold, NEW p \in FilePath, NEW text, Files!Put(p, text), routes' = routes,
         edits' = [c \in Editor |-> edits'[c]],
         \A c \in Editor : edits'[c] \in {edits[c], {}}
  PROVE  FilesHold'
<1>1. /\ FilePath \subseteq Seq(Segment)
      /\ \A R \in RouteSets : \A r \in R : r.prefix \in Seq(Segment)
  BY FilesAssumption
<1>2. routes \in RouteSets
  BY DEF FilesHold
<1>3. PICK b : b = Files!Chosen(p)
  OBVIOUS
<1>4. PICK at : at = Files!Inner(p)
  OBVIOUS
<1>5. b \in Files!Backend
  BY <1>1, <1>2, <1>3, ChosenMatches
<1>6. PICK new : new = [path |-> at, text |-> text]
  OBVIOUS
<1>7. new.path = at /\ new.text = text
  BY <1>6
<1>8. /\ files' = [files EXCEPT ![b] = {f \in files[b] : f.path # at} \cup {new}]
      /\ last' = [last EXCEPT ![p] = {text}]
  BY <1>3, <1>4, <1>6 DEF Files!Put, Files!Written
<1>9. /\ files' = [c \in Files!Backend |-> files'[c]]
      /\ \A c \in Files!Backend :
           files'[c] = IF c = b THEN {f \in files[b] : f.path # at} \cup {new} ELSE files[c]
  BY <1>5, <1>8 DEF FilesHold
<1>10. /\ last' = [q \in FilePath |-> last'[q]]
       /\ \A q \in FilePath : last'[q] = IF q = p THEN {text} ELSE last[q]
  BY <1>8 DEF FilesHold
<1>11. \A q : Files!Chosen(q)' = Files!Chosen(q) /\ Files!Inner(q)' = Files!Inner(q)
  BY DEF Files!Chosen, Files!Inner, Files!Matches, Files!Stripped, Files!IsPrefix
<1>12. ASSUME NEW q \in FilePath
       PROVE  Files!Read(q)' = last'[q]
  <2>1. Files!Chosen(q) \in Files!Backend
    BY <1>1, <1>2, ChosenMatches
  <2>2. PICK c \in Files!Backend : c = Files!Chosen(q)
    BY <2>1
  <2>3. PICK inner : inner = Files!Inner(q)
    OBVIOUS
  <2>4. Files!Read(q)' = {f.text : f \in {g \in files'[c] : g.path = inner}}
    BY <1>11, <2>2, <2>3 DEF Files!Read, Files!Texts
  <2>5. {f.text : f \in {g \in files[c] : g.path = inner}} = last[q]
    BY <2>2, <2>3 DEF FilesHold, Files!PathsReadTheirLastWrite, Files!Read, Files!Texts
  <2>6. CASE c # b
    <3>1. files'[c] = files[c] /\ q # p
      BY <1>3, <1>9, <2>2, <2>6
    <3> QED BY <1>10, <2>4, <2>5, <3>1
  <2>7. CASE c = b /\ q # p
    <3>1. inner # at
      BY <1>1, <1>2, <1>3, <1>4, <2>2, <2>3, <2>7, InnerIsRest
    <3>2. {g \in files'[c] : g.path = inner} = {g \in files[c] : g.path = inner}
      BY <1>7, <1>9, <2>7, <3>1
    <3> QED BY <1>10, <2>4, <2>5, <2>7, <3>2
  <2>8. CASE q = p
    <3>1. c = b /\ inner = at
      BY <1>3, <1>4, <2>2, <2>3, <2>8
    <3>2. {g \in files'[c] : g.path = inner} = {new}
      BY <1>7, <1>9, <3>1
    <3>3. {f.text : f \in {new}} = {text}
      BY <1>7
    <3> QED BY <1>10, <2>4, <2>8, <3>2, <3>3
  <2> QED BY <2>6, <2>7, <2>8
<1>13. ASSUME NEW c \in Files!Backend, NEW f \in files'[c]
       PROVE  \E q \in FilePath : Files!Chosen(q) = c /\ Files!Inner(q) = f.path
  <2>1. CASE f \in files[c]
    BY <2>1 DEF FilesHold
  <2>2. CASE f \notin files[c]
    <3>1. c = b /\ f = new
      BY <1>9, <2>2
    <3> QED BY <1>3, <1>4, <1>7, <3>1
  <2> QED BY <2>1, <2>2
<1>14. Files!Backend' = Files!Backend
  BY DEF Files!Backend, Files!Route, Files!Workspace
<1>15. \A c \in Editor : \A e \in edits'[c] : e.path \in FilePath
  BY DEF FilesHold
<1> QED
  BY <1>2, <1>9, <1>10, <1>11, <1>12, <1>13, <1>14, <1>15 DEF FilesHold, Files!PathsReadTheirLastWrite

LEMMA FilesStep ==
  ASSUME FilesHold, [Files!Next]_(Files!vars)
  PROVE  FilesHold'
<1>1. edits = [c \in Editor |-> edits[c]]
  BY DEF FilesHold
<1>2. ASSUME routes' = routes, files' = files, last' = last,
             edits' = [c \in Editor |-> edits'[c]],
             \A c \in Editor : \A e \in edits'[c] : e.path \in FilePath
      PROVE  FilesHold'
  <2>1. /\ \A q : Files!Chosen(q)' = Files!Chosen(q) /\ Files!Inner(q)' = Files!Inner(q)
        /\ Files!Backend' = Files!Backend
    BY <1>2 DEF Files!Chosen, Files!Inner, Files!Matches, Files!Stripped, Files!IsPrefix,
                Files!Backend, Files!Route, Files!Workspace
  <2>2. \A q : Files!Read(q)' = Files!Read(q)
    BY <1>2, <2>1 DEF Files!Read, Files!Texts
  <2> QED BY <1>2, <2>1, <2>2 DEF FilesHold, Files!PathsReadTheirLastWrite
<1>3. CASE UNCHANGED Files!vars
  BY <1>1, <1>2, <1>3 DEF Files!vars, FilesHold
<1>4. CASE \E p \in FilePath, text \in Files!Text : Files!Write(p, text)
  <2>1. PICK p \in FilePath, text \in Files!Text : Files!Write(p, text)
    BY <1>4
  <2>2. Files!Put(p, text) /\ routes' = routes /\ edits' = edits
    BY <2>1 DEF Files!Write
  <2> QED BY <1>1, <2>2, PutKeeps
<1>5. ASSUME NEW c \in Editor, NEW p \in FilePath, NEW old, NEW new, NEW all,
             Files!EditReads(c, p, old, new, all)
      PROVE  FilesHold'
  <2>1. PICK text : edits' = [edits EXCEPT ![c] = {[path |-> p, text |-> Files!Replaced(text, old, new)]}]
    BY <1>5 DEF Files!EditReads
  <2>2. PICK e : e = [path |-> p, text |-> Files!Replaced(text, old, new)]
    OBVIOUS
  <2>3. e.path = p
    BY <2>2
  <2>4. /\ edits' = [d \in Editor |-> edits'[d]]
        /\ \A d \in Editor : edits'[d] = IF d = c THEN {e} ELSE edits[d]
    BY <1>1, <2>1, <2>2
  <2>5. routes' = routes /\ files' = files /\ last' = last
    BY <1>5 DEF Files!EditReads
  <2>6. \A d \in Editor : \A f \in edits'[d] : f.path \in FilePath
    BY <2>3, <2>4 DEF FilesHold
  <2> QED BY <1>2, <2>4, <2>5, <2>6
<1>6. ASSUME NEW c \in Editor, Files!EditWrites(c) \/ Files!EditDropped(c)
      PROVE  FilesHold'
  <2>1. edits' = [edits EXCEPT ![c] = {}] /\ routes' = routes
    BY <1>6 DEF Files!EditWrites, Files!EditDropped
  <2>2. /\ edits' = [d \in Editor |-> edits'[d]]
        /\ \A d \in Editor : edits'[d] = IF d = c THEN {} ELSE edits[d]
    BY <1>1, <2>1
  <2>3. CASE Files!EditWrites(c)
    <3>1. PICK e \in edits[c] : Files!Put(e.path, e.text)
      BY <2>3 DEF Files!EditWrites
    <3>2. e.path \in FilePath
      BY DEF FilesHold
    <3> QED BY <2>1, <2>2, <3>1, <3>2, PutKeeps
  <2>4. CASE Files!EditDropped(c)
    <3>1. files' = files /\ last' = last
      BY <2>4 DEF Files!EditDropped
    <3>2. \A d \in Editor : \A f \in edits'[d] : f.path \in FilePath
      BY <2>2 DEF FilesHold
    <3> QED BY <1>2, <2>1, <2>2, <3>1, <3>2
  <2> QED BY <1>6, <2>3, <2>4
<1> QED BY <1>3, <1>4, <1>5, <1>6 DEF Files!Next

\* A file below what is left of a directory's path is there to be read, and below the
\* directory.
LEMMA FoundFilesAreRead ==
  ASSUME FilesHold,
         NEW Seg, FilePath \subseteq Seq(Seg),
         \A R \in RouteSets : \A r \in R : r.prefix \in Seq(Seg),
         NEW dir \in Seq(Seg), NEW b, b = Files!Chosen(dir), NEW f \in files[b],
         Files!IsPrefix(Files!Inner(dir), f.path)
  PROVE  /\ b.prefix \o f.path \in FilePath
         /\ Files!Chosen(b.prefix \o f.path) = b /\ Files!Inner(b.prefix \o f.path) = f.path
         /\ Files!Read(b.prefix \o f.path) # {}
         /\ Files!IsPrefix(dir, b.prefix \o f.path)
<1>1. routes \in RouteSets
  BY DEF FilesHold
<1>2. b \in Files!Backend
  BY <1>1, ChosenMatches
<1>3. PICK q \in FilePath : Files!Chosen(q) = b /\ Files!Inner(q) = f.path
  BY <1>2 DEF FilesHold
<1>4. q \in Seq(Seg) /\ b.prefix \o f.path = q
  BY <1>1, <1>3, InnerIsRest
<1>5. f.text \in Files!Read(q)
  BY <1>3 DEF Files!Read, Files!Texts
<1>6. b.prefix \in Seq(Seg) /\ Starts(b.prefix, dir) /\ Starts(b.prefix, q)
  BY <1>1, <1>3, <1>4, ChosenMatches
<1>7. PICK n : n = Len(b.prefix)
  OBVIOUS
<1>8. Files!Inner(dir) = RestOf(n, dir) /\ Files!Inner(q) = RestOf(n, q)
  BY <1>1, <1>3, <1>4, <1>7, InnerIsRest
<1>9. RestOf(n, dir) \in Seq(Seg) /\ RestOf(n, q) \in Seq(Seg)
  BY <1>6, <1>4, <1>7, BeginningAndRest
<1>10. Starts(RestOf(n, dir), RestOf(n, q))
  BY <1>3, <1>8, <1>9, FilesPrefix
<1>11. Starts(dir, q)
  BY <1>4, <1>6, <1>7, <1>10, RestsStart
<1>12. Files!IsPrefix(dir, q)
  BY <1>4, <1>11, FilesPrefix
<1> QED BY <1>3, <1>4, <1>5, <1>12

LEMMA FilesAreRight ==
  ASSUME FilesHold
  PROVE  Files!PathsReadTheirLastWrite /\ Files!ListedFilesAreRead
<1>1. /\ FilePath \subseteq Seq(Segment)
      /\ \A R \in RouteSets : \A r \in R : r.prefix \in Seq(Segment)
  BY FilesAssumption
<1>2. routes \in RouteSets
  BY DEF FilesHold
<1>3. ASSUME NEW dir \in Seq(Segment), NEW p \in Files!Grep(dir)
      PROVE  Files!IsPrefix(dir, p) /\ Files!Read(p) # {}
  <2>1. PICK b : b = Files!Chosen(dir)
    OBVIOUS
  <2>2. PICK inner \in Files!FilesBelow(b, Files!Inner(dir)) : p = b.prefix \o inner
    BY <2>1 DEF Files!Grep, Files!RestorePrefix
  <2>3. PICK f \in files[b] : Files!IsPrefix(Files!Inner(dir), f.path) /\ inner = f.path
    BY <2>2 DEF Files!FilesBelow, Files!Below
  <2> QED BY <1>1, <2>1, <2>2, <2>3, FoundFilesAreRead
<1>4. ASSUME NEW dir \in Seq(Segment), NEW p \in Files!Ls(dir)
      PROVE  Files!Read(p) # {} \/ \E q \in Files!Grep(p) : Files!Read(q) # {}
  <2>1. PICK b : b = Files!Chosen(dir)
    OBVIOUS
  <2>2. PICK inner \in Files!LsInfo(b, Files!Inner(dir)) : p = b.prefix \o inner
    BY <2>1 DEF Files!Ls, Files!RestorePrefix
  <2>3. CASE b # Files!Workspace
    <3>1. PICK f \in files[b] : Files!IsPrefix(Files!Inner(dir), f.path) /\ inner = f.path
      BY <2>2, <2>3 DEF Files!LsInfo, Files!Below
    <3> QED BY <1>1, <2>1, <2>2, <3>1, FoundFilesAreRead
  <2>4. CASE b = Files!Workspace
    <3>1. PICK d : d = Files!Inner(dir)
      OBVIOUS
    <3>2. PICK f \in files[b] : /\ Files!IsPrefix(d, f.path) /\ f.path # d
                                /\ inner = SubSeq(f.path, 1, Len(d) + 1)
      BY <2>2, <2>4, <3>1 DEF Files!LsInfo, Files!Below
    <3>3. PICK g : g = b.prefix \o f.path
      OBVIOUS
    <3>4. /\ g \in FilePath /\ Files!Chosen(g) = b /\ Files!Inner(g) = f.path
          /\ Files!Read(g) # {}
      BY <1>1, <2>1, <3>1, <3>2, <3>3, FoundFilesAreRead
    <3>5. b.prefix = <<>>
      BY <2>4 DEF Files!Workspace
    <3>6. d \in Seq(Segment) /\ f.path \in Seq(Segment) /\ g \in Seq(Segment)
      BY <1>1, <1>2, <3>1, <3>4, InnerIsRest
    <3>7. g = f.path
      BY <3>3, <3>5, <3>6
    <3>8. PICK n \in Nat : n = Len(d)
      BY <3>6
    <3>9. Starts(d, g) /\ d # g
      BY <3>2, <3>6, <3>7, FilesPrefix
    <3>10. n + 1 <= Len(g)
      <4>1. n <= Len(g) /\ Len(g) \in Nat /\ \A i \in 1..n : d[i] = g[i]
        BY <3>6, <3>8, <3>9 DEF Starts
      <4>2. n # Len(g)
        BY <3>6, <3>8, <3>9, <4>1, SeqEqual
      <4> QED BY <4>1, <4>2
    <3>11. inner \in Seq(Segment) /\ Starts(inner, g)
      <4>1. inner = SubSeq(g, 1, n + 1)
        BY <3>2, <3>7, <3>8
      <4>2. inner \in Seq(Segment) /\ Len(inner) = n + 1 /\ \A i \in 1..(n + 1) : inner[i] = g[i]
        BY <3>6, <3>8, <3>10, <4>1, FrontOfSeq
      <4> QED BY <3>10, <4>2 DEF Starts
    <3>12. p = inner
      BY <2>2, <3>5, <3>11
    <3>13. Files!Chosen(p) = Files!Workspace
      <4>1. \A r \in routes : ~Files!Matches(r, g)
        BY <1>1, <1>2, <2>4, <3>4, <3>6, ChosenMatches
      <4>2. ASSUME NEW r \in routes, Files!Matches(r, p)
            PROVE  Files!Matches(r, g)
        <5>1. r.prefix \in Seq(Segment)
          BY <1>1, <1>2
        <5>2. Starts(r.prefix, p)
          BY <3>11, <3>12, <4>2, <5>1, FilesPrefix DEF Files!Matches
        <5>3. Starts(r.prefix, g)
          <6>1. PICK x \in Nat, y \in Nat, z \in Nat : x = Len(r.prefix) /\ y = Len(p) /\ z = Len(g)
            BY <3>6, <3>11, <3>12, <5>1
          <6> QED BY <3>11, <3>12, <5>2, <6>1 DEF Starts
        <5>4. Files!IsPrefix(r.prefix, g)
          BY <3>6, <5>1, <5>3, FilesPrefix
        <5> QED BY <4>2, <5>4 DEF Files!Matches
      <4> QED BY <1>1, <1>2, <3>11, <3>12, <4>1, <4>2, ChosenMatches
    <3>14. Files!Inner(p) = p
      <4>1. <<>> \o Files!Inner(p) = p /\ Files!Inner(p) \in Seq(Segment)
        BY <1>1, <1>2, <2>4, <3>5, <3>11, <3>12, <3>13, InnerIsRest
      <4> QED BY <4>1
    <3>15. Files!IsPrefix(p, f.path)
      BY <3>6, <3>7, <3>11, <3>12, FilesPrefix
    <3>16. f.path \in Files!FilesBelow(Files!Chosen(p), Files!Inner(p))
      BY <2>4, <3>13, <3>14, <3>15 DEF Files!FilesBelow, Files!Below
    <3>17. g \in Files!Grep(p)
      BY <2>4, <3>3, <3>13, <3>16 DEF Files!Grep, Files!RestorePrefix
    <3> QED BY <3>4, <3>17
  <2> QED BY <2>3, <2>4
<1>5. ASSUME NEW dir \in Seq(Segment), Files!Chosen(dir) = Files!Workspace \/ Files!Inner(dir) # <<>>,
             NEW p \in FilePath, Files!Read(p) # {}, Files!IsPrefix(dir, p),
             Files!Chosen(p) = Files!Chosen(dir)
      PROVE  p \in Files!Grep(dir)
  <2>1. PICK b : b = Files!Chosen(dir)
    OBVIOUS
  <2>2. PICK f \in files[b] : f.path = Files!Inner(p)
    BY <1>5, <2>1 DEF Files!Read, Files!Texts
  <2>3. p \in Seq(Segment) /\ b.prefix \o f.path = p
    BY <1>1, <1>2, <1>5, <2>1, <2>2, InnerIsRest
  <2>4. b.prefix \in Seq(Segment) /\ Starts(b.prefix, dir) /\ Starts(b.prefix, p)
    BY <1>1, <1>2, <1>5, <2>1, <2>3, ChosenMatches
  <2>5. PICK n : n = Len(b.prefix)
    OBVIOUS
  <2>6. Files!Inner(dir) = RestOf(n, dir) /\ Files!Inner(p) = RestOf(n, p)
    BY <1>1, <1>2, <1>5, <2>1, <2>3, <2>5, InnerIsRest
  <2>7. RestOf(n, dir) \in Seq(Segment) /\ RestOf(n, p) \in Seq(Segment)
    BY <2>3, <2>4, <2>5, BeginningAndRest
  <2>8. Starts(dir, p)
    BY <1>5, <2>3, FilesPrefix
  <2>9. Starts(RestOf(n, dir), RestOf(n, p))
    BY <2>3, <2>4, <2>5, <2>8, RestsStart
  <2>10. Files!IsPrefix(Files!Inner(dir), f.path)
    BY <2>2, <2>6, <2>7, <2>9, FilesPrefix
  <2>11. f.path \in Files!FilesBelow(b, Files!Inner(dir))
    BY <1>5, <2>1, <2>10 DEF Files!FilesBelow, Files!Below
  <2> QED BY <2>1, <2>3, <2>11 DEF Files!Grep, Files!RestorePrefix
<1>6. \A dir \in FilePath : dir \in Seq(Segment)
  BY <1>1
<1> QED BY <1>3, <1>4, <1>5, <1>6 DEF FilesHold, Files!ListedFilesAreRead

-------------------------------------------------------------------------------
(***************************************************************************)
(* FileTools.  The pages read so far are the file as far as they go, for   *)
(* what they asked for was in it, and who writes the file begins again; an *)
(* edit, or the replacements done before it failed, touches words only.    *)
(***************************************************************************)

TextLine == [number : Nat, line : FileWord]

FirstPages(text, n) == [i \in 1..n |-> [number |-> i, line |-> text[i]]]

PagesUpTo(text, offset) == FirstPages(text, Toolbox!Lesser(offset - 1, Len(text)))

OffsetAfter(text, offset, limit) ==
  offset + (IF limit = 0 THEN Len(text) + 1 ELSE limit)

ToolsHold ==
  /\ texts \in [ToolFile -> SUBSET Seq(FileWord)]
  /\ \A f \in ToolFile : \A s, t \in texts[f] : s = t
  /\ reader \in [file : SUBSET ToolFile, limit : Nat, offset : Nat \ {0}, pages : Seq(TextLine)]
  /\ \A f, g \in reader.file : f = g
  /\ Toolbox!PagesCoverTheFile
  /\ Toolbox!FoundLinesAreShown
  /\ Toolbox!EditsSpareTheRest

LEMMA ToolTexts == Toolbox!Text \subseteq Seq(FileWord)
<1> SUFFICES ASSUME NEW t \in Toolbox!Text PROVE t \in Seq(FileWord)
  OBVIOUS
<1>1. PICK m \in 0..MaxLines : t \in [1..m -> FileWord]
  BY DEF Toolbox!Text, Toolbox!BoundedSeq, Toolbox!SeqOf
<1>2. m \in Nat
  BY <1>1, ToolsAssumption
<1> QED BY <1>1, <1>2

Spares(text, new, words) ==
  /\ new \in Seq(FileWord) /\ Len(new) = Len(text)
  /\ \A i \in DOMAIN text : text[i] \notin words => new[i] = text[i]

LEMMA LineReplaced ==
  ASSUME NEW text \in Seq(FileWord), NEW r \in Toolbox!Replacement
  PROVE  Spares(text, Toolbox!Replaced(text, r), {r.old})
<1>1. PICK n \in Nat : n = Len(text) /\ DOMAIN text = 1..n
  OBVIOUS
<1>2. PICK new : new = Toolbox!Replaced(text, r)
  OBVIOUS
<1>3. new = [i \in 1..n |-> IF i \in Toolbox!Occurrences(text, r.old) THEN r.new ELSE text[i]]
  BY <1>1, <1>2 DEF Toolbox!Replaced
<1>4. r.new \in FileWord /\ \A i \in 1..n : text[i] \in FileWord
  BY <1>1 DEF Toolbox!Replacement
<1>5. new \in [1..n -> FileWord]
  BY <1>3, <1>4
<1>6. new \in Seq(FileWord) /\ Len(new) = n
  BY ONLY <1>1, <1>5
<1>7. ASSUME NEW i \in 1..n, text[i] \notin {r.old} PROVE new[i] = text[i]
  BY <1>3, <1>7 DEF Toolbox!Occurrences
<1> QED BY <1>1, <1>2, <1>6, <1>7 DEF Spares

LEMMA SparedTwice ==
  ASSUME NEW a, NEW b, NEW c, NEW V, NEW W, NEW U, a \in Seq(FileWord),
         Spares(a, b, V), Spares(b, c, W), V \subseteq U, W \subseteq U
  PROVE  Spares(a, c, U)
<1>1. PICK n \in Nat : n = Len(a) /\ DOMAIN a = 1..n
  OBVIOUS
<1>2. b \in Seq(FileWord) /\ Len(b) = n /\ DOMAIN b = 1..n
  BY <1>1 DEF Spares
<1>3. c \in Seq(FileWord) /\ Len(c) = n
  BY <1>2 DEF Spares
<1>4. ASSUME NEW i \in 1..n, a[i] \notin U PROVE c[i] = a[i]
  <2>1. b[i] = a[i]
    BY <1>1, <1>4 DEF Spares
  <2> QED BY <1>2, <1>4, <2>1 DEF Spares
<1> QED BY <1>1, <1>3, <1>4 DEF Spares

\* An edit is of two replacements, and of fewer if one of them fails.
LEMMA EditOfFew ==
  ASSUME NEW text \in Seq(FileWord), NEW m \in 0..2, NEW rs \in [1..m -> Toolbox!Replacement]
  PROVE  Spares(text, Toolbox!EditedAtOnce(text, rs), {rs[k].old : k \in 1..m})
<1> DEFINE one == Toolbox!Replaced(text, rs[1])
           two == Toolbox!Replaced(one, rs[2])
           words == {rs[k].old : k \in 1..m}
           g == [n \in 0..m |-> IF n = 0 THEN text ELSE IF n = 1 THEN one ELSE two]
           F(f) == [n \in 0..m |-> IF n = 0 THEN text ELSE Toolbox!Replaced(f[n - 1], rs[n])]
<1>1. Len(rs) = m
  OBVIOUS
<1>2. F(g) = g
  <2>1. ASSUME NEW n \in 0..m PROVE F(g)[n] = g[n]
    <3>1. CASE n = 0
      BY <3>1
    <3>2. CASE n = 1
      <4>1. 0 \in 0..m /\ g[0] = text
        OBVIOUS
      <4> QED BY <3>2, <4>1
    <3>3. CASE n = 2
      <4>1. 1 \in 0..m /\ g[1] = one
        BY <3>3
      <4> QED BY <3>3, <4>1
    <3> QED BY <3>1, <3>2, <3>3
  <2> QED BY <2>1
<1> HIDE DEF g
<1>3. PICK h : h = CHOOSE f : f = F(f)
  OBVIOUS
<1>4. h = F(h)
  BY <1>2, <1>3
<1>5. Toolbox!EditedAtOnce(text, rs) = h[m]
  BY <1>1, <1>3 DEF Toolbox!EditedAtOnce
<1>6. h[0] = text
  BY <1>4
<1>7. CASE m = 0
  BY <1>5, <1>6, <1>7 DEF Spares
<1>8. CASE m = 1
  <2>1. h[1] = Toolbox!Replaced(h[0], rs[1])
    BY <1>4, <1>8
  <2>2. words = {rs[1].old} /\ rs[1] \in Toolbox!Replacement
    BY <1>8
  <2> QED BY <1>5, <1>6, <1>8, <2>1, <2>2, LineReplaced
<1>9. CASE m = 2
  <2>1. h[1] = Toolbox!Replaced(h[0], rs[1]) /\ h[2] = Toolbox!Replaced(h[1], rs[2])
    BY <1>4, <1>9
  <2>2. {rs[1].old} \subseteq words /\ {rs[2].old} \subseteq words
    BY <1>9
  <2>3. rs[1] \in Toolbox!Replacement /\ rs[2] \in Toolbox!Replacement
    BY <1>9
  <2>4. Spares(text, h[1], {rs[1].old})
    BY <1>6, <2>1, <2>3, LineReplaced
  <2>5. h[1] \in Seq(FileWord)
    BY <2>4 DEF Spares
  <2>6. Spares(h[1], h[2], {rs[2].old})
    BY <2>1, <2>3, <2>5, LineReplaced
  <2>7. Spares(text, h[2], words)
    BY <2>2, <2>4, <2>6, SparedTwice
  <2> QED BY <1>5, <1>9, <2>7
<1> QED BY <1>7, <1>8, <1>9

LEMMA EditsDoneOfTwo ==
  ASSUME NEW text, NEW rs \in [1..2 -> Toolbox!Replacement]
  PROVE  Toolbox!EditsDone(text, rs) \in 0..2
<1> DEFINE applies(k) ==
             Toolbox!Cardinality(Toolbox!Occurrences(Toolbox!EditedAtOnce(text, SubSeq(rs, 1, k - 1)),
                                                     rs[k].old)) = 1
           stops(n) == (\A k \in 1..n : applies(k)) /\ (n = 2 \/ ~applies(n + 1))
<1>1. Len(rs) = 2
  OBVIOUS
<1>2. Toolbox!EditsDone(text, rs) = CHOOSE n \in 0..2 : stops(n)
  BY <1>1 DEF Toolbox!EditsDone
<1> HIDE DEF applies
<1>3. CASE ~applies(1)
  <2>1. stops(0)
    BY <1>3
  <2> QED BY <1>2, <2>1
<1>4. CASE applies(1) /\ ~applies(2)
  <2>1. stops(1)
    BY <1>4
  <2> QED BY <1>2, <2>1
<1>5. CASE applies(1) /\ applies(2)
  <2>1. stops(2)
    BY <1>5
  <2> QED BY <1>2, <2>1
<1> QED BY <1>3, <1>4, <1>5
\* What an edit replaces, whether it is done or fails half-way.
LEMMA EditSpares ==
  ASSUME NEW text \in Seq(FileWord), NEW rs \in [1..2 -> Toolbox!Replacement], NEW m \in 0..2
  PROVE  Spares(text, Toolbox!EditedAtOnce(text, SubSeq(rs, 1, m)),
                {r.old : r \in Toolbox!ToSet(rs)})
<1>1. rs \in Seq(Toolbox!Replacement) /\ Len(rs) = 2
  <2>1. PICK R : R = Toolbox!Replacement
    OBVIOUS
  <2>2. PICK two \in Nat : two = 2
    OBVIOUS
  <2>3. rs \in [1..two -> R]
    BY <2>1, <2>2
  <2>4. rs \in Seq(R) /\ Len(rs) = two
    BY ONLY <2>3
  <2> QED BY <2>1, <2>2, <2>4
<1>2. PICK u : u = SubSeq(rs, 1, m)
  OBVIOUS
<1>3. u \in Seq(Toolbox!Replacement) /\ Len(u) = m /\ \A k \in 1..m : u[k] = rs[k]
  BY <1>1, <1>2, FrontOfSeq
<1>4. u \in [1..m -> Toolbox!Replacement]
  BY <1>3
<1>5. Spares(text, Toolbox!EditedAtOnce(text, u), {u[k].old : k \in 1..m})
  BY <1>4, EditOfFew
<1>6. {u[k].old : k \in 1..m} \subseteq {r.old : r \in Toolbox!ToSet(rs)}
  <2>1. ASSUME NEW k \in 1..m PROVE u[k].old \in {r.old : r \in Toolbox!ToSet(rs)}
    <3>1. k \in DOMAIN rs /\ u[k] = rs[k]
      BY <1>3
    <3>2. rs[k] \in Toolbox!ToSet(rs)
      BY <3>1 DEF Toolbox!ToSet
    <3> QED BY <3>1, <3>2
  <2> QED BY <2>1
<1> QED BY <1>2, <1>5, <1>6 DEF Spares

\* A sequence in two pieces.
LEMMA PiecesJoin ==
  ASSUME NEW S, NEW k \in Nat, NEW d \in Nat, NEW all, \A i \in 1..(k + d) : all[i] \in S
  PROVE  /\ [i \in 1..(k + d) |-> all[i]] \in Seq(S)
         /\ [i \in 1..k |-> all[i]] \o [i \in 1..d |-> all[k + i]]
              = [i \in 1..(k + d) |-> all[i]]
<1> DEFINE s == [i \in 1..k |-> all[i]]
           t == [i \in 1..d |-> all[k + i]]
           u == [i \in 1..(k + d) |-> all[i]]
           v == s \o t
<1>1. \A i \in 1..k : s[i] = all[i] /\ all[i] \in S
  OBVIOUS
<1>2. \A i \in 1..d : t[i] = all[k + i] /\ all[k + i] \in S
  OBVIOUS
<1>3. \A i \in 1..(k + d) : u[i] = all[i]
  OBVIOUS
<1>4. s \in [1..k -> S] /\ t \in [1..d -> S] /\ u \in [1..(k + d) -> S]
  BY <1>1, <1>2
<1> HIDE DEF s, t, u
<1>5. s \in Seq(S) /\ Len(s) = k
  BY ONLY <1>4, k \in Nat
<1>6. t \in Seq(S) /\ Len(t) = d
  BY ONLY <1>4, d \in Nat
<1>7. u \in Seq(S) /\ Len(u) = k + d
  <2>1. PICK m \in Nat : m = k + d
    OBVIOUS
  <2>2. u \in [1..m -> S]
    BY <1>4, <2>1
  <2>3. u \in Seq(S) /\ Len(u) = m
    BY ONLY <2>2, m \in Nat
  <2> QED BY <2>1, <2>3
<1>8. /\ v \in Seq(S) /\ Len(v) = k + d
      /\ \A i \in 1..k : v[i] = s[i]
      /\ \A i \in 1..d : v[k + i] = t[i]
  BY ONLY <1>5, <1>6, k \in Nat, d \in Nat
<1> HIDE DEF v
<1>9. ASSUME NEW i \in 1..(k + d) PROVE v[i] = u[i]
  <2>1. CASE i \in 1..k
    BY <1>1, <1>3, <1>8, <2>1
  <2>2. CASE i \notin 1..k
    <3>1. i - k \in 1..d /\ i = k + (i - k)
      BY <2>2
    <3>2. v[k + (i - k)] = all[k + (i - k)]
      BY <1>2, <1>8, <3>1
    <3> QED BY <1>3, <3>1, <3>2
  <2> QED BY <2>1, <2>2
<1>10. v = u
  BY <1>7, <1>8, <1>9, SeqEqual
<1> QED BY <1>7, <1>10 DEF s, t, u, v

\* After the pages before it, the next page is what the file goes on with.
LEMMA NextPage ==
  ASSUME NEW text \in Seq(FileWord), NEW offset \in Nat \ {0}, NEW limit \in Nat,
         offset <= Len(text) + 1
  PROVE  /\ PagesUpTo(text, offset) \o Toolbox!Shown(text, offset, limit)
              = PagesUpTo(text, OffsetAfter(text, offset, limit))
         /\ PagesUpTo(text, OffsetAfter(text, offset, limit)) \in Seq(TextLine)
         /\ OffsetAfter(text, offset, limit) \in Nat \ {0}
<1>1. PICK n \in Nat : n = Len(text)
  OBVIOUS
<1>2. PICK next \in Nat \ {0} : next = OffsetAfter(text, offset, limit)
  <2>1. OffsetAfter(text, offset, limit) \in Nat \ {0}
    BY <1>1 DEF OffsetAfter
  <2> QED BY <2>1
<1>3. PICK k \in Nat : k = offset - 1 /\ k <= n
  BY <1>1
<1>4. PICK d \in Nat : /\ k + d = Toolbox!Lesser(next - 1, n) /\ k + d <= n
                       /\ d = (IF limit > 0 THEN Toolbox!Lesser(k + limit, n) ELSE n) - k
  <2>1. PICK e \in Nat : /\ e = Toolbox!Lesser(next - 1, n) /\ k <= e /\ e <= n
                         /\ e = IF limit > 0 THEN Toolbox!Lesser(k + limit, n) ELSE n
    BY <1>1, <1>2, <1>3 DEF Toolbox!Lesser, OffsetAfter
  <2>2. e - k \in Nat /\ k + (e - k) = e
    BY <2>1
  <2> QED BY <2>1, <2>2
<1>5. PICK all : all = FirstPages(text, n)
  OBVIOUS
<1>6. ASSUME NEW i \in 1..n
      PROVE  all[i] = [number |-> i, line |-> text[i]] /\ all[i] \in TextLine
  <2>1. all[i] = [number |-> i, line |-> text[i]]
    BY <1>5 DEF FirstPages
  <2>2. text[i] \in FileWord /\ i \in Nat
    BY <1>1
  <2> QED BY <2>1, <2>2 DEF TextLine
<1>7. PagesUpTo(text, offset) = [i \in 1..k |-> all[i]]
  <2>1. Toolbox!Lesser(offset - 1, n) = k
    BY <1>3 DEF Toolbox!Lesser
  <2>2. PagesUpTo(text, offset) = [i \in 1..k |-> [number |-> i, line |-> text[i]]]
    BY <1>1, <2>1 DEF PagesUpTo, FirstPages
  <2>3. \A i \in 1..k : i \in 1..n
    BY <1>3
  <2> QED BY <1>6, <2>2, <2>3
<1>8. PagesUpTo(text, next) = [i \in 1..(k + d) |-> all[i]]
  <2>1. PagesUpTo(text, next) = [i \in 1..(k + d) |-> [number |-> i, line |-> text[i]]]
    BY <1>1, <1>4 DEF PagesUpTo, FirstPages
  <2>2. \A i \in 1..(k + d) : i \in 1..n
    BY <1>4
  <2> QED BY <1>6, <2>1, <2>2
<1>9. Toolbox!Shown(text, offset, limit) = [i \in 1..d |-> all[k + i]]
  <2>1. Toolbox!StartOf(text, offset) = k
    BY <1>1, <1>3 DEF Toolbox!StartOf, Toolbox!Lesser
  <2>2. Toolbox!Shown(text, offset, limit)
          = [i \in 1..d |-> [number |-> k + i, line |-> text[k + i]]]
    BY <1>1, <1>4, <2>1 DEF Toolbox!Shown
  <2>3. \A i \in 1..d : k + i \in 1..n
    BY <1>4
  <2> QED BY <1>6, <2>2, <2>3
<1>10. \A i \in 1..(k + d) : all[i] \in TextLine
  <2>1. \A i \in 1..(k + d) : i \in 1..n
    BY <1>4
  <2> QED BY <1>6, <2>1
<1>11. /\ [i \in 1..(k + d) |-> all[i]] \in Seq(TextLine)
       /\ [i \in 1..k |-> all[i]] \o [i \in 1..d |-> all[k + i]]
            = [i \in 1..(k + d) |-> all[i]]
  BY <1>10, PiecesJoin
<1> QED BY <1>2, <1>7, <1>8, <1>9, <1>11

LEMMA LineIsShown ==
  ASSUME NEW text \in Seq(FileWord), NEW i \in DOMAIN text
  PROVE  Toolbox!Shown(text, i, 1) = <<[number |-> i, line |-> text[i]]>>
<1>1. PICK n \in Nat : n = Len(text) /\ i \in 1..n
  OBVIOUS
<1>2. Toolbox!StartOf(text, i) = i - 1
  BY <1>1 DEF Toolbox!StartOf, Toolbox!Lesser
<1>3. Toolbox!Lesser(i - 1 + 1, n) = i
  BY <1>1 DEF Toolbox!Lesser
<1>4. Toolbox!Shown(text, i, 1)
        = [j \in 1..(i - (i - 1)) |-> [number |-> i - 1 + j, line |-> text[i - 1 + j]]]
  BY <1>1, <1>2, <1>3 DEF Toolbox!Shown
<1>5. i - (i - 1) = 1
  BY <1>1
<1>6. ASSUME NEW j \in 1..1
      PROVE  [number |-> i - 1 + j, line |-> text[i - 1 + j]] = [number |-> i, line |-> text[i]]
  <2>1. i - 1 + j = i
    BY <1>1
  <2> QED BY <2>1
<1>7. PICK row : row = [number |-> i, line |-> text[i]]
  OBVIOUS
<1>8. Toolbox!Shown(text, i, 1) = [j \in 1..1 |-> row]
  BY <1>4, <1>5, <1>6, <1>7
<1>9. [j \in 1..1 |-> row] = <<row>>
  OBVIOUS
<1> QED BY <1>7, <1>8, <1>9

LEMMA ToolsInit == Toolbox!Init => ToolsHold
<1> SUFFICES ASSUME Toolbox!Init PROVE ToolsHold
  OBVIOUS
<1> USE DEF Toolbox!Init
<1>1. texts = [f \in ToolFile |-> {}]
  OBVIOUS
<1>2. reader = [file |-> {}, limit |-> 0, offset |-> 1, pages |-> <<>>]
  BY DEF Toolbox!NoReader
<1>3. reader \in [file : SUBSET ToolFile, limit : Nat, offset : Nat \ {0}, pages : Seq(TextLine)]
  <2>1. <<>> \in Seq(TextLine)
    OBVIOUS
  <2> QED BY <1>2, <2>1
<1>4. Toolbox!PagesCoverTheFile
  BY <1>2 DEF Toolbox!PagesCoverTheFile
<1>5. Toolbox!FoundLinesAreShown
  BY DEF Toolbox!FoundLinesAreShown
<1>6. before.old = <<>> /\ before.new = <<>>
  BY DEF Toolbox!NoEdit
<1>7. Toolbox!EditsSpareTheRest
  BY <1>6 DEF Toolbox!EditsSpareTheRest
<1>8. \A f, g \in reader.file : f = g
  BY <1>2
<1> QED BY <1>1, <1>3, <1>4, <1>5, <1>7, <1>8 DEF ToolsHold

\* Who writes a file ends what was read and found of it.
LEMMA ToolsWrote ==
  ASSUME ToolsHold, NEW f \in ToolFile, NEW text \in Seq(FileWord), Toolbox!Wrote(f, text)
  PROVE  /\ texts' \in [ToolFile -> SUBSET Seq(FileWord)]
         /\ \A g \in ToolFile : \A s, t \in texts'[g] : s = t
         /\ reader' \in [file : SUBSET ToolFile, limit : Nat, offset : Nat \ {0},
                         pages : Seq(TextLine)]
         /\ \A g, h \in reader'.file : g = h
         /\ Toolbox!PagesCoverTheFile'
         /\ Toolbox!FoundLinesAreShown'
<1>1. texts' = [texts EXCEPT ![f] = {text}]
  BY DEF Toolbox!Wrote
<1>2. texts' \in [ToolFile -> SUBSET Seq(FileWord)]
  BY <1>1 DEF ToolsHold
<1>3. \A g \in ToolFile : \A s, t \in texts'[g] : s = t
  BY <1>1 DEF ToolsHold
<1>4. found' = {}
  BY DEF Toolbox!Wrote
<1>5. Toolbox!FoundLinesAreShown'
  BY <1>4 DEF Toolbox!FoundLinesAreShown
<1>6. CASE reader.file = {f}
  <2>1. reader' = [file |-> {}, limit |-> 0, offset |-> 1, pages |-> <<>>]
    BY <1>6 DEF Toolbox!Wrote, Toolbox!NoReader
  <2>2. <<>> \in Seq(TextLine)
    OBVIOUS
  <2>3. reader' \in [file : SUBSET ToolFile, limit : Nat, offset : Nat \ {0}, pages : Seq(TextLine)]
    BY <2>1, <2>2
  <2>4. Toolbox!PagesCoverTheFile'
    BY <2>1 DEF Toolbox!PagesCoverTheFile
  <2>5. \A g, h \in reader'.file : g = h
    BY <2>1
  <2> QED BY <1>2, <1>3, <1>5, <2>3, <2>4, <2>5
<1>7. CASE reader.file # {f}
  <2>1. reader' = reader
    BY <1>7 DEF Toolbox!Wrote
  <2>2. f \notin reader.file
    BY <1>7 DEF ToolsHold
  <2>3. \A g \in reader.file : g \in ToolFile /\ texts'[g] = texts[g]
    BY <1>1, <2>2 DEF ToolsHold
  <2>4. Toolbox!PagesCoverTheFile'
    BY <2>1, <2>3 DEF ToolsHold, Toolbox!PagesCoverTheFile
  <2>5. reader \in [file : SUBSET ToolFile, limit : Nat, offset : Nat \ {0}, pages : Seq(TextLine)]
    BY DEF ToolsHold
  <2>6. \A g, h \in reader.file : g = h
    BY DEF ToolsHold
  <2> QED BY <1>2, <1>3, <1>5, <2>1, <2>4, <2>5, <2>6
<1> QED BY <1>6, <1>7

LEMMA ToolsStep ==
  ASSUME ToolsHold, [Toolbox!Next]_tools_vars
  PROVE  ToolsHold'
<1>1. Toolbox!Text \subseteq Seq(FileWord)
  BY ToolTexts
<1>2. ASSUME NEW f \in ToolFile, NEW text \in Toolbox!Text, Toolbox!WriteFile(f, text)
      PROVE  ToolsHold'
  <2>1. Toolbox!Wrote(f, text) /\ text \in Seq(FileWord)
    BY <1>1, <1>2 DEF Toolbox!WriteFile
  <2>2. before'.old = <<>> /\ before'.new = <<>>
    BY <1>2 DEF Toolbox!WriteFile, Toolbox!NoEdit
  <2>3. Toolbox!EditsSpareTheRest'
    BY <2>2 DEF Toolbox!EditsSpareTheRest
  <2> QED BY <2>1, <2>3, ToolsWrote DEF ToolsHold
<1>3. ASSUME NEW f \in ToolFile, NEW rs \in [1..2 -> Toolbox!Replacement],
             Toolbox!EditFile(f, rs)
      PROVE  ToolsHold'
  <2>1. PICK text \in texts[f] : \E done, new :
          /\ done = IF backend THEN Toolbox!EditsDone(text, rs) ELSE Len(rs)
          /\ new = Toolbox!EditedAtOnce(text, SubSeq(rs, 1, done))
          /\ Toolbox!Wrote(f, new)
          /\ before' = [old |-> text, new |-> new,
                        words |-> {r.old : r \in Toolbox!ToSet(rs)}]
    BY <1>3 DEF Toolbox!EditFile
  <2>2. PICK done, new :
          /\ done = IF backend THEN Toolbox!EditsDone(text, rs) ELSE Len(rs)
          /\ new = Toolbox!EditedAtOnce(text, SubSeq(rs, 1, done))
          /\ Toolbox!Wrote(f, new)
          /\ before' = [old |-> text, new |-> new,
                        words |-> {r.old : r \in Toolbox!ToSet(rs)}]
    BY <2>1
  <2>3. text \in Seq(FileWord)
    BY DEF ToolsHold
  <2>4. done \in 0..2
    <3>1. Len(rs) = 2
      OBVIOUS
    <3>2. Toolbox!EditsDone(text, rs) \in 0..2
      BY EditsDoneOfTwo
    <3> QED BY <2>2, <3>1, <3>2
  <2>5. Spares(text, new, {r.old : r \in Toolbox!ToSet(rs)})
    BY <2>2, <2>3, <2>4, EditSpares
  <2>6. Toolbox!EditsSpareTheRest'
    <3>1. /\ before'.old = text /\ before'.new = new
          /\ before'.words = {r.old : r \in Toolbox!ToSet(rs)}
      BY <2>2
    <3> QED BY <2>5, <3>1 DEF Spares, Toolbox!EditsSpareTheRest
  <2>7. new \in Seq(FileWord)
    BY <2>5 DEF Spares
  <2> QED BY <2>2, <2>6, <2>7, ToolsWrote DEF ToolsHold
<1>4. ASSUME NEW f \in ToolFile, NEW limit \in PageSize, Toolbox!ReadFile(f, limit)
      PROVE  ToolsHold'
  <2>1. limit \in Nat
    BY ToolsAssumption
  <2>2. PICK r : r = IF reader.file = {f} /\ reader.limit = limit THEN reader
                     ELSE [Toolbox!NoReader EXCEPT !.file = {f}, !.limit = limit]
    OBVIOUS
  <2>3. PICK text \in texts[f] :
          /\ r.offset <= Len(text) + 1
          /\ reader' = [r EXCEPT !.pages = @ \o Toolbox!Shown(text, r.offset, limit),
                                 !.offset = @ + (IF limit = 0 THEN Len(text) + 1 ELSE limit)]
    BY <1>4, <2>2 DEF Toolbox!ReadFile
  <2>4. text \in Seq(FileWord) /\ \A t \in texts[f] : t = text
    BY DEF ToolsHold
  <2>5. PICK n \in Nat : n = Len(text)
    BY <2>4
  <2>6. /\ r \in [file : SUBSET ToolFile, limit : Nat, offset : Nat \ {0}, pages : Seq(TextLine)]
        /\ r.file = {f}
        /\ r.pages = PagesUpTo(text, r.offset)
    <3>1. CASE r = reader /\ reader.file = {f}
      <4>1. r \in [file : SUBSET ToolFile, limit : Nat, offset : Nat \ {0},
                   pages : Seq(TextLine)]
        BY <3>1 DEF ToolsHold
      <4> QED BY <3>1, <4>1 DEF ToolsHold, Toolbox!PagesCoverTheFile, PagesUpTo, FirstPages
    <3>2. CASE r = [Toolbox!NoReader EXCEPT !.file = {f}, !.limit = limit]
      <4>1. r = [file |-> {f}, limit |-> limit, offset |-> 1, pages |-> <<>>]
        BY <3>2 DEF Toolbox!NoReader
      <4>2. <<>> \in Seq(TextLine) /\ 1 - 1 = 0 /\ Toolbox!Lesser(0, n) = 0
        BY DEF Toolbox!Lesser
      <4>3. PagesUpTo(text, 1) = <<>>
        BY <2>5, <4>2 DEF PagesUpTo, FirstPages
      <4> QED BY <2>1, <4>1, <4>2, <4>3
    <3> QED BY <2>2, <3>1, <3>2
  <2>7. PICK offset \in Nat \ {0} : offset = r.offset
    BY <2>6
  <2>8. PICK next, more : /\ next = OffsetAfter(text, offset, limit)
                          /\ more = PagesUpTo(text, next)
    OBVIOUS
  <2>9. /\ next \in Nat \ {0} /\ more \in Seq(TextLine)
        /\ r.pages \o Toolbox!Shown(text, offset, limit) = more
    BY <2>1, <2>3, <2>4, <2>6, <2>7, <2>8, NextPage
  <2>10. /\ reader'.file = {f} /\ reader'.offset = next /\ reader'.pages = more
         /\ reader' \in [file : SUBSET ToolFile, limit : Nat, offset : Nat \ {0},
                         pages : Seq(TextLine)]
    <3>1. reader' = [r EXCEPT !.pages = more, !.offset = next]
      BY <2>3, <2>6, <2>7, <2>8, <2>9 DEF OffsetAfter
    <3> QED BY <2>6, <2>9, <3>1
  <2>11. texts' = texts /\ found' = found /\ before' = before
    BY <1>4 DEF Toolbox!ReadFile
  <2>12. Toolbox!PagesCoverTheFile'
    <3>1. ASSUME NEW g \in reader'.file, NEW t \in texts'[g]
          PROVE  reader'.pages = [i \in 1..Toolbox!Lesser(reader'.offset - 1, Len(t)) |->
                                    [number |-> i, line |-> t[i]]]
      <4>1. t = text
        BY <2>4, <2>10, <2>11
      <4> QED BY <2>8, <2>10, <4>1 DEF PagesUpTo, FirstPages
    <3> QED BY <3>1 DEF Toolbox!PagesCoverTheFile
  <2>13. Toolbox!FoundLinesAreShown' /\ Toolbox!EditsSpareTheRest'
    BY <2>11 DEF ToolsHold, Toolbox!FoundLinesAreShown, Toolbox!EditsSpareTheRest
  <2>14. \A g, h \in reader'.file : g = h
    BY <2>10
  <2> QED BY <2>10, <2>11, <2>12, <2>13, <2>14 DEF ToolsHold
<1>5. ASSUME NEW query \in FileWord, NEW dir, Toolbox!Grep(query, dir)
      PROVE  ToolsHold'
  <2>1. found' = Toolbox!Matches(query, dir) \X {query}
        /\ texts' = texts /\ reader' = reader /\ before' = before
    BY <1>5 DEF Toolbox!Grep
  <2>2. ASSUME NEW m \in found'
        PROVE  \E text \in texts'[m[1].file] :
                 Toolbox!Shown(text, m[1].number, 1) = <<[number |-> m[1].number, line |-> m[2]]>>
    <3>1. PICK p \in Toolbox!Matches(query, dir) : m = <<p, query>>
      BY <2>1, <2>2
    <3>2. PICK f \in ToolFile :
            p \in UNION {{[file |-> f, number |-> i] : i \in Toolbox!Occurrences(text, query)} :
                          text \in texts[f]}
      BY <3>1 DEF Toolbox!Matches, Toolbox!Under
    <3>3. PICK text \in texts[f] :
            p \in {[file |-> f, number |-> i] : i \in Toolbox!Occurrences(text, query)}
      BY <3>2
    <3>4. PICK i \in Toolbox!Occurrences(text, query) : p = [file |-> f, number |-> i]
      BY <3>3
    <3>5. text \in Seq(FileWord) /\ i \in DOMAIN text /\ text[i] = query
      BY <3>4 DEF ToolsHold, Toolbox!Occurrences
    <3>6. Toolbox!Shown(text, i, 1) = <<[number |-> i, line |-> text[i]]>>
      BY <3>5, LineIsShown
    <3>7. m[1].file = f /\ m[1].number = i /\ m[2] = query
      BY <3>1, <3>4
    <3> QED BY <2>1, <3>4, <3>5, <3>6, <3>7
  <2>3. Toolbox!FoundLinesAreShown'
    BY <2>2 DEF Toolbox!FoundLinesAreShown
  <2>4. Toolbox!PagesCoverTheFile' /\ Toolbox!EditsSpareTheRest'
    BY <2>1 DEF ToolsHold, Toolbox!PagesCoverTheFile, Toolbox!EditsSpareTheRest
  <2> QED BY <2>1, <2>3, <2>4 DEF ToolsHold
<1>6. ASSUME texts' = texts, reader' = reader, found' = found, before' = before
      PROVE  ToolsHold'
  BY <1>6 DEF ToolsHold, Toolbox!PagesCoverTheFile, Toolbox!FoundLinesAreShown,
              Toolbox!EditsSpareTheRest
<1>7. CASE \E dir \in Toolbox!Dirs : Toolbox!List(dir)
  BY <1>6, <1>7 DEF Toolbox!List
<1>8. CASE Toolbox!Refuse
  BY <1>6, <1>8 DEF Toolbox!Refuse, Toolbox!Refused
<1>9. CASE UNCHANGED tools_vars
  BY <1>6, <1>9 DEF tools_vars
<1> QED BY <1>2, <1>3, <1>4, <1>5, <1>7, <1>8, <1>9 DEF Toolbox!Next

\* A tool that needs an approval runs with one and only then, a task runs once and by its
\* helper, a path reads its own last write, also through a backend whose prefix is taken
\* off, and pages, found lines and edits are those of the file: DeepAgent's ToolExecutor,
\* CompositeBackend, and the file tools.
THEOREM DeepAgentsCorrect ==
  DeepAgents!Spec /\ Files!Spec /\ Toolbox!Spec => []DeepAgentsHold
<1>1. DeepAgents!Spec => []DeepHolds
  BY DeepInit, DeepStep, PTL DEF DeepAgents!Spec
<1>2. Files!Spec => []FilesHold
  BY FilesInit, FilesStep, PTL DEF Files!Spec
<1>3. Toolbox!Spec => []ToolsHold
  <2>1. ToolsHold /\ [Toolbox!Next]_(Toolbox!vars) => ToolsHold'
    BY ToolsStep DEF Toolbox!vars, tools_vars
  <2> QED BY ToolsInit, <2>1, PTL DEF Toolbox!Spec
<1>4. DeepHolds /\ FilesHold /\ ToolsHold => DeepAgentsHold
  BY DeepIsRight, FilesAreRight DEF DeepAgentsHold, ToolsHold
<1> QED BY <1>1, <1>2, <1>3, <1>4, PTL
===============================================================================

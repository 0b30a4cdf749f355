--------------------------- MODULE AnalysisProofs ---------------------------
(***************************************************************************)
(* Proofs about the intelligence packages: the dependency graph of the     *)
(* root cause analyzer, the anomaly detector's window and rule, and the    *)
(* capacity planner's series; and the types of all parts that MCAlways     *)
(* puts together.                                                          *)
(*                                                                         *)
(* The graph: a walk marks what it has visited. DepthFirst says that what  *)
(* is marked and not on the path has all its successors marked, so that an *)
(* empty path means closure; Sorted says that a degree counts what is      *)
(* still needed, so that what is left over when nothing is free lies on a  *)
(* cycle or behind one.                                                    *)
(*                                                                         *)
(* The window: values are written, and the position advanced, in separate  *)
(* steps. SlotsCounted and OneByOne relate the slots to the values that    *)
(* came, as long as nobody overtakes.                                      *)
(*                                                                         *)
(* The planner: the series is what was recorded without its first k        *)
(* points, which are exactly the expired ones, because time does not go    *)
(* back.                                                                   *)
(***************************************************************************)
EXTENDS MCAlways, SafeguardProofs, SnapshotProofs

-----------------------------------------------------------------------------
(* The dependency graph.                                                   *)

(* What the state consists of.                                             *)
GraphTypes ==
  /\ nodes \subseteq Services
  /\ dependsOn \subseteq nodes \X nodes
  /\ walk \in {"none", "impact", "chain", "sort"}
  /\ path \in Seq(Services)
  /\ answer \in Seq(Services)
  /\ visited \subseteq Services
  /\ inDegree \in [Services -> Nat]

WalkAtRest ==
  walk = "none" => path = <<>> /\ visited = {} /\ answer = <<>>

(* A walk goes from the service it was called for to what it affects, or   *)
(* to what it rests on.                                                    *)
Concerns(s) == IF walk = "impact" THEN Reaches(s, origin) ELSE Reaches(origin, s)

Collected == IF walk = "impact" THEN visited \ {origin} ELSE visited \cap Failing

DepthFirst ==
  walk \in {"impact", "chain"} =>
    /\ origin \in visited
    /\ ToSet(path) \subseteq visited
    /\ \A s \in visited : s \in ToSet(path) \/ Onwards(s) \subseteq visited
    /\ \A s \in visited : s = origin \/ Concerns(s)
    /\ IsInjective(answer)
    /\ ToSet(answer) = Collected

(* The sort: a node's degree counts what depends on it and is not in the   *)
(* answer yet; nodes of degree zero are in the answer or in the queue.     *)
StillNeed(b) == {a \in nodes \ ToSet(answer) : <<a, b>> \in dependsOn}

Sorted ==
  walk = "sort" =>
    /\ IsInjective(answer) /\ IsInjective(path)
    /\ ToSet(answer) \cap ToSet(path) = {}
    /\ ToSet(answer) \cup ToSet(path) \subseteq nodes
    /\ \A b \in Services : inDegree[b] = Cardinality(StillNeed(b))
    /\ \A b \in nodes : b \in ToSet(answer) \cup ToSet(path) <=> inDegree[b] = 0
    /\ \A i, j \in 1 .. Len(answer) : <<answer[i], answer[j]>> \in dependsOn => i < j

DepInv == GraphTypes /\ WalkAtRest /\ DepthFirst /\ Sorted

LEMMA DepInitInv == DepInit => DepInv
<1> SUFFICES ASSUME DepInit PROVE DepInv
  OBVIOUS
<1>1. GraphTypes
  BY DEF DepInit, GraphTypes, NoDegrees
<1> QED BY <1>1 DEF DepInit, DepInv, WalkAtRest, DepthFirst, Sorted

(* The graph changes only between two walks.                               *)
LEMMA EditKeepsInv ==
  ASSUME DepInv, Edit, nodes' \subseteq Services, dependsOn' \subseteq nodes' \X nodes'
  PROVE  DepInv'
<1>1. walk = "none" /\ walk' = "none" /\ UNCHANGED walkVars
  BY DEF Edit, walkVars
<1> QED BY <1>1 DEF DepInv, GraphTypes, WalkAtRest, DepthFirst, Sorted, walkVars

LEMMA GraphStepsKeepInv ==
  ASSUME DepInv, NEW a \in Services, NEW b \in Services,
         AddNode(a) \/ AddEdge(a, b) \/ RemoveEdge(a, b)
  PROVE  DepInv'
<1>1. nodes \subseteq Services /\ dependsOn \subseteq nodes \X nodes
  BY DEF DepInv, GraphTypes
<1>2. Edit /\ nodes' \subseteq Services /\ dependsOn' \subseteq nodes' \X nodes'
  BY <1>1 DEF AddNode, AddEdge, RemoveEdge
<1> QED BY <1>2, EditKeepsInv

-----------------------------------------------------------------------------
(* Reachability by closed sets: one edge, and one more edge at either end. *)
LEMMA EdgeReaches ==
  ASSUME NEW a, NEW b, <<a, b>> \in dependsOn
  PROVE  Reaches(a, b)
<1> SUFFICES ASSUME NEW closed \in SUBSET Services,
                    \A e \in dependsOn : e[1] \in closed \cup {a} => e[2] \in closed
             PROVE  b \in closed
  BY DEF Reaches
<1>1. <<a, b>>[1] = a /\ <<a, b>>[2] = b
  OBVIOUS
<1> QED BY <1>1

(* Reaching is closed under one more edge at its end,                      *)
LEMMA ReachesFurther ==
  ASSUME NEW a, NEW b, NEW c, Reaches(a, b), <<b, c>> \in dependsOn
  PROVE  Reaches(a, c)
<1> SUFFICES ASSUME NEW closed \in SUBSET Services,
                    \A e \in dependsOn : e[1] \in closed \cup {a} => e[2] \in closed
             PROVE  c \in closed
  BY DEF Reaches
<1>1. b \in closed
  BY DEF Reaches
<1>2. <<b, c>>[1] = b /\ <<b, c>>[2] = c
  OBVIOUS
<1> QED BY <1>1, <1>2

(* and at its start.                                                       *)
LEMMA ReachesFrom ==
  ASSUME NEW a, NEW b, NEW c, <<a, b>> \in dependsOn, Reaches(b, c)
  PROVE  Reaches(a, c)
<1> SUFFICES ASSUME NEW closed \in SUBSET Services,
                    \A e \in dependsOn : e[1] \in closed \cup {a} => e[2] \in closed
             PROVE  c \in closed
  BY DEF Reaches
<1>1. <<a, b>>[1] = a /\ <<a, b>>[2] = b
  OBVIOUS
<1>2. b \in closed
  BY <1>1
<1>3. \A e \in dependsOn : e[1] \in closed \cup {b} => e[2] \in closed
  BY <1>2
<1> QED BY <1>3 DEF Reaches

(* Where a walk goes on from a service.                                    *)
LEMMA OnwardsFacts ==
  ASSUME DepInv, NEW s
  PROVE  /\ Onwards(s) \subseteq Services
         /\ walk = "impact" => \A a : a \in Onwards(s) <=> <<a, s>> \in dependsOn
         /\ walk = "chain" => \A b : b \in Onwards(s) <=> <<s, b>> \in dependsOn
<1>1. nodes \subseteq Services /\ dependsOn \subseteq nodes \X nodes
  BY DEF DepInv, GraphTypes
<1>2. \A a, b : <<a, b>> \in dependsOn => a \in nodes /\ b \in nodes
  BY <1>1
<1> QED BY <1>1, <1>2 DEF Onwards

-----------------------------------------------------------------------------
LEMMA BeginsWalkKeepsInv ==
  ASSUME DepInv, NEW kind \in {"impact", "chain"}, NEW s \in Services, BeginsWalk(kind, s)
  PROVE  DepInv'
<1>1. /\ walk' = kind /\ origin' = s /\ path' = <<s>> /\ visited' = {s}
      /\ answer' = IF kind = "chain" THEN ChainOf(s) ELSE <<>>
      /\ UNCHANGED <<nodes, dependsOn, edits, inDegree>>
  BY DEF BeginsWalk, graphVars
<1>2. path' \in Seq(Services) /\ ToSet(path') = {s}
  BY <1>1 DEF ToSet
<1>3. /\ answer' \in Seq(Services) /\ IsInjective(answer')
      /\ ToSet(answer') = IF kind = "impact" THEN {} ELSE {s} \cap Failing
  BY <1>1 DEF ChainOf, ToSet, IsInjective
<1>4. GraphTypes'
  BY <1>1, <1>2, <1>3 DEF DepInv, GraphTypes
<1>5. DepthFirst'
  BY <1>1, <1>2, <1>3 DEF DepthFirst, Collected
<1> QED BY <1>1, <1>4, <1>5 DEF DepInv, WalkAtRest, Sorted

LEMMA DescendsKeepsInv ==
  ASSUME DepInv, NEW s \in Services, Descends(s)
  PROVE  DepInv'
<1> DEFINE hits == IF walk = "impact" THEN <<s>> ELSE ChainOf(s)
<1>1. /\ walk \in {"impact", "chain"} /\ path # <<>>
      /\ s \in Onwards(Last(path)) /\ s \notin visited
      /\ path' = Append(path, s) /\ visited' = visited \cup {s}
      /\ answer' = answer \o hits
      /\ UNCHANGED <<nodes, dependsOn, edits, walk, origin, inDegree>>
  BY DEF Descends, graphVars
<1>2. GraphTypes /\ DepthFirst
  BY DEF DepInv
<1>3. path \in Seq(Services) /\ answer \in Seq(Services) /\ visited \subseteq Services
  BY <1>2 DEF GraphTypes
<1>4. /\ origin \in visited /\ ToSet(path) \subseteq visited
      /\ \A v \in visited : v \in ToSet(path) \/ Onwards(v) \subseteq visited
      /\ \A v \in visited : v = origin \/ Concerns(v)
      /\ IsInjective(answer) /\ ToSet(answer) = Collected
  BY <1>1, <1>2 DEF DepthFirst
<1>5. path' \in Seq(Services) /\ ToSet(path') = ToSet(path) \cup {s}
  BY <1>1, <1>3, AppendFacts
<1>6. /\ hits \in Seq(Services) /\ IsInjective(hits)
      /\ ToSet(hits) = IF walk = "impact" THEN {s} ELSE {s} \cap Failing
  BY <1>1 DEF ChainOf, ToSet, IsInjective
<1>7. ToSet(answer) \subseteq visited
  BY <1>4 DEF Collected
<1> HIDE DEF hits
<1>8. /\ answer' \in Seq(Services) /\ IsInjective(answer')
      /\ ToSet(answer') = ToSet(answer) \cup ToSet(hits)
  <2>1. ToSet(answer) \cap ToSet(hits) = {}
    BY <1>1, <1>6, <1>7
  <2> QED BY <1>1, <1>3, <1>4, <1>6, <2>1, ConcatFacts
<1>9. ToSet(answer') = Collected'
  BY <1>1, <1>4, <1>6, <1>8 DEF Collected
<1>10. Onwards(s)' = Onwards(s) /\ \A v : Onwards(v)' = Onwards(v)
  BY <1>1 DEF Onwards
<1>11. \A v : Concerns(v)' <=> Concerns(v)
  BY <1>1 DEF Concerns, Reaches
<1>12. Concerns(s)
  <2>1. Last(path) \in visited
    BY <1>1, <1>3, <1>4, FrontFacts
  <2>2. Last(path) = origin \/ Concerns(Last(path))
    BY <1>4, <2>1
  <2>3. CASE walk = "impact"
    <3>1. <<s, Last(path)>> \in dependsOn
      BY <1>1, <2>3, OnwardsFacts
    <3> QED BY <2>2, <2>3, <3>1, EdgeReaches, ReachesFrom DEF Concerns
  <2>4. CASE walk = "chain"
    <3>1. <<Last(path), s>> \in dependsOn
      BY <1>1, <2>4, OnwardsFacts
    <3> QED BY <2>2, <2>4, <3>1, EdgeReaches, ReachesFurther DEF Concerns
  <2> QED BY <1>1, <2>3, <2>4
<1>13. DepthFirst'
  <2>1. \A v \in visited' : v \in ToSet(path') \/ Onwards(v)' \subseteq visited'
    BY <1>1, <1>4, <1>5, <1>10
  <2>2. \A v \in visited' : v = origin' \/ Concerns(v)'
    BY <1>1, <1>4, <1>11, <1>12
  <2> QED BY <1>1, <1>4, <1>5, <1>8, <1>9, <2>1, <2>2 DEF DepthFirst
<1>14. GraphTypes'
  BY <1>1, <1>2, <1>5, <1>8 DEF GraphTypes
<1> QED BY <1>1, <1>13, <1>14 DEF DepInv, WalkAtRest, Sorted

LEMMA AscendsKeepsInv == ASSUME DepInv, Ascends PROVE DepInv'
<1>1. /\ walk \in {"impact", "chain"} /\ path # <<>>
      /\ Onwards(Last(path)) \subseteq visited
      /\ path' = Front(path)
      /\ UNCHANGED <<nodes, dependsOn, edits, walk, origin, visited, answer, inDegree>>
  BY DEF Ascends, graphVars
<1>2. GraphTypes /\ DepthFirst
  BY DEF DepInv
<1>3. path' \in Seq(Services) /\ ToSet(path) = ToSet(path') \cup {Last(path)}
  BY <1>1, <1>2, FrontFacts DEF GraphTypes
<1>4. \A v : Onwards(v)' = Onwards(v)
  BY <1>1 DEF Onwards
<1>5. \A v : Concerns(v)' <=> Concerns(v)
  BY <1>1 DEF Concerns, Reaches
<1>6. DepthFirst'
  <2>1. /\ origin \in visited /\ ToSet(path) \subseteq visited
        /\ \A v \in visited : v \in ToSet(path) \/ Onwards(v) \subseteq visited
        /\ \A v \in visited : v = origin \/ Concerns(v)
        /\ IsInjective(answer) /\ ToSet(answer) = Collected
    BY <1>1, <1>2 DEF DepthFirst
  <2>2. \A v \in visited' : v \in ToSet(path') \/ Onwards(v)' \subseteq visited'
    BY <1>1, <1>3, <1>4, <2>1
  <2>3. \A v \in visited' : v = origin' \/ Concerns(v)'
    BY <1>1, <1>5, <2>1
  <2>4. Collected' = Collected
    BY <1>1 DEF Collected
  <2> QED BY <1>1, <1>3, <2>1, <2>2, <2>3, <2>4 DEF DepthFirst
<1>7. GraphTypes'
  BY <1>1, <1>2, <1>3 DEF GraphTypes
<1> QED BY <1>1, <1>6, <1>7 DEF DepInv, WalkAtRest, Sorted

-----------------------------------------------------------------------------
(* The nodes can be counted.                                               *)
LEMMA SubsetsCount ==
  ASSUME DepInv
  PROVE  \A S \in SUBSET nodes : IsFiniteSet(S) /\ Cardinality(S) \in Nat
                                 /\ (Cardinality(S) = 0 <=> S = {})
<1>1. IsFiniteSet(nodes)
  BY GraphAssumption, FS_Subset DEF DepInv, GraphTypes
<1> QED BY <1>1, FS_Subset, FS_CardinalityType, FS_EmptySet

LEMMA BeginsSortKeepsInv == ASSUME DepInv, BeginsSort PROVE DepInv'
<1> DEFINE free == {s \in nodes : DegreeOf(s) = 0}
<1>1. /\ walk = "none" /\ walk' = "sort" /\ answer' = <<>> /\ path' \in SetToSeqs(free)
      /\ inDegree' = [s \in Services |-> DegreeOf(s)]
      /\ UNCHANGED <<nodes, dependsOn, edits, origin, visited>>
  BY DEF BeginsSort, graphVars
<1>2. GraphTypes /\ \A S \in SUBSET nodes : IsFiniteSet(S) /\ Cardinality(S) \in Nat
  BY SubsetsCount DEF DepInv
<1>3. nodes \subseteq Services
  BY <1>2 DEF GraphTypes
<1>4. path' \in Seq(free) /\ IsInjective(path') /\ ToSet(path') = free
  <2>1. IsFiniteSet(free)
    BY <1>2
  <2> QED BY <1>1, <2>1, ListingFacts
<1>5. ToSet(answer') = {} /\ IsInjective(answer') /\ Len(answer') = 0
  BY <1>1 DEF ToSet, IsInjective
<1>6. \A s \in Services : inDegree'[s] = DegreeOf(s) /\ DegreeOf(s) \in Nat
  BY <1>1, <1>2 DEF DegreeOf
<1>7. \A s \in Services : DegreeOf(s) = Cardinality(StillNeed(s))'
  BY <1>1, <1>5 DEF DegreeOf, StillNeed
<1>8. GraphTypes'
  <2>1. path' \in Seq(Services)
    BY <1>3, <1>4
  <2>2. inDegree' \in [Services -> Nat]
    BY <1>1, <1>6
  <2> QED BY <1>1, <1>2, <2>1, <2>2 DEF GraphTypes
<1>9. Sorted'
  <2>1. \A b \in nodes : b \in free <=> inDegree'[b] = 0
    BY <1>3, <1>6
  <2> QED BY <1>1, <1>4, <1>5, <1>6, <1>7, <2>1 DEF Sorted
<1> QED BY <1>1, <1>8, <1>9 DEF DepInv, WalkAtRest, DepthFirst

LEMMA EndsWalkKeepsInv == ASSUME DepInv, EndsWalk PROVE DepInv'
<1>1. /\ path = <<>> /\ walk' = "none" /\ visited' = {} /\ answer' = <<>> /\ path' = path
      /\ inDegree' = NoDegrees /\ UNCHANGED <<nodes, dependsOn, edits>>
  BY DEF EndsWalk, graphVars
<1>2. GraphTypes'
  BY <1>1 DEF DepInv, GraphTypes, NoDegrees
<1> QED BY <1>1, <1>2 DEF DepInv, WalkAtRest, DepthFirst, Sorted

LEMMA TakesNextKeepsInv == ASSUME DepInv, TakesNext PROVE DepInv'
<1> DEFINE x == Head(path)
           freed == {b \in nodes : <<x, b>> \in dependsOn /\ inDegree[b] = 1}
           n == Len(answer)
<1>1. /\ walk = "sort" /\ path # <<>>
      /\ answer' = Append(answer, x)
      /\ \E order \in SetToSeqs(freed) : path' = Tail(path) \o order
      /\ inDegree' = [b \in Services |-> IF <<x, b>> \in dependsOn THEN inDegree[b] - 1
                                         ELSE inDegree[b]]
      /\ UNCHANGED <<nodes, dependsOn, edits, walk, origin, visited>>
  BY DEF TakesNext, graphVars
<1>2. /\ nodes \subseteq Services /\ dependsOn \subseteq nodes \X nodes
      /\ path \in Seq(Services) /\ answer \in Seq(Services)
      /\ inDegree \in [Services -> Nat] /\ visited \subseteq Services
  BY DEF DepInv, GraphTypes
<1>3. /\ IsInjective(answer) /\ IsInjective(path)
      /\ ToSet(answer) \cap ToSet(path) = {}
      /\ ToSet(answer) \cup ToSet(path) \subseteq nodes
      /\ \A b \in Services : inDegree[b] = Cardinality(StillNeed(b))
      /\ \A b \in nodes : b \in ToSet(answer) \cup ToSet(path) <=> inDegree[b] = 0
      /\ \A i, j \in 1 .. n : <<answer[i], answer[j]>> \in dependsOn => i < j
  BY <1>1 DEF DepInv, Sorted
<1>4. \A S \in SUBSET nodes : IsFiniteSet(S) /\ Cardinality(S) \in Nat
                               /\ (Cardinality(S) = 0 <=> S = {})
  BY SubsetsCount
<1>5. /\ x \in Services /\ x \in ToSet(path) /\ Tail(path) \in Seq(Services)
      /\ ToSet(path) = ToSet(Tail(path)) \cup {x}
      /\ IsInjective(Tail(path)) /\ x \notin ToSet(Tail(path))
  BY <1>1, <1>2, <1>3, TailFacts
<1>6. x \in nodes /\ x \notin ToSet(answer)
  BY <1>3, <1>5
<1> HIDE DEF x
<1>7. PICK order \in SetToSeqs(freed) : path' = Tail(path) \o order
  BY <1>1
<1>8. order \in Seq(freed) /\ IsInjective(order) /\ ToSet(order) = freed
  <2>1. IsFiniteSet(freed)
    BY <1>4
  <2> QED BY <1>7, <2>1, ListingFacts
<1>9. /\ answer' \in Seq(Services) /\ IsInjective(answer')
      /\ ToSet(answer') = ToSet(answer) \cup {x}
  BY <1>1, <1>2, <1>3, <1>5, <1>6, AppendFacts
(* What is freed was neither taken nor queued.                             *)
<1>10. \A b \in freed : b \notin ToSet(answer) \cup ToSet(path)
  BY <1>3
<1>11. /\ path' \in Seq(Services) /\ IsInjective(path')
       /\ ToSet(path') = ToSet(Tail(path)) \cup freed
  <2>1. order \in Seq(Services)
    <3>1. freed \subseteq Services
      BY <1>2
    <3> HIDE DEF freed
    <3> QED BY <1>8, <3>1
  <2>2. ToSet(Tail(path)) \cap ToSet(order) = {}
    BY <1>5, <1>8, <1>10
  <2> HIDE DEF freed
  <2> DEFINE tail == Tail(path)
  <2>3. tail \in Seq(Services) /\ IsInjective(tail) /\ ToSet(tail) \cap ToSet(order) = {}
    BY <1>5, <2>2
  <2> HIDE DEF tail
  <2>4. /\ tail \o order \in Seq(Services)
        /\ ToSet(tail \o order) = ToSet(tail) \cup ToSet(order)
        /\ IsInjective(tail \o order)
    BY <1>8, <2>1, <2>3, ConcatFacts
  <2> QED BY <1>7, <1>8, <2>4 DEF tail
(* No edge leads from the node taken to itself or to a node taken before.  *)
<1>12. \A b \in ToSet(answer) \cup ToSet(path) : <<x, b>> \notin dependsOn
  <2> SUFFICES ASSUME NEW b \in ToSet(answer) \cup ToSet(path), <<x, b>> \in dependsOn
               PROVE  FALSE
    OBVIOUS
  <2>1. x \in StillNeed(b) /\ StillNeed(b) \in SUBSET nodes
    BY <1>6 DEF StillNeed
  <2>2. Cardinality(StillNeed(b)) = 0
    BY <1>2, <1>3
  <2> QED BY <1>4, <2>1, <2>2
<1>13. ASSUME NEW b \in Services
       PROVE  inDegree'[b] = Cardinality(StillNeed(b)') /\ inDegree'[b] \in Nat
  <2>1. StillNeed(b)' = StillNeed(b) \ {x} /\ StillNeed(b) \in SUBSET nodes
    BY <1>1, <1>9 DEF StillNeed
  <2>2. IsFiniteSet(StillNeed(b)) /\ Cardinality(StillNeed(b)) \in Nat
    BY <1>4, <2>1
  <2>3. Cardinality(StillNeed(b) \ {x})
          = IF x \in StillNeed(b) THEN Cardinality(StillNeed(b)) - 1 ELSE Cardinality(StillNeed(b))
    BY <2>2, FS_RemoveElement
  <2>4. x \in StillNeed(b) <=> <<x, b>> \in dependsOn
    BY <1>6 DEF StillNeed
  <2>5. inDegree'[b] = Cardinality(StillNeed(b)')
    BY <1>1, <1>3, <2>1, <2>3, <2>4
  <2>6. StillNeed(b)' \in SUBSET nodes
    BY <2>1
  <2> QED BY <1>4, <2>5, <2>6
<1>14. \A b \in nodes : b \in ToSet(answer') \cup ToSet(path') <=> inDegree'[b] = 0
  <2> SUFFICES ASSUME NEW b \in nodes
               PROVE  b \in ToSet(answer) \cup ToSet(path) \cup freed <=> inDegree'[b] = 0
    BY <1>5, <1>9, <1>11
  <2>1. b \in Services /\ inDegree[b] \in Nat
    BY <1>2
  <2>2. CASE <<x, b>> \in dependsOn
    <3>1. inDegree'[b] = inDegree[b] - 1 /\ b \notin ToSet(answer) \cup ToSet(path)
      BY <1>1, <1>12, <2>1, <2>2
    <3>2. b \in freed <=> inDegree[b] = 1
      BY <2>2
    <3> QED BY <2>1, <3>1, <3>2
  <2>3. CASE <<x, b>> \notin dependsOn
    <3>1. inDegree'[b] = inDegree[b] /\ b \notin freed
      BY <1>1, <2>1, <2>3
    <3> QED BY <1>3, <3>1
  <2> QED BY <2>2, <2>3
<1>15. \A i, j \in 1 .. Len(answer') : <<answer'[i], answer'[j]>> \in dependsOn => i < j
  <2>1. /\ n \in Nat /\ Len(answer') = n + 1 /\ answer'[n + 1] = x
        /\ \A i \in 1 .. n : answer'[i] = answer[i] /\ answer[i] \in ToSet(answer)
    BY <1>1, <1>2 DEF ToSet
  <2> HIDE DEF n
  <2>2. \A i \in 1 .. n + 1 : i \in 1 .. n \/ i = n + 1
    BY <2>1
  <2> SUFFICES ASSUME NEW i \in 1 .. n + 1, NEW j \in 1 .. n + 1,
                      <<answer'[i], answer'[j]>> \in dependsOn
               PROVE  i < j
    BY <2>1
  <2>3. CASE i \in 1 .. n /\ j \in 1 .. n
    BY <1>3, <2>1, <2>3 DEF n
  <2>4. CASE i \in 1 .. n /\ j = n + 1
    BY <2>1, <2>4
  <2>5. CASE i = n + 1
    BY <1>5, <1>12, <2>1, <2>2, <2>5
  <2> QED BY <2>2, <2>3, <2>4, <2>5
<1>16. GraphTypes'
  <2>1. inDegree' \in [Services -> Nat]
    BY <1>1, <1>13
  <2> QED BY <1>1, <1>2, <1>9, <1>11, <2>1 DEF GraphTypes
<1>17. Sorted'
  <2>1. ToSet(answer') \cap ToSet(path') = {}
    BY <1>3, <1>5, <1>6, <1>9, <1>10, <1>11
  <2>2. ToSet(answer') \cup ToSet(path') \subseteq nodes'
    BY <1>1, <1>3, <1>5, <1>6, <1>9, <1>11
  <2> QED BY <1>1, <1>9, <1>11, <1>13, <1>14, <1>15, <2>1, <2>2 DEF Sorted
<1> QED BY <1>1, <1>16, <1>17 DEF DepInv, WalkAtRest, DepthFirst

LEMMA DepStepKeepsInv == DepInv /\ [DepNext]_depVars => DepInv'
<1> SUFFICES ASSUME DepInv, [DepNext]_depVars PROVE DepInv'
  OBVIOUS
<1>1. ASSUME NEW s \in Services, AddNode(s) \/ Descends(s) PROVE DepInv'
  BY <1>1, GraphStepsKeepInv, DescendsKeepsInv
<1>2. ASSUME NEW a \in Services, NEW b \in Services, AddEdge(a, b) \/ RemoveEdge(a, b)
      PROVE  DepInv'
  BY <1>2, GraphStepsKeepInv
<1>3. ASSUME NEW s \in Services, BeginsWalk("impact", s) \/ BeginsWalk("chain", s)
      PROVE  DepInv'
  BY <1>3, BeginsWalkKeepsInv
<1>4. CASE Ascends \/ BeginsSort \/ TakesNext \/ EndsWalk
  BY <1>4, AscendsKeepsInv, BeginsSortKeepsInv, TakesNextKeepsInv, EndsWalkKeepsInv
<1>5. CASE UNCHANGED depVars
  <2>1. UNCHANGED <<nodes, dependsOn, edits, walk, origin, path, visited, answer, inDegree>>
    BY <1>5 DEF depVars, graphVars, walkVars
  <2> QED BY <2>1 DEF DepInv, GraphTypes, WalkAtRest, DepthFirst, Sorted, Collected, Concerns,
                      Reaches, Onwards, StillNeed
<1> QED BY <1>1, <1>2, <1>3, <1>4, <1>5 DEF DepNext

-----------------------------------------------------------------------------
(* The walks that have come to their end.                                  *)
LEMMA ImpactExact ==
  ASSUME DepInv, walk = "impact", path = <<>>
  PROVE  /\ IsInjective(answer)
         /\ ToSet(answer) = {s \in Services \ {origin} : Reaches(s, origin)}
<1>1. /\ origin \in visited /\ \A s \in visited : Onwards(s) \subseteq visited
      /\ \A s \in visited : s = origin \/ Reaches(s, origin)
      /\ IsInjective(answer) /\ ToSet(answer) = visited \ {origin}
  BY DEF DepInv, DepthFirst, Concerns, Collected, ToSet
<1>2. /\ visited \subseteq Services /\ dependsOn \subseteq nodes \X nodes /\ nodes \subseteq Services
  BY DEF DepInv, GraphTypes
<1>3. ASSUME NEW s \in Services, s \notin visited PROVE ~Reaches(s, origin)
  <2> DEFINE closed == Services \ visited
  <2>1. ASSUME NEW e \in dependsOn, e[1] \in closed \cup {s} PROVE e[2] \in closed
    <3>1. e = <<e[1], e[2]>> /\ e[2] \in Services
      BY <1>2
    <3>2. e[2] \notin visited
      BY <1>1, <1>3, <2>1, <3>1, OnwardsFacts
    <3> QED BY <3>1, <3>2
  <2>2. closed \in SUBSET Services /\ origin \notin closed
    BY <1>1
  <2> HIDE DEF closed
  <2> QED BY <2>1, <2>2 DEF Reaches
<1> QED BY <1>1, <1>2, <1>3

LEMMA ChainExact ==
  ASSUME DepInv, walk = "chain", path = <<>>
  PROVE  /\ IsInjective(answer)
         /\ ToSet(answer) = {s \in Failing : s = origin \/ Reaches(origin, s)}
<1>1. /\ origin \in visited /\ \A s \in visited : Onwards(s) \subseteq visited
      /\ \A s \in visited : s = origin \/ Reaches(origin, s)
      /\ IsInjective(answer) /\ ToSet(answer) = visited \cap Failing
  BY DEF DepInv, DepthFirst, Concerns, Collected, ToSet
<1>2. visited \subseteq Services /\ dependsOn \subseteq nodes \X nodes
  BY DEF DepInv, GraphTypes
<1>3. ASSUME NEW s, Reaches(origin, s) PROVE s \in visited
  <2>1. ASSUME NEW e \in dependsOn, e[1] \in visited \cup {origin} PROVE e[2] \in visited
    <3>1. e = <<e[1], e[2]>>
      BY <1>2
    <3> QED BY <1>1, <2>1, <3>1, OnwardsFacts
  <2> QED BY <1>2, <1>3, <2>1 DEF Reaches
<1> QED BY <1>1, <1>3

(* Nodes each of which depends on another of them, or on itself, lie on a  *)
(* cycle or depend on one that does: of the fewest that reach one of them, *)
(* a predecessor would have fewer still.                                   *)
LEMMA NoStartMeansCycle ==
  ASSUME DepInv, NEW rest \in SUBSET nodes, rest # {},
         \A b \in rest : \E a \in rest : <<a, b>> \in dependsOn
  PROVE  \E s \in rest : Reaches(s, s)
<1> SUFFICES ASSUME \A s \in rest : ~Reaches(s, s) PROVE FALSE
  OBVIOUS
<1> DEFINE Sources(b) == {a \in rest : Reaches(a, b)}
           counts == {Cardinality(Sources(b)) : b \in rest}
<1>1. \A b : IsFiniteSet(Sources(b)) /\ Cardinality(Sources(b)) \in Nat
  BY SubsetsCount
<1>2. counts \in SUBSET Nat /\ counts # {}
  BY <1>1
<1>3. PICK least \in counts : \A m \in counts : least <= m
  <2> HIDE DEF counts
  <2> QED BY <1>2, LeastNumber
<1>4. PICK b \in rest : least = Cardinality(Sources(b))
  BY <1>3
<1>5. PICK a \in rest : <<a, b>> \in dependsOn
  OBVIOUS
<1>6. Sources(a) \subseteq Sources(b) /\ a \in Sources(b) /\ a \notin Sources(a)
  BY <1>5, EdgeReaches, ReachesFurther
<1>7. Cardinality(Sources(a)) < Cardinality(Sources(b))
  <2>1. Sources(a) \in SUBSET Sources(b) /\ Sources(a) # Sources(b)
    BY <1>6
  <2>2. Cardinality(Sources(a)) <= Cardinality(Sources(b))
        /\ Cardinality(Sources(a)) # Cardinality(Sources(b))
    <3> HIDE DEF Sources
    <3> QED BY <1>1, <2>1, FS_Subset
  <2> HIDE DEF Sources
  <2> QED BY <1>1, <2>2
<1>8. least <= Cardinality(Sources(a))
  BY <1>3
<1> HIDE DEF Sources
<1> QED BY <1>1, <1>4, <1>7, <1>8

LEMMA SortExact ==
  ASSUME DepInv, walk = "sort", path = <<>>
  PROVE  /\ IsInjective(answer)
         /\ (Len(answer) = Cardinality(nodes)) <=> (\A s \in Services : ~Reaches(s, s))
         /\ \A i, j \in 1 .. Len(answer) : <<answer[i], answer[j]>> \in dependsOn => i < j
<1> DEFINE done == ToSet(answer)
           n == Len(answer)
<1>1. /\ nodes \subseteq Services /\ dependsOn \subseteq nodes \X nodes
      /\ answer \in Seq(Services) /\ inDegree \in [Services -> Nat]
  BY DEF DepInv, GraphTypes
<1>2. /\ IsInjective(answer) /\ done \subseteq nodes
      /\ \A b \in Services : inDegree[b] = Cardinality(StillNeed(b))
      /\ \A b \in nodes : b \in done <=> inDegree[b] = 0
      /\ \A i, j \in 1 .. n : <<answer[i], answer[j]>> \in dependsOn => i < j
  <2>1. ToSet(path) = {}
    BY DEF ToSet
  <2> QED BY <2>1 DEF DepInv, Sorted
<1>3. /\ n \in Nat /\ DOMAIN answer = 1 .. n
      /\ done = {answer[i] : i \in 1 .. n}
  <2>1. n \in Nat /\ DOMAIN answer = 1 .. n
    BY <1>1
  <2> QED BY <2>1 DEF ToSet
<1>4. n = Cardinality(nodes) <=> done = nodes
  <2>1. IsFiniteSet(nodes)
    BY SubsetsCount
  <2>2. Cardinality(done) = n
    BY <1>1, <1>2, ListCardinality
  <2> HIDE DEF done
  <2> QED BY <1>2, <2>1, <2>2, FS_Subset
<1>5. ASSUME done = nodes, NEW s \in Services PROVE ~Reaches(s, s)
  <2>1. CASE s \notin nodes
    <3>1. \A e \in dependsOn : e[1] \in {} \cup {s} => e[2] \in {}
      BY <1>1, <2>1
    <3> QED BY <3>1 DEF Reaches
  <2>2. CASE s \in nodes
    <3>1. PICK i \in 1 .. n : s = answer[i]
      BY <1>3, <1>5, <2>2
    <3> DEFINE closed == {answer[j] : j \in i + 1 .. n}
    <3>2. ASSUME NEW e \in dependsOn, e[1] \in closed \cup {s} PROVE e[2] \in closed
      <4>1. PICK j \in 1 .. n : e[1] = answer[j] /\ j >= i
        BY <1>3, <3>1, <3>2
      <4>2. e = <<e[1], e[2]>> /\ e[2] \in nodes
        BY <1>1
      <4>3. PICK k \in 1 .. n : e[2] = answer[k]
        BY <1>3, <1>5, <4>2
      <4>4. j < k
        BY <1>2, <4>1, <4>2, <4>3
      <4>5. k \in i + 1 .. n
        BY <1>3, <4>1, <4>4
      <4> QED BY <4>3, <4>5
    <3>3. s \notin closed
      BY <1>2, <1>3, <3>1 DEF IsInjective
    <3>4. closed \in SUBSET Services
      <4>1. \A j \in i + 1 .. n : j \in 1 .. n
        BY <1>3
      <4> QED BY <1>1, <1>3, <4>1
    <3> HIDE DEF closed
    <3> QED BY <3>2, <3>3, <3>4 DEF Reaches
  <2> QED BY <2>1, <2>2
<1>6. ASSUME done # nodes PROVE \E s \in Services : Reaches(s, s)
  <2> DEFINE rest == nodes \ done
  <2>1. rest \in SUBSET nodes /\ rest # {}
    BY <1>2, <1>6
  <2>2. ASSUME NEW b \in rest PROVE \E a \in rest : <<a, b>> \in dependsOn
    <3>1. StillNeed(b) \in SUBSET nodes /\ Cardinality(StillNeed(b)) # 0
      BY <1>1, <1>2 DEF StillNeed
    <3>2. StillNeed(b) # {}
      BY <3>1, SubsetsCount
    <3> QED BY <3>2 DEF StillNeed
  <2> HIDE DEF rest
  <2>3. \E s \in rest : Reaches(s, s)
    BY <2>1, <2>2, NoStartMeansCycle
  <2> QED BY <1>1, <2>1, <2>3
<1> QED BY <1>2, <1>4, <1>5, <1>6

(* Whatever order the maps are ranged in, and whatever cycles there are, a *)
(* finished walk has the affected services, the failing services the       *)
(* origin rests on, or all nodes in an order if and only if there is no    *)
(* cycle (graph.go 61-195).                                                *)
THEOREM WalksExact == DepSpec => []WalksAreExact
<1>1. DepInv => WalksAreExact
  BY ImpactExact, ChainExact, SortExact DEF WalksAreExact, DepInv, GraphTypes, DepthFirst
<1> QED BY <1>1, DepInitInv, DepStepKeepsInv, PTL DEF DepSpec

-----------------------------------------------------------------------------
(* The anomaly detector.                                                   *)

Signal == Readings \cup {0}
Stages == {"idle", "write", "read", "advance", "wrap", "length", "values", "judge"}
ObserverStates == [at : Stages, v : Signal, n : 0 .. WindowSize]

AnoTypes ==
  /\ ring \in [Slots -> Signal] /\ pos \in Slots /\ full \in BOOLEAN
  /\ observer \in [Observers -> ObserverStates]
  /\ detected \in Seq(Signal) /\ Len(detected) <= MaxDetected
  /\ added \in Seq(Readings)
  /\ overlapped \in BOOLEAN /\ outOfRange \in BOOLEAN

(* The calls whose value is in the history but not yet counted by pos, and *)
(* how often pos has been advanced.                                        *)
Writing  == {o \in Observers : observer[o].at \in {"write", "read", "advance"}}
Advances == Len(added) - Cardinality(Writing)

(* Calls that race may take pos back, but never beyond what was advanced.  *)
SlotsCounted ==
  /\ Advances \in Nat
  /\ pos <= Advances
  /\ full => WindowSize <= Advances
  /\ pos = 0 /\ 1 <= Advances => WindowSize <= Advances
  /\ \A o \in Observers :
       /\ observer[o].at = "advance" => observer[o].n \in Slots /\ observer[o].n <= Advances
       /\ observer[o].at = "wrap" => 1 <= Advances

(* Nothing is looked at before there is enough.                            *)
EnoughToJudge ==
  /\ \A o \in Observers :
       observer[o].at \in {"values", "judge"} => MinDataPoints <= Len(added)
  /\ verdict # NoVerdict => MinDataPoints <= Len(added)

JudgedByRule ==
  /\ verdict.values \in Seq(Signal) /\ verdict.v \in Signal
  /\ verdict.anomaly <=> Deviates(verdict.v, verdict.values)

(* The slot d places before p.                                             *)
Back(p, d) == IF d <= p THEN p - d ELSE p - d + WindowSize

Position(n) == (n < WindowSize => pos = n) /\ (n = WindowSize => pos = 0)

Holds(n) == \A d \in 1 .. WindowSize : d <= n => ring[Back(pos, d)] = added[n + 1 - d]

(* The window after n values: not yet full, or the last of them.           *)
Settled(n) == Position(n) /\ (full <=> n >= WindowSize) /\ Holds(n)

(* The n-th value is written, but pos is not advanced.                     *)
Written(n) ==
  /\ Position(n - 1) /\ (full <=> n - 1 >= WindowSize)
  /\ ring[pos] = added[n]
  /\ \A d \in 1 .. WindowSize - 1 : d <= n - 1 => ring[Back(pos, d)] = added[n - d]

Alone(o) ==
  LET n == Len(added)
      e == observer[o]
  IN /\ e.at \in {"write", "read", "advance", "wrap"} => n >= 1
     /\ e.at = "write" => Settled(n - 1) /\ e.v = added[n]
     /\ e.at \in {"read", "advance"} => Written(n)
     /\ e.at = "advance" => e.n = pos
     /\ e.at = "wrap" => Position(n) /\ (full <=> n - 1 >= WindowSize) /\ Holds(n)
     /\ e.at \in {"length", "values", "judge"} => Settled(n)
     /\ e.at = "judge" => e.n = WindowLen

OneByOne ==
  ~overlapped =>
    /\ ~outOfRange
    /\ \A o, p \in Observers : observer[o].at # "idle" /\ observer[p].at # "idle" => o = p
    /\ \A o \in Observers : Alone(o)
    /\ (\A o \in Observers : observer[o].at = "idle") => Settled(Len(added))

AnoInv == AnoTypes /\ SlotsCounted /\ EnoughToJudge /\ JudgedByRule /\ OneByOne

(* A step of one caller of Analyze.                                        *)
AnoStep(o) ==
  \/ \E v \in Readings : AnalyzeSignal(o, v)
  \/ AddWrites(o) \/ AddReadsPos(o) \/ AddAdvances(o) \/ AddWraps(o)
  \/ ChecksLength(o) \/ ValuesReadsLength(o) \/ Judges(o)

(* The ring: a place taken modulo its size.                                *)
LEMMA NextSlot ==
  ASSUME NEW x \in 0 .. WindowSize + WindowSize - 1
  PROVE  /\ x % WindowSize = IF x < WindowSize THEN x ELSE x - WindowSize
         /\ x % WindowSize \in Slots
<1>1. WindowSize \in Nat \ {0}
  BY DetectorAssumption
<1>2. CASE x < WindowSize
  BY <1>1, <1>2 DEF Slots
<1>3. CASE ~(x < WindowSize)
  <2>1. x \in Nat /\ WindowSize <= x /\ x < 2 * WindowSize
    BY <1>1, <1>3
  <2>2. x % WindowSize = x - WindowSize
    BY <1>1, <2>1
  <2> QED BY <1>1, <1>3, <2>1, <2>2 DEF Slots
<1> QED BY <1>2, <1>3

LEMMA SlotFacts ==
  /\ WindowSize \in Nat \ {0}
  /\ \A s \in Slots : s \in Nat /\ s \in 0 .. WindowSize /\ s < WindowSize
  /\ 0 \in Slots
BY DetectorAssumption DEF Slots

LEMMA WindowLenType == AnoTypes => WindowLen \in 0 .. WindowSize
BY SlotFacts DEF AnoTypes, WindowLen

(* A caller at work moves, the others stay.                                *)
LEMMA OneMoves ==
  ASSUME AnoTypes, NEW o \in Observers, AnoStep(o)
  PROVE  /\ observer' \in [Observers -> ObserverStates]
         /\ \A p \in Observers : p # o => observer'[p] = observer[p]
<1>1. observer \in [Observers -> ObserverStates]
  BY DEF AnoTypes
<1> DEFINE Moves(e) == observer' = [observer EXCEPT ![o] = e]
<1>2. ASSUME NEW e \in ObserverStates, Moves(e)
      PROVE  /\ observer' \in [Observers -> ObserverStates]
             /\ \A p \in Observers : p # o => observer'[p] = observer[p]
  BY <1>1, <1>2
<1> DEFINE c == observer[o]
<1>3. c \in ObserverStates
  BY <1>1
<1>4. ASSUME NEW at \in Stages, ObserverTo(o, at)
      PROVE  \E e \in ObserverStates : Moves(e)
  <2> DEFINE e == [c EXCEPT !.at = at]
  <2>1. e \in ObserverStates
    BY <1>3 DEF ObserverStates
  <2>2. Moves(e)
    BY <1>4 DEF ObserverTo
  <2> HIDE DEF e, Moves
  <2> QED BY <2>1, <2>2
<1>5. ASSUME NEW at \in Stages, NEW n \in 0 .. WindowSize,
             observer' = [observer EXCEPT ![o].at = at, ![o].n = n]
      PROVE  \E e \in ObserverStates : Moves(e)
  <2> DEFINE e == [c EXCEPT !.at = at, !.n = n]
  <2>1. e \in ObserverStates
    BY <1>3 DEF ObserverStates
  <2>2. Moves(e)
    BY <1>5
  <2> HIDE DEF e, Moves
  <2> QED BY <2>1, <2>2
<1>6. AtRest \in ObserverStates
  BY SlotFacts DEF AtRest, ObserverStates, Stages, Signal
<1>7. \E e \in ObserverStates : Moves(e)
  <2>1. ASSUME NEW v \in Readings, AnalyzeSignal(o, v) PROVE \E e \in ObserverStates : Moves(e)
    <3> DEFINE e == [at |-> "write", v |-> v, n |-> 0]
    <3>1. e \in ObserverStates
      BY SlotFacts DEF ObserverStates, Stages, Signal
    <3>2. Moves(e)
      BY <2>1 DEF AnalyzeSignal
    <3> HIDE DEF e, Moves
    <3> QED BY <3>1, <3>2
  <2>2. CASE AddWrites(o) \/ AddAdvances(o) \/ AddWraps(o)
    <3> HIDE DEF Moves
    <3> QED BY <1>4, <2>2 DEF AddWrites, AddAdvances, AddWraps, Stages
  <2>3. CASE AddReadsPos(o)
    <3> HIDE DEF Moves
    <3>1. pos \in 0 .. WindowSize
      BY SlotFacts DEF AnoTypes
    <3> QED BY <1>5, <2>3, <3>1 DEF AddReadsPos, Stages
  <2>4. CASE ChecksLength(o)
    <3>1. CASE observer' = [observer EXCEPT ![o] = AtRest]
      BY <1>6, <3>1
    <3>2. CASE observer' = [observer EXCEPT ![o].at = "values"]
      <4> HIDE DEF Moves
      <4> QED BY <1>4, <3>2 DEF ObserverTo, Stages
    <3> QED BY <2>4, <3>1, <3>2 DEF ChecksLength
  <2>5. CASE ValuesReadsLength(o)
    <3> HIDE DEF Moves
    <3> QED BY <1>5, <2>5, WindowLenType DEF ValuesReadsLength, Stages
  <2>6. CASE Judges(o)
    BY <1>6, <2>6 DEF Judges
  <2> HIDE DEF Moves
  <2> QED BY <2>1, <2>2, <2>3, <2>4, <2>5, <2>6 DEF AnoStep
<1> HIDE DEF Moves
<1> QED BY <1>2, <1>7

(* The anomalies kept fit.                                                 *)
LEMMA KeepFacts ==
  ASSUME AnoTypes, NEW v \in Signal
  PROVE  Keep(v) \in Seq(Signal) /\ Len(Keep(v)) <= MaxDetected
<1> DEFINE all == Append(detected, v)
<1>1. all \in Seq(Signal) /\ Len(all) \in Nat /\ MaxDetected \in Nat
  BY DetectorAssumption DEF AnoTypes
<1>2. Keep(v) = IF Len(all) > MaxDetected
                THEN SubSeq(all, Len(all) - MaxDetected + 1, Len(all)) ELSE all
  BY DEF Keep
<1> HIDE DEF all, Signal
<1> QED BY <1>1, <1>2

LEMMA TypesKept == ASSUME AnoTypes, NEW o \in Observers, AnoStep(o) PROVE AnoTypes'
<1>1. observer' \in [Observers -> ObserverStates] /\ observer[o] \in ObserverStates
  BY OneMoves DEF AnoTypes
<1>2. ASSUME NEW v \in Readings, AnalyzeSignal(o, v) PROVE AnoTypes'
  BY <1>1, <1>2 DEF AnalyzeSignal, AnoTypes, windowVars
<1>3. CASE AddWrites(o)
  <2>1. observer[o].v \in Signal
    BY <1>1 DEF ObserverStates
  <2> QED BY <1>1, <1>3, <2>1 DEF AddWrites, AnoTypes, anoHistory
<1>4. CASE AddAdvances(o)
  <2>1. observer[o].n \in 0 .. WindowSize
    BY <1>1 DEF ObserverStates
  <2>2. CASE observer[o].n + 1 <= WindowSize + WindowSize - 1
    <3>1. pos' \in Slots
      BY <1>4, <2>1, <2>2, SlotFacts, NextSlot DEF AddAdvances
    <3> QED BY <1>1, <1>4, <3>1 DEF AddAdvances, AnoTypes, anoHistory
  <2>3. CASE ~(observer[o].n + 1 <= WindowSize + WindowSize - 1)
    <3>1. WindowSize = 1 /\ observer[o].n + 1 \in Nat
      BY <2>1, <2>3, SlotFacts
    <3>2. pos' \in Slots
      BY <1>4, <3>1 DEF AddAdvances, Slots
    <3> QED BY <1>1, <1>4, <3>2 DEF AddAdvances, AnoTypes, anoHistory
  <2> QED BY <2>2, <2>3
<1>5. CASE AddReadsPos(o) \/ AddWraps(o) \/ ChecksLength(o) \/ ValuesReadsLength(o)
  BY <1>1, <1>5 DEF AddReadsPos, AddWraps, ChecksLength, ValuesReadsLength, AnoTypes,
                    windowVars, anoHistory
<1>6. CASE Judges(o)
  <2>1. observer[o].v \in Signal
    BY <1>1 DEF ObserverStates
  <2>2. detected' \in Seq(Signal) /\ Len(detected') <= MaxDetected
    BY <1>6, <2>1, KeepFacts DEF Judges, AnoTypes
  <2>3. outOfRange' \in BOOLEAN
    BY <1>6 DEF Judges, AnoTypes, SliceFails
  <2>4. UNCHANGED <<ring, pos, full, added, overlapped>>
    BY <1>6 DEF Judges, windowVars, anoHistory
  <2> QED BY <1>1, <2>2, <2>3, <2>4 DEF AnoTypes
<1> QED BY <1>2, <1>3, <1>4, <1>5, <1>6 DEF AnoStep

(* A caller that writes has its value between these.                       *)
WritingStages == {"write", "read", "advance"}

(* Who writes after a step.                                                *)
LEMMA WritingFacts ==
  ASSUME AnoTypes, NEW o \in Observers, AnoStep(o)
  PROVE  /\ Cardinality(Writing) \in Nat /\ Len(added) \in Nat
         /\ Writing' = IF observer'[o].at \in WritingStages THEN Writing \cup {o}
                       ELSE Writing \ {o}
         /\ o \in Writing <=> observer[o].at \in WritingStages
         /\ o \notin Writing => /\ Cardinality(Writing \cup {o}) = Cardinality(Writing) + 1
                                /\ Writing \ {o} = Writing
         /\ o \in Writing => /\ Cardinality(Writing \ {o}) = Cardinality(Writing) - 1
                             /\ Writing \cup {o} = Writing
<1>1. IsFiniteSet(Writing)
  BY DetectorAssumption, FS_Subset DEF Writing
<1>2. Writing' = IF observer'[o].at \in WritingStages THEN Writing \cup {o} ELSE Writing \ {o}
  BY OneMoves DEF Writing, WritingStages
<1>3. o \in Writing <=> observer[o].at \in WritingStages
  BY DEF Writing, WritingStages
<1>4. Cardinality(Writing) \in Nat /\ Len(added) \in Nat
  BY <1>1, FS_CardinalityType DEF AnoTypes
<1>5. o \notin Writing => Cardinality(Writing \cup {o}) = Cardinality(Writing) + 1
  BY <1>1, FS_AddElement
<1>6. o \in Writing => Cardinality(Writing \ {o}) = Cardinality(Writing) - 1
  BY <1>1, FS_RemoveElement
<1> QED BY <1>2, <1>3, <1>4, <1>5, <1>6

(* Only a call that begins brings a value, and only an advance counts it.  *)
LEMMA AdvancesFacts ==
  ASSUME AnoTypes, NEW o \in Observers, AnoStep(o)
  PROVE  /\ Advances \in Int
         /\ Advances' = IF AddAdvances(o) THEN Advances + 1 ELSE Advances
         /\ Len(added) \in Nat /\ Len(added') \in Nat /\ Len(added) <= Len(added')
         /\ observer'[o].at \in Stages
<1>1. observer \in [Observers -> ObserverStates] /\ added \in Seq(Readings)
  BY DEF AnoTypes
<1>2. ASSUME NEW v \in Readings, AnalyzeSignal(o, v)
      PROVE  /\ observer[o].at = "idle" /\ observer'[o].at = "write"
             /\ Len(added') = Len(added) + 1
  BY <1>1, <1>2 DEF AnalyzeSignal
<1>3. AddWrites(o) => /\ observer[o].at = "write" /\ observer'[o].at = "read" /\ added' = added
  BY <1>1 DEF AddWrites, ObserverTo, anoHistory, ObserverStates
<1>4. AddReadsPos(o) => /\ observer[o].at = "read" /\ observer'[o].at = "advance" /\ added' = added
  BY <1>1 DEF AddReadsPos, anoHistory, ObserverStates
<1>5. AddAdvances(o) => /\ observer[o].at = "advance" /\ observer'[o].at = "wrap" /\ added' = added
  BY <1>1 DEF AddAdvances, ObserverTo, anoHistory, ObserverStates
<1>6. AddWraps(o) => /\ observer[o].at = "wrap" /\ observer'[o].at = "length" /\ added' = added
  BY <1>1 DEF AddWraps, ObserverTo, anoHistory, ObserverStates
<1>7. ChecksLength(o) => /\ observer[o].at = "length" /\ observer'[o].at \in {"idle", "values"}
                         /\ added' = added
  BY <1>1 DEF ChecksLength, AtRest, anoHistory, ObserverStates
<1>8. ValuesReadsLength(o) =>
        /\ observer[o].at = "values" /\ observer'[o].at = "judge" /\ added' = added
  BY <1>1 DEF ValuesReadsLength, anoHistory, ObserverStates
<1>9. Judges(o) => /\ observer[o].at = "judge" /\ observer'[o].at = "idle" /\ added' = added
  BY <1>1 DEF Judges, AtRest, anoHistory
<1> DEFINE m == Cardinality(Writing)
           n == Len(added)
<1>10. /\ m \in Nat /\ n \in Nat
       /\ observer'[o].at \in WritingStages /\ observer[o].at \notin WritingStages
            => Cardinality(Writing)' = m + 1
       /\ observer'[o].at \notin WritingStages /\ observer[o].at \in WritingStages
            => Cardinality(Writing)' = m - 1
       /\ (observer'[o].at \in WritingStages <=> observer[o].at \in WritingStages)
            => Cardinality(Writing)' = m
  BY WritingFacts
<1> HIDE DEF m, n
<1>11. Advances = n - m /\ Advances' = Len(added') - Cardinality(Writing)'
  BY DEF Advances, m, n
<1>12. observer'[o].at \in Stages
  BY OneMoves DEF ObserverStates
<1>13. CASE \E v \in Readings : AnalyzeSignal(o, v)
  <2>1. ~AddAdvances(o)
    BY <1>2, <1>5, <1>13
  <2> QED BY <1>2, <1>10, <1>11, <1>12, <1>13, <2>1 DEF WritingStages, n
<1>14. CASE AddAdvances(o)
  BY <1>5, <1>10, <1>11, <1>12, <1>14 DEF WritingStages, n
<1>15. CASE AddWrites(o) \/ AddReadsPos(o) \/ AddWraps(o) \/ ChecksLength(o)
            \/ ValuesReadsLength(o) \/ Judges(o)
  <2>1. /\ ~AddAdvances(o) /\ added' = added
        /\ observer'[o].at \in WritingStages <=> observer[o].at \in WritingStages
    BY <1>3, <1>4, <1>5, <1>6, <1>7, <1>8, <1>9, <1>15 DEF WritingStages
  <2> QED BY <1>10, <1>11, <1>12, <2>1 DEF n
<1> QED BY <1>13, <1>14, <1>15 DEF AnoStep

(* No more slots are taken than values came.                               *)
LEMMA CountedKept ==
  ASSUME AnoTypes, SlotsCounted, NEW o \in Observers, AnoStep(o)
  PROVE  SlotsCounted'
<1> DEFINE A == Advances
<1>1. /\ A \in Nat /\ A' = IF AddAdvances(o) THEN A + 1 ELSE A
  BY AdvancesFacts DEF SlotsCounted
<1>2. /\ pos \in Slots /\ full \in BOOLEAN /\ pos <= A /\ (full => WindowSize <= A)
      /\ (pos = 0 /\ 1 <= A => WindowSize <= A)
      /\ WindowSize \in Nat \ {0} /\ observer \in [Observers -> ObserverStates]
  BY SlotFacts DEF AnoTypes, SlotsCounted
<1>3. \A p \in Observers :
        /\ observer[p].at = "advance" => observer[p].n \in Slots /\ observer[p].n <= A
        /\ observer[p].at = "wrap" => 1 <= A
  BY DEF SlotsCounted
<1>4. observer' \in [Observers -> ObserverStates]
      /\ \A p \in Observers : p # o => observer'[p] = observer[p]
  BY OneMoves
<1> HIDE DEF A
<1>5. ASSUME /\ observer'[o].at = "advance" => observer'[o].n \in Slots /\ observer'[o].n <= A'
             /\ observer'[o].at = "wrap" => 1 <= A'
      PROVE  \A p \in Observers :
               /\ observer'[p].at = "advance" => observer'[p].n \in Slots /\ observer'[p].n <= A'
               /\ observer'[p].at = "wrap" => 1 <= A'
  <2> TAKE p \in Observers
  <2>1. CASE p = o
    BY <1>5, <2>1
  <2>2. CASE p # o
    <3>1. observer'[p] = observer[p] /\ A <= A' /\ A' \in Nat
      BY <1>1, <1>4, <2>2
    <3>2. observer[p].n \in Slots => observer[p].n \in Nat
      BY SlotFacts
    <3> QED BY <1>1, <1>3, <3>1, <3>2
  <2> QED BY <2>1, <2>2
<1>6. ASSUME NEW v \in Readings, AnalyzeSignal(o, v) PROVE SlotsCounted'
  <2>1. observer'[o].at = "write" /\ observer[o].at = "idle" /\ UNCHANGED <<pos, full>>
    BY <1>2, <1>6 DEF AnalyzeSignal, windowVars
  <2>2. ~AddAdvances(o)
    BY <2>1 DEF AddAdvances
  <2> QED BY <1>1, <1>2, <1>5, <2>1, <2>2 DEF SlotsCounted, A
<1>7. CASE AddWrites(o)
  <2>1. observer'[o].at = "read" /\ observer[o].at = "write" /\ UNCHANGED <<pos, full>>
    BY <1>2, <1>7 DEF AddWrites, ObserverTo, ObserverStates
  <2>2. ~AddAdvances(o)
    BY <2>1 DEF AddAdvances
  <2> QED BY <1>1, <1>2, <1>5, <2>1, <2>2 DEF SlotsCounted, A
<1>8. CASE AddReadsPos(o)
  <2>1. /\ observer'[o].at = "advance" /\ observer'[o].n = pos
        /\ observer[o].at = "read" /\ UNCHANGED <<pos, full>>
    BY <1>2, <1>8 DEF AddReadsPos, windowVars, ObserverStates
  <2>2. ~AddAdvances(o)
    BY <2>1 DEF AddAdvances
  <2> QED BY <1>1, <1>2, <1>5, <2>1, <2>2 DEF SlotsCounted, A
<1>9. CASE AddAdvances(o)
  <2> DEFINE n == observer[o].n
  <2>1. /\ observer'[o].at = "wrap" /\ n \in Slots /\ n <= A
        /\ pos' = (n + 1) % WindowSize /\ full' = full
    BY <1>2, <1>3, <1>9 DEF AddAdvances, ObserverTo, ObserverStates
  <2> HIDE DEF n
  <2>2. n \in Nat /\ n < WindowSize
    BY <2>1, SlotFacts
  <2>3. pos' = IF n + 1 = WindowSize THEN 0 ELSE n + 1
    <3>1. CASE WindowSize = 1
      <4>1. n + 1 = 1
        BY <2>2, <3>1
      <4> QED BY <2>1, <3>1, <4>1
    <3>2. CASE WindowSize # 1
      <4>1. n + 1 \in 0 .. WindowSize + WindowSize - 1
        BY <1>2, <2>2, <3>2
      <4> DEFINE x == n + 1
      <4>2. x % WindowSize = IF x < WindowSize THEN x ELSE x - WindowSize
        <5> HIDE DEF x
        <5> QED BY <4>1, NextSlot DEF x
      <4> QED BY <1>2, <2>1, <2>2, <4>2
    <3> QED BY <3>1, <3>2
  <2>4. A' = A + 1
    BY <1>1, <1>9
  <2>5. /\ A' \in Nat /\ pos' <= A' /\ (full' => WindowSize <= A')
        /\ (pos' = 0 /\ 1 <= A' => WindowSize <= A')
    BY <1>1, <1>2, <2>1, <2>2, <2>3, <2>4
  <2>6. 1 <= A'
    BY <1>1, <2>4
  <2> QED BY <1>5, <2>1, <2>5, <2>6 DEF SlotsCounted, A
<1>10. CASE AddWraps(o)
  <2>1. /\ observer[o].at = "wrap" /\ observer'[o].at = "length"
        /\ full' = (full \/ pos = 0) /\ pos' = pos
    BY <1>2, <1>10 DEF AddWraps, ObserverTo, ObserverStates
  <2>2. ~AddAdvances(o) /\ 1 <= A
    BY <1>3, <2>1 DEF AddAdvances
  <2> QED BY <1>1, <1>2, <1>5, <2>1, <2>2 DEF SlotsCounted, A
<1>11. CASE ChecksLength(o) \/ ValuesReadsLength(o) \/ Judges(o)
  <2>1. /\ observer[o].at \in {"length", "values", "judge"}
        /\ observer'[o].at \in {"idle", "values", "judge"} /\ UNCHANGED <<pos, full>>
    BY <1>2, <1>11 DEF ChecksLength, ValuesReadsLength, Judges, windowVars, AtRest, ObserverStates
  <2>2. ~AddAdvances(o)
    BY <2>1 DEF AddAdvances
  <2> QED BY <1>1, <1>2, <1>5, <2>1, <2>2 DEF SlotsCounted, A
<1> QED BY <1>6, <1>7, <1>8, <1>9, <1>10, <1>11 DEF AnoStep

LEMMA NoMoreThanCame == AnoTypes /\ SlotsCounted => WindowLen <= Len(added) /\ WindowLen \in Nat
<1> SUFFICES ASSUME AnoTypes, SlotsCounted PROVE WindowLen <= Len(added) /\ WindowLen \in Nat
  OBVIOUS
<1>1. Len(added) \in Nat /\ Cardinality(Writing) \in Nat
  <2>1. IsFiniteSet(Writing)
    BY DetectorAssumption, FS_Subset DEF Writing
  <2> QED BY <2>1, FS_CardinalityType DEF AnoTypes
<1>2. Advances <= Len(added) /\ Advances \in Nat
  BY <1>1 DEF Advances, SlotsCounted
<1>3. WindowLen <= Advances /\ WindowLen \in Nat
  BY <1>2, SlotFacts DEF SlotsCounted, WindowLen, AnoTypes
<1> QED BY <1>1, <1>2, <1>3

LEMMA EnoughKept ==
  ASSUME AnoTypes, SlotsCounted, EnoughToJudge, NEW o \in Observers, AnoStep(o)
  PROVE  EnoughToJudge'
<1> DEFINE n == Len(added)
<1>1. n \in Nat /\ Len(added') \in Nat /\ n <= Len(added') /\ MinDataPoints \in Nat
  BY AdvancesFacts, DetectorAssumption
<1>2. /\ observer \in [Observers -> ObserverStates]
      /\ \A p \in Observers : p # o => observer'[p] = observer[p]
  BY OneMoves DEF AnoTypes
<1>3. ASSUME observer'[o].at \in {"values", "judge"} => MinDataPoints <= n
      PROVE  \A p \in Observers :
               observer'[p].at \in {"values", "judge"} => MinDataPoints <= Len(added')
  BY <1>1, <1>2, <1>3 DEF EnoughToJudge
<1>4. ASSUME NEW v \in Readings, AnalyzeSignal(o, v) PROVE EnoughToJudge'
  <2>1. observer'[o].at = "write" /\ verdict' = NoVerdict
    BY <1>2, <1>4 DEF AnalyzeSignal
  <2> QED BY <1>3, <2>1 DEF EnoughToJudge
<1>5. CASE AddWrites(o) \/ AddReadsPos(o) \/ AddAdvances(o) \/ AddWraps(o)
  <2>1. /\ observer'[o].at \in {"read", "advance", "wrap", "length"}
        /\ verdict' = verdict /\ added' = added
    BY <1>2, <1>5 DEF AddWrites, AddReadsPos, AddAdvances, AddWraps, ObserverTo, ObserverStates,
                      anoHistory
  <2> QED BY <1>3, <2>1 DEF EnoughToJudge
<1>6. CASE ChecksLength(o)
  <2>1. verdict' = verdict /\ added' = added
    BY <1>6 DEF ChecksLength, anoHistory
  <2>2. CASE WindowLen < MinDataPoints
    <3>1. observer'[o].at = "idle"
      BY <1>2, <1>6, <2>2 DEF ChecksLength, AtRest
    <3> QED BY <1>3, <2>1, <3>1 DEF EnoughToJudge
  <2>3. CASE ~(WindowLen < MinDataPoints)
    <3>1. MinDataPoints <= n
      BY <1>1, <2>3, NoMoreThanCame
    <3> QED BY <1>3, <2>1, <3>1 DEF EnoughToJudge
  <2> QED BY <2>2, <2>3
<1>7. CASE ValuesReadsLength(o)
  <2>1. verdict' = verdict /\ added' = added /\ MinDataPoints <= n
    BY <1>7 DEF ValuesReadsLength, anoHistory, EnoughToJudge
  <2> QED BY <1>3, <2>1 DEF EnoughToJudge
<1>8. CASE Judges(o)
  <2>1. added' = added /\ MinDataPoints <= n
    BY <1>8 DEF Judges, anoHistory, EnoughToJudge
  <2> QED BY <1>3, <2>1 DEF EnoughToJudge
<1> QED BY <1>4, <1>5, <1>6, <1>7, <1>8 DEF AnoStep

(* What Values returns is a list of the length it was asked for.           *)
LEMMA ContentsType ==
  ASSUME AnoTypes, NEW n \in 0 .. WindowSize
  PROVE  Contents(n) \in Seq(Signal) /\ Len(Contents(n)) = n
<1>1. /\ ring \in [Slots -> Signal] /\ pos \in Slots /\ WindowSize \in Nat \ {0} /\ n \in Nat
      /\ pos \in Nat /\ pos < WindowSize
  BY SlotFacts DEF AnoTypes
<1>2. 0 \in Signal
  BY DEF Signal
<1>3. ASSUME NEW i \in 1 .. n
      PROVE (IF full THEN ring[(pos + i - 1) % WindowSize]
             ELSE IF i <= pos THEN ring[i - 1] ELSE 0) \in Signal
  <2>1. (pos + i - 1) % WindowSize \in Slots
    <3>1. pos + i - 1 \in 0 .. WindowSize + WindowSize - 1
      BY <1>1
    <3> QED BY <3>1, NextSlot
  <2>2. i <= pos => i - 1 \in Slots
    BY <1>1 DEF Slots
  <2> QED BY <1>1, <1>2, <2>1, <2>2
<1> HIDE DEF Signal
<1> QED BY <1>1, <1>3 DEF Contents

(* The judgement is by the rule from the start, and at every step.         *)
LEMMA NoVerdictByRule ==
  /\ NoVerdict.values \in Seq(Signal) /\ NoVerdict.v \in Signal
  /\ NoVerdict.anomaly <=> Deviates(NoVerdict.v, NoVerdict.values)
<1>1. NoVerdict.values = <<>> /\ NoVerdict.v = 0 /\ NoVerdict.anomaly = FALSE
  BY DEF NoVerdict
<1>2. Len(<<>>) = 0 /\ ~(0 >= 2) /\ <<>> \in Seq(Signal)
  OBVIOUS
<1>3. ~Deviates(0, <<>>)
  BY <1>2 DEF Deviates
<1> QED BY <1>1, <1>2, <1>3 DEF Signal

LEMMA RuleKept ==
  ASSUME AnoTypes, JudgedByRule, NEW o \in Observers, AnoStep(o)
  PROVE  JudgedByRule'
<1>1. ASSUME NEW v \in Readings, AnalyzeSignal(o, v) PROVE JudgedByRule'
  <2>1. verdict' = NoVerdict
    BY <1>1 DEF AnalyzeSignal
  <2> QED BY <2>1, NoVerdictByRule DEF JudgedByRule
<1>2. CASE AddWrites(o) \/ AddReadsPos(o) \/ AddAdvances(o) \/ AddWraps(o)
           \/ ChecksLength(o) \/ ValuesReadsLength(o)
  <2>1. verdict' = verdict
    BY <1>2 DEF AddWrites, AddReadsPos, AddAdvances, AddWraps, ChecksLength, ValuesReadsLength
  <2> QED BY <2>1 DEF JudgedByRule
<1>3. CASE Judges(o)
  <2> DEFINE vs == Contents(observer[o].n)
             x == observer[o].v
  <2>1. observer[o].n \in 0 .. WindowSize /\ x \in Signal
    BY DEF AnoTypes, ObserverStates
  <2>2. vs \in Seq(Signal)
    BY <2>1, ContentsType
  <2>3. verdict' = [values |-> vs, v |-> x, anomaly |-> Deviates(x, vs)]
    BY <1>3 DEF Judges
  <2> HIDE DEF vs, x
  <2>4. /\ verdict'.values = vs /\ verdict'.v = x
        /\ verdict'.anomaly <=> Deviates(x, vs)
    BY <2>3
  <2> QED BY <2>1, <2>2, <2>4 DEF JudgedByRule
<1> QED BY <1>1, <1>2, <1>3 DEF AnoStep

(* Slots back from a place.                                                *)
LEMMA BackFacts ==
  ASSUME NEW p \in Slots, NEW d \in 1 .. WindowSize
  PROVE  /\ Back(p, d) \in Slots
         /\ d < WindowSize => Back(p, d) # p
BY SlotFacts DEF Back, Slots

(* One step of the ring, and the distances from its new place.             *)
LEMMA Forward ==
  ASSUME NEW p \in Slots
  PROVE  LET q == (p + 1) % WindowSize
         IN /\ q = IF p + 1 = WindowSize THEN 0 ELSE p + 1
            /\ q \in Slots
            /\ Back(q, 1) = p
            /\ \A d \in 2 .. WindowSize : Back(q, d) = Back(p, d - 1)
<1> DEFINE q == (p + 1) % WindowSize
           x == p + 1
<1>1. p \in Nat /\ p < WindowSize /\ WindowSize \in Nat \ {0}
  BY SlotFacts
<1>2. q = IF p + 1 = WindowSize THEN 0 ELSE p + 1
  <2>1. CASE WindowSize = 1
    <3>1. p + 1 = 1
      BY <1>1, <2>1
    <3> QED BY <2>1, <3>1
  <2>2. CASE WindowSize # 1
    <3>1. x \in 0 .. WindowSize + WindowSize - 1
      BY <1>1, <2>2
    <3>2. x % WindowSize = IF x < WindowSize THEN x ELSE x - WindowSize
      <4> HIDE DEF x
      <4> QED BY <3>1, NextSlot
    <3> QED BY <1>1, <3>2
  <2> QED BY <2>1, <2>2
<1> HIDE DEF q
<1>3. q \in Slots /\ Back(q, 1) = p
  BY <1>1, <1>2 DEF Slots, Back
<1>4. \A d \in 2 .. WindowSize : Back(q, d) = Back(p, d - 1)
  BY <1>1, <1>2 DEF Back
<1> QED BY <1>2, <1>3, <1>4 DEF q

(* While the callers come one by one, the ring holds the latest values in  *)
(* order.                                                                  *)
LEMMA OneByOneKept ==
  ASSUME AnoTypes, OneByOne, NEW o \in Observers, AnoStep(o)
  PROVE  OneByOne'
<1> SUFFICES ASSUME ~overlapped' PROVE OneByOne'
  BY DEF OneByOne
<1> DEFINE n == Len(added)
           W == WindowSize
           c == observer[o]
<1>1. /\ observer \in [Observers -> ObserverStates] /\ observer' \in [Observers -> ObserverStates]
      /\ \A p \in Observers : p # o => observer'[p] = observer[p]
      /\ c \in ObserverStates /\ observer'[o] \in ObserverStates
  BY OneMoves DEF AnoTypes
<1>2. ~overlapped
  BY DEF AnoStep, AnalyzeSignal, AddWrites, AddReadsPos, AddAdvances, AddWraps, ChecksLength,
         ValuesReadsLength, Judges, anoHistory
<1>3. /\ ~outOfRange
      /\ \A p, q \in Observers : observer[p].at # "idle" /\ observer[q].at # "idle" => p = q
      /\ Alone(o)
      /\ (\A p \in Observers : observer[p].at = "idle") => Settled(n)
  BY <1>2 DEF OneByOne
<1>4. /\ n \in Nat /\ W \in Nat \ {0} /\ pos \in Slots /\ ring \in [Slots -> Signal]
      /\ full \in BOOLEAN /\ added \in Seq(Readings)
  BY SlotFacts DEF AnoTypes
<1>5. \A p \in Observers : p # o => observer[p].at = "idle"
  <2>1. CASE c.at # "idle"
    BY <1>3, <2>1
  <2>2. CASE c.at = "idle"
    <3>1. \E v \in Readings : AnalyzeSignal(o, v)
      BY <2>2 DEF AnoStep, AddWrites, AddReadsPos, AddAdvances, AddWraps, ChecksLength,
                  ValuesReadsLength, Judges
    <3> QED BY <3>1 DEF AnalyzeSignal
  <2> QED BY <2>1, <2>2
<1>6. ASSUME ~outOfRange', Alone(o)', observer'[o].at = "idle" => Settled(Len(added))'
      PROVE  OneByOne'
  <2>1. \A p \in Observers : p # o => observer'[p].at = "idle"
    BY <1>1, <1>5
  <2>2. ASSUME NEW p \in Observers PROVE Alone(p)'
    <3>1. CASE p = o
      BY <1>6, <3>1
    <3>2. CASE p # o
      <4>1. observer'[p].at = "idle"
        BY <2>1, <3>2
      <4> QED BY <4>1 DEF Alone
    <3> QED BY <3>1, <3>2
  <2> QED BY <1>6, <2>1, <2>2 DEF OneByOne
<1>7. ASSUME NEW v \in Readings, AnalyzeSignal(o, v) PROVE OneByOne'
  <2>1. /\ c.at = "idle" /\ added' = Append(added, v) /\ UNCHANGED <<ring, pos, full, outOfRange>>
        /\ observer'[o].at = "write" /\ observer'[o].v = v
    BY <1>1, <1>7 DEF AnalyzeSignal, windowVars
  <2>2. Settled(n)
    BY <1>3, <1>5, <2>1
  <2>3. /\ Len(added') = n + 1 /\ added'[n + 1] = v
        /\ \A i \in 1 .. n : added'[i] = added[i]
    BY <1>4, <2>1
  <2>4. ASSUME NEW d \in 1 .. W, d <= n PROVE ring'[Back(pos', d)] = added'[n + 1 - d]
    <3>1. n + 1 - d \in 1 .. n
      BY <1>4, <2>4
    <3>2. ring[Back(pos, d)] = added[n + 1 - d]
      BY <2>2, <2>4 DEF Settled, Holds
    <3> QED BY <2>1, <2>3, <3>1, <3>2
  <2>5. Settled(Len(added) - 1)'
    <3>1. Len(added') - 1 = n
      BY <1>4, <2>3
    <3>2. (n < W => pos' = n) /\ (n = W => pos' = 0) /\ (full' <=> n >= W)
      BY <2>1, <2>2 DEF Settled, Position
    <3> HIDE DEF n
    <3> QED BY <2>4, <3>1, <3>2 DEF Settled, Position, Holds
  <2>6. Alone(o)'
    <3>1. Len(added') >= 1 /\ observer'[o].v = added'[Len(added')]
      BY <1>4, <2>1, <2>3
    <3> QED BY <2>1, <2>5, <3>1 DEF Alone
  <2> QED BY <1>3, <1>6, <2>1, <2>6
<1>8. CASE AddWrites(o)
  <2>1. /\ c.at = "write" /\ ring' = [ring EXCEPT ![pos] = c.v]
        /\ UNCHANGED <<pos, full, added, outOfRange>> /\ observer'[o].at = "read"
    BY <1>1, <1>8 DEF AddWrites, ObserverTo, anoHistory, ObserverStates
  <2>2. n >= 1 /\ Settled(n - 1) /\ c.v = added[n]
    BY <1>3, <2>1 DEF Alone
  <2>3. ring'[pos] = added[n] /\ \A s \in Slots : s # pos => ring'[s] = ring[s]
    BY <1>4, <2>1, <2>2
  <2>4. ASSUME NEW d \in 1 .. W - 1, d <= n - 1 PROVE ring'[Back(pos, d)] = added[n - d]
    <3>1. Back(pos, d) \in Slots /\ Back(pos, d) # pos /\ d \in 1 .. W
      BY <1>4, BackFacts
    <3>2. ring[Back(pos, d)] = added[(n - 1) + 1 - d] /\ (n - 1) + 1 - d = n - d
      BY <1>4, <2>2, <2>4, <3>1 DEF Settled, Holds
    <3> QED BY <2>3, <3>1, <3>2
  <2>5. Written(n)'
    BY <2>1, <2>2, <2>3, <2>4 DEF Written, Settled, Position
  <2>6. Alone(o)'
    BY <2>1, <2>2, <2>5 DEF Alone
  <2> QED BY <1>3, <1>6, <2>1, <2>6
<1>9. CASE AddReadsPos(o)
  <2>1. /\ c.at = "read" /\ UNCHANGED <<ring, pos, full, added, outOfRange>>
        /\ observer'[o].at = "advance" /\ observer'[o].n = pos
    BY <1>1, <1>9 DEF AddReadsPos, windowVars, anoHistory, ObserverStates
  <2>2. n >= 1 /\ Written(n)
    BY <1>3, <2>1 DEF Alone
  <2>3. Written(n)'
    BY <2>1, <2>2 DEF Written, Position
  <2>4. Alone(o)'
    BY <2>1, <2>2, <2>3 DEF Alone
  <2> QED BY <1>3, <1>6, <2>1, <2>4
<1>10. CASE AddAdvances(o)
  <2>1. /\ c.at = "advance" /\ pos' = (c.n + 1) % W
        /\ UNCHANGED <<ring, full, added, outOfRange>> /\ observer'[o].at = "wrap"
    BY <1>1, <1>10 DEF AddAdvances, ObserverTo, anoHistory, ObserverStates
  <2>2. n >= 1 /\ Written(n) /\ c.n = pos
    BY <1>3, <2>1 DEF Alone
  <2>3. /\ pos' = IF pos + 1 = W THEN 0 ELSE pos + 1
        /\ Back(pos', 1) = pos
        /\ \A d \in 2 .. W : Back(pos', d) = Back(pos, d - 1)
    BY <1>4, <2>1, <2>2, Forward
  <2>4. /\ Position(n - 1) /\ (full <=> n - 1 >= W) /\ ring[pos] = added[n]
        /\ \A d \in 1 .. W - 1 : d <= n - 1 => ring[Back(pos, d)] = added[n - d]
    BY <2>2 DEF Written
  <2>5. (n < W => pos' = n) /\ (n = W => pos' = 0)
    <3>1. n - 1 < W => pos = n - 1
      BY <2>4 DEF Position
    <3> QED BY <1>4, <2>2, <2>3, <3>1
  <2>6. ASSUME NEW d \in 1 .. W, d <= n PROVE ring[Back(pos', d)] = added[n + 1 - d]
    <3>1. CASE d = 1
      <4>1. n + 1 - d = n
        BY <1>4, <3>1
      <4> QED BY <2>3, <2>4, <3>1, <4>1
    <3>2. CASE d # 1
      <4>1. d \in 2 .. W /\ d - 1 \in 1 .. W - 1 /\ d - 1 <= n - 1 /\ n - (d - 1) = n + 1 - d
        BY <1>4, <2>6, <3>2
      <4>2. Back(pos', d) = Back(pos, d - 1)
        BY <2>3, <4>1
      <4>3. ring[Back(pos, d - 1)] = added[n - (d - 1)]
        BY <2>4, <4>1
      <4> QED BY <4>1, <4>2, <4>3
    <3> QED BY <3>1, <3>2
  <2>7. Position(n)' /\ Holds(n)' /\ (full' <=> n - 1 >= W)
    BY <2>1, <2>4, <2>5, <2>6 DEF Position, Holds
  <2>8. Alone(o)'
    BY <2>1, <2>2, <2>7 DEF Alone
  <2> QED BY <1>3, <1>6, <2>1, <2>8
<1>11. CASE AddWraps(o)
  <2>1. /\ c.at = "wrap" /\ full' = (full \/ pos = 0)
        /\ UNCHANGED <<ring, pos, added, outOfRange>> /\ observer'[o].at = "length"
    BY <1>1, <1>11 DEF AddWraps, ObserverTo, anoHistory, ObserverStates
  <2>2. n >= 1 /\ Position(n) /\ (full <=> n - 1 >= W) /\ Holds(n)
    BY <1>3, <2>1 DEF Alone
  <2>3. full' <=> n >= W
    <3>1. pos = 0 <=> n = W \/ (n > W /\ pos = 0)
      BY <1>4, <2>2 DEF Position
    <3>2. n >= W <=> n - 1 >= W \/ n = W
      BY <1>4
    <3>3. n > W <=> n - 1 >= W
      BY <1>4
    <3> HIDE DEF n, W
    <3> QED BY <2>1, <2>2, <3>1, <3>2, <3>3
  <2>4. Settled(n)'
    BY <2>1, <2>2, <2>3 DEF Settled, Position, Holds
  <2>5. Alone(o)'
    BY <2>1, <2>4 DEF Alone
  <2> QED BY <1>3, <1>6, <2>1, <2>5
<1>12. CASE ChecksLength(o)
  <2>1. /\ c.at = "length" /\ UNCHANGED <<ring, pos, full, added, outOfRange>>
        /\ observer'[o].at \in {"idle", "values"}
    BY <1>1, <1>12 DEF ChecksLength, windowVars, anoHistory, ObserverStates, AtRest
  <2>2. Settled(n)
    BY <1>3, <2>1 DEF Alone
  <2>3. Settled(Len(added))'
    BY <2>1, <2>2 DEF Settled, Position, Holds
  <2>4. Alone(o)'
    BY <2>1, <2>3 DEF Alone
  <2> QED BY <1>3, <1>6, <2>1, <2>3, <2>4
<1>13. CASE ValuesReadsLength(o)
  <2>1. /\ c.at = "values" /\ UNCHANGED <<ring, pos, full, added, outOfRange>>
        /\ observer'[o].at = "judge" /\ observer'[o].n = WindowLen
    BY <1>1, <1>13 DEF ValuesReadsLength, windowVars, anoHistory, ObserverStates
  <2>2. Settled(n)
    BY <1>3, <2>1 DEF Alone
  <2>3. Settled(Len(added))' /\ WindowLen' = WindowLen
    BY <2>1, <2>2 DEF Settled, Position, Holds, WindowLen
  <2>4. Alone(o)'
    BY <2>1, <2>3 DEF Alone
  <2> QED BY <1>3, <1>6, <2>1, <2>4
<1>14. CASE Judges(o)
  <2>1. /\ c.at = "judge" /\ UNCHANGED <<ring, pos, full, added>>
        /\ observer'[o].at = "idle" /\ outOfRange' = (outOfRange \/ SliceFails(c.n))
    BY <1>1, <1>14 DEF Judges, windowVars, anoHistory, AtRest
  <2>2. Settled(n) /\ c.n = WindowLen
    BY <1>3, <2>1 DEF Alone
  <2>3. ~SliceFails(c.n)
    BY <1>4, <2>2, SlotFacts DEF SliceFails, WindowLen
  <2>4. Settled(Len(added))'
    BY <2>1, <2>2 DEF Settled, Position, Holds
  <2>5. Alone(o)'
    BY <2>1 DEF Alone
  <2> QED BY <1>3, <1>6, <2>1, <2>3, <2>4, <2>5
<1> QED BY <1>7, <1>8, <1>9, <1>10, <1>11, <1>12, <1>13, <1>14 DEF AnoStep

(* A settled window shows the last values that came.                       *)
LEMMA SettledShowsLatest ==
  ASSUME AnoTypes, Settled(Len(added))
  PROVE  LET n == IF Len(added) < WindowSize THEN Len(added) ELSE WindowSize
         IN Contents(WindowLen) = SubSeq(added, Len(added) - n + 1, Len(added))
<1> DEFINE m == Len(added)
           W == WindowSize
           n == IF m < W THEN m ELSE W
           Shown(i) == IF full THEN ring[(pos + i - 1) % W]
                       ELSE IF i <= pos THEN ring[i - 1] ELSE 0
<1>1. /\ m \in Nat /\ W \in Nat \ {0} /\ pos \in Slots /\ pos \in Nat /\ pos < W
      /\ full \in BOOLEAN /\ added \in Seq(Readings)
  BY SlotFacts DEF AnoTypes
<1>2. (m < W => pos = m) /\ (m = W => pos = 0) /\ (full <=> m >= W)
      /\ \A d \in 1 .. W : d <= m => ring[Back(pos, d)] = added[m + 1 - d]
  BY DEF Settled, Position, Holds
<1>3. WindowLen = n /\ n \in 0 .. W /\ n <= m /\ n = IF m < W THEN m ELSE W
  BY <1>1, <1>2 DEF WindowLen
<1> HIDE DEF n
<1>4. ASSUME NEW i \in 1 .. n PROVE Shown(i) = added[m - n + i]
  <2>1. i \in 1 .. W /\ n + 1 - i \in 1 .. W /\ n + 1 - i <= m /\ m + 1 - (n + 1 - i) = m - n + i
    BY <1>1, <1>3
  <2>2. ring[Back(pos, n + 1 - i)] = added[m - n + i]
    BY <1>2, <2>1
  <2>3. CASE full
    <3>1. n = W
      BY <1>1, <1>2, <1>3, <2>3
    <3> DEFINE x == pos + i - 1
    <3>2. x \in 0 .. W + W - 1
      BY <1>1, <2>1
    <3>3. x % W = IF x < W THEN x ELSE x - W
      <4> HIDE DEF x
      <4> QED BY <3>2, NextSlot
    <3>4. Back(pos, n + 1 - i) = x % W
      BY <1>1, <2>1, <3>1, <3>3 DEF Back
    <3> QED BY <2>2, <2>3, <3>4
  <2>4. CASE ~full
    <3>1. n = m /\ pos = m
      BY <1>1, <1>2, <1>3, <2>4
    <3>2. Back(pos, n + 1 - i) = i - 1 /\ i <= pos
      <4>1. i \in 1 .. n /\ n \in Nat /\ n + 1 - i <= n /\ n - (n + 1 - i) = i - 1
        BY <1>1, <1>3
      <4> QED BY <3>1, <4>1 DEF Back
    <3> QED BY <2>2, <2>4, <3>2
  <2> QED BY <2>3, <2>4
<1>5. Contents(WindowLen) = [i \in 1 .. n |-> Shown(i)]
  BY <1>3 DEF Contents
<1> HIDE DEF Shown
<1>6. SubSeq(added, m - n + 1, m) = [i \in 1 .. n |-> added[m - n + i]]
  <2>1. n \in Nat /\ m \in Nat /\ added \in Seq(Readings)
    <3>1. n \in 0 .. W /\ W \in Nat
      BY <1>1, <1>3
    <3> QED BY <1>1, <3>1
  <2> HIDE DEF m
  <2> DEFINE a == m - n + 1
  <2>2. 1 + m - a = n /\ \A i \in 1 .. n : i + a - 1 = m - n + i
    BY <2>1
  <2>3. a \in Int
    BY <2>1
  <2> HIDE DEF a
  <2>4. SubSeq(added, a, m) = [i \in 1 .. (1 + m - a) |-> added[i + a - 1]]
    BY <2>1, <2>3
  <2> QED BY <2>2, <2>4 DEF a
<1>7. Contents(WindowLen) = SubSeq(added, m - n + 1, m)
  BY <1>4, <1>5, <1>6
<1> QED BY <1>7 DEF n

LEMMA AnoInitInv == AnoInit => AnoInv
<1> SUFFICES ASSUME AnoInit PROVE AnoInv
  OBVIOUS
<1>1. /\ ring = [s \in Slots |-> 0] /\ pos = 0 /\ full = FALSE
      /\ observer = [o \in Observers |-> AtRest] /\ detected = <<>> /\ added = <<>>
      /\ overlapped = FALSE /\ verdict = NoVerdict /\ outOfRange = FALSE
      /\ Len(<<>>) = 0 /\ \A S : <<>> \in Seq(S)
      /\ WindowSize \in Nat \ {0} /\ 0 \in Slots /\ MaxDetected \in Nat
  BY SlotFacts, DetectorAssumption DEF AnoInit
<1>2. AtRest \in ObserverStates /\ AtRest.at = "idle" /\ 0 \in Signal
  BY <1>1 DEF AtRest, ObserverStates, Stages, Signal
<1>3. AnoTypes
  <2>1. ring \in [Slots -> Signal] /\ observer \in [Observers -> ObserverStates]
    BY <1>1, <1>2
  <2> QED BY <1>1, <2>1 DEF AnoTypes
<1>4. \A o \in Observers : observer[o].at = "idle"
  BY <1>1, <1>2
<1>5. SlotsCounted
  <2>1. Writing = {}
    BY <1>4 DEF Writing
  <2>2. Advances = 0
    BY <1>1, <2>1, FS_EmptySet DEF Advances
  <2> QED BY <1>1, <1>4, <2>2 DEF SlotsCounted
<1>6. EnoughToJudge
  BY <1>1, <1>4 DEF EnoughToJudge
<1>7. JudgedByRule
  BY <1>1, NoVerdictByRule DEF JudgedByRule
<1>8. OneByOne
  <2>1. Settled(0)
    BY <1>1 DEF Settled, Position, Holds
  <2>2. \A o \in Observers : Alone(o)
    BY <1>4 DEF Alone
  <2> QED BY <1>1, <1>4, <2>1, <2>2 DEF OneByOne
<1> QED BY <1>3, <1>5, <1>6, <1>7, <1>8 DEF AnoInv

LEMMA AnoStepKeepsInv == AnoInv /\ [AnoNext]_anoVars => AnoInv'
<1> SUFFICES ASSUME AnoInv, [AnoNext]_anoVars PROVE AnoInv'
  OBVIOUS
<1>1. CASE UNCHANGED anoVars
  BY <1>1 DEF anoVars, windowVars, anoHistory, AnoInv, AnoTypes, SlotsCounted, Writing, Advances,
              EnoughToJudge, JudgedByRule, OneByOne, Alone, Settled, Written, Position, Holds,
              WindowLen
<1>2. CASE AnoNext
  <2>1. PICK o \in Observers : AnoStep(o)
    BY <1>2 DEF AnoNext, AnoStep
  <2> QED BY <2>1, TypesKept, CountedKept, EnoughKept, RuleKept, OneByOneKept DEF AnoInv
<1> QED BY <1>1, <1>2

-----------------------------------------------------------------------------
(* What the folds of additions are: the sum of what stands at some places. *)
Sums(h, n, f) ==
  \A s \in SUBSET (1 .. n) : h[s] = IF s = {} THEN 0 ELSE h[s \ {Max(s)}] + f[Max(s)]

(* There is such a sum.                                                    *)
LEMMA SumsExist ==
  ASSUME NEW n \in Nat, NEW f \in [1 .. n -> Nat]
  PROVE  \E g \in [SUBSET (1 .. n) -> Nat] : Sums(g, n, f)
<1> DEFINE step == [i \in 1 .. n |-> [k \in Nat |-> k + f[i]]]
<1>1. step \in [1 .. n -> [Nat -> Nat]] /\ 0 \in Nat
  OBVIOUS
<1>2. \A i \in 1 .. n : \A k \in Nat : step[i][k] = k + f[i]
  OBVIOUS
<1> HIDE DEF step
<1>3. PICK g \in [SUBSET (1 .. n) -> Nat] : FoldsPlaces(g, n, 0, step)
  BY <1>1, PrefixFold
<1>4. ASSUME NEW s \in SUBSET (1 .. n)
      PROVE  g[s] = IF s = {} THEN 0 ELSE g[s \ {Max(s)}] + f[Max(s)]
  BY <1>2, <1>3, LastPlace DEF FoldsPlaces
<1> QED BY <1>4 DEF Sums

(* What is steady but for its last place.                                  *)
Steady(f, n, a) == \A i \in 1 .. n - 1 : f[i] = a

(* Its value,                                                              *)
LEMMA SteadySum ==
  ASSUME NEW n \in Nat, n >= 2, NEW f \in [1 .. n -> Nat], NEW a \in Nat,
         Steady(f, n, a), NEW h, Sums(h, n, f)
  PROVE  h[1 .. n] = (n - 1) * a + f[n]
<1>1. h[1 .. 0] = 0
  <2>1. 1 .. 0 = {} /\ 1 .. 0 \in SUBSET (1 .. n)
    OBVIOUS
  <2> QED BY <2>1, Zenon DEF Sums
<1>2. ASSUME NEW k \in 0 .. n - 1 PROVE h[1 .. (k + 1)] = h[1 .. k] + f[k + 1]
  <2>1. /\ 1 .. (k + 1) \in SUBSET (1 .. n) /\ 1 .. (k + 1) # {}
        /\ Max(1 .. (k + 1)) = k + 1 /\ (1 .. (k + 1)) \ {k + 1} = 1 .. k
    BY PrefixPlaces
  <2> QED BY <2>1, Zenon DEF Sums
<1> DEFINE T == {k \in Nat : k <= n - 1 => h[1 .. k] = k * a}
<1>3. Nat \subseteq T
  <2>1. 0 \in T
    BY <1>1
  <2>2. ASSUME NEW k \in Nat, k \in T PROVE k + 1 \in T
    <3> SUFFICES ASSUME k + 1 <= n - 1 PROVE h[1 .. (k + 1)] = (k + 1) * a
      OBVIOUS
    <3>1. h[1 .. k] = k * a /\ h[1 .. (k + 1)] = h[1 .. k] + f[k + 1] /\ f[k + 1] = a
      BY <1>2, <2>2 DEF Steady
    <3> QED BY <3>1
  <2> HIDE DEF T
  <2> QED BY <2>1, <2>2, NatInductionOn
<1>4. h[1 .. (n - 1)] = (n - 1) * a
  BY <1>3
<1>5. h[1 .. ((n - 1) + 1)] = h[1 .. (n - 1)] + f[(n - 1) + 1] /\ (n - 1) + 1 = n
  BY <1>2
<1> QED BY <1>4, <1>5

(* for the sums that the rule is made of.                                  *)
LEMMA SteadySums ==
  ASSUME NEW sample \in Seq(Nat), Len(sample) >= 2, NEW a \in Nat,
         \A i \in 1 .. Len(sample) - 1 : sample[i] = a
  PROVE  LET n == Len(sample)
             v == sample[n]
         IN /\ SumOf(sample) = (n - 1) * a + v
            /\ SumOfSquares(sample) = (n - 1) * (a * a) + v * v
<1> DEFINE n == Len(sample)
           D == 1 .. n
           f == [i \in D |-> sample[i]]
           q == [i \in D |-> sample[i] * sample[i]]
           Body1(h, s) == IF s = {} THEN 0 ELSE h[s \ {Max(s)}] + sample[Max(s)]
           Body2(h, s) == IF s = {} THEN 0
                          ELSE h[s \ {Max(s)}] + sample[Max(s)] * sample[Max(s)]
           Is1(h) == h = [s \in SUBSET D |-> Body1(h, s)]
           Is2(h) == h = [s \in SUBSET D |-> Body2(h, s)]
           h1 == CHOOSE h : Is1(h)
           h2 == CHOOSE h : Is2(h)
<1>1. DOMAIN sample = D /\ n \in Nat /\ \A i \in D : sample[i] \in Nat
  OBVIOUS
<1>2. \A s \in SUBSET D : s # {} => Max(s) \in D
  BY <1>1, LastPlace
<1>3. /\ f \in [1 .. n -> Nat] /\ q \in [1 .. n -> Nat]
      /\ \A i \in D : f[i] = sample[i] /\ q[i] = sample[i] * sample[i]
  BY <1>1
<1>4. SumOf(sample) = h1[D]
  BY <1>1, Zenon DEF SumOf, FoldLeft, MapThenFoldSet
<1>5. SumOfSquares(sample) = h2[D]
  BY <1>1, Zenon DEF SumOfSquares, FoldLeft, MapThenFoldSet
<1>6. ASSUME NEW h, NEW s \in SUBSET D
      PROVE  /\ Body1(h, s) = IF s = {} THEN 0 ELSE h[s \ {Max(s)}] + f[Max(s)]
             /\ Body2(h, s) = IF s = {} THEN 0 ELSE h[s \ {Max(s)}] + q[Max(s)]
  BY <1>2, <1>3
<1> HIDE DEF f, q
<1>7. Sums(h1, n, f)
  <2>1. PICK g \in [SUBSET (1 .. n) -> Nat] : Sums(g, n, f)
    BY <1>1, <1>3, SumsExist
  <2>2. ASSUME NEW s \in SUBSET D PROVE g[s] = Body1(g, s)
    BY <1>6, <2>1 DEF Sums
  <2>3. Is1(g)
    BY <2>2
  <2>4. Is1(h1)
    <3> HIDE DEF Is1
    <3> QED BY <2>3
  <2>5. \A s \in SUBSET D : h1[s] = Body1(h1, s)
    BY <2>4
  <2> HIDE DEF h1, Body1
  <2> QED BY <1>6, <2>5 DEF Sums
<1>8. Sums(h2, n, q)
  <2>1. PICK g \in [SUBSET (1 .. n) -> Nat] : Sums(g, n, q)
    BY <1>1, <1>3, SumsExist
  <2>2. ASSUME NEW s \in SUBSET D PROVE g[s] = Body2(g, s)
    BY <1>6, <2>1 DEF Sums
  <2>3. Is2(g)
    BY <2>2
  <2>4. Is2(h2)
    <3> HIDE DEF Is2
    <3> QED BY <2>3
  <2>5. \A s \in SUBSET D : h2[s] = Body2(h2, s)
    BY <2>4
  <2> HIDE DEF h2, Body2
  <2> QED BY <1>6, <2>5 DEF Sums
<1> HIDE DEF h1, h2
<1>9. /\ \A i \in 1 .. n - 1 : i \in D /\ sample[i] = a
      /\ n \in D
  BY <1>1
<1>10. h1[1 .. n] = (n - 1) * a + f[n]
  <2>1. Steady(f, n, a)
    BY <1>3, <1>9 DEF Steady
  <2>2. n \in Nat /\ n >= 2 /\ a \in Nat /\ f \in [1 .. n -> Nat]
    BY <1>1, <1>3
  <2> HIDE DEF n, D
  <2> QED BY <1>7, <2>1, <2>2, SteadySum
<1>11. h2[1 .. n] = (n - 1) * (a * a) + q[n]
  <2>1. a * a \in Nat /\ \A i \in 1 .. n - 1 : q[i] = a * a
    BY <1>3, <1>9
  <2> DEFINE b == a * a
  <2> HIDE DEF b
  <2>2. b \in Nat /\ Steady(q, n, b)
    BY <2>1 DEF b, Steady
  <2>3. h2[1 .. n] = (n - 1) * b + q[n]
    <3>1. n \in Nat /\ n >= 2 /\ q \in [1 .. n -> Nat]
      BY <1>1, <1>3
    <3> HIDE DEF n, D
    <3> QED BY <1>8, <2>2, <3>1, SteadySum
  <2> QED BY <2>3 DEF b
<1> QED BY <1>3, <1>4, <1>5, <1>9, <1>10, <1>11

(* A list of some is a list of more.                                       *)
LEMMA WiderSeq == ASSUME NEW S, NEW T, S \subseteq T, NEW s \in Seq(S) PROVE s \in Seq(T)
OBVIOUS

(* The rule for a steady window with one other value at its end: the size  *)
(* of the step cancels out, and what is left is how many values there are. *)
LEMMA SpikeArithmetic ==
  ASSUME NEW n \in Nat, n >= 2, NEW a \in Nat, NEW v \in Nat, v # a, NEW T \in Nat,
         NEW S, S = (n - 1) * a + v, NEW Q, Q = (n - 1) * (a * a) + v * v
  PROVE  LET spread == n * Q - S * S
             off == n * v - S
         IN (spread # 0 /\ off * off * (n - 1) >= T * T * n * spread)
            <=> (n - 1) * (n - 1) >= T * T * n
<1> DEFINE d == v - a
           k == n - 1
           P == k * (d * d)
<1>1. n * Q - S * S = P
  OBVIOUS
<1>2. n * v - S = k * d
  OBVIOUS
<1>3. d \in Int /\ d # 0 /\ k \in Nat /\ k > 0
  OBVIOUS
<1> HIDE DEF d, k
<1>4. P > 0 /\ P \in Int
  BY <1>3
<1>5. (k * d) * (k * d) * k = P * (k * k)
  BY <1>3
<1>6. T * T * n * P = P * (T * T * n)
  BY <1>4
<1> DEFINE x == k * k
           y == T * T * n
<1>7. x \in Int /\ y \in Int
  BY <1>3
<1> HIDE DEF P, x, y
<1>8. P * x >= P * y <=> x >= y
  BY <1>4, <1>7
<1> QED BY <1>1, <1>2, <1>4, <1>5, <1>6, <1>8 DEF k, x, y

(* The rule applied to such a window.                                      *)
LEMMA SpikeByRule ==
  ASSUME NEW sample \in Seq(Nat), NEW v \in Nat, Len(sample) >= 2,
         sample[Len(sample)] = v,
         \A i \in 1 .. Len(sample) - 1 : sample[i] = sample[1] /\ sample[i] # v
  PROVE  LET n == Len(sample)
         IN Deviates(v, sample) <=> (n - 1) * (n - 1) >= Threshold * Threshold * n
<1> DEFINE n == Len(sample)
           a == sample[1]
           S == SumOf(sample)
           Q == SumOfSquares(sample)
<1>1. n \in Nat /\ n >= 2 /\ a \in Nat /\ a # v /\ Threshold \in Nat
  BY DetectorAssumption
<1>2. S = (n - 1) * a + v /\ Q = (n - 1) * (a * a) + v * v
  BY <1>1, SteadySums
<1>3. Deviates(v, sample) <=>
        /\ n >= 2 /\ n * Q - S * S # 0
        /\ (n * v - S) * (n * v - S) * (n - 1)
             >= Threshold * Threshold * n * (n * Q - S * S)
  BY DEF Deviates
<1> HIDE DEF n, a, S, Q
<1>4. (/\ n * Q - S * S # 0
       /\ (n * v - S) * (n * v - S) * (n - 1) >= Threshold * Threshold * n * (n * Q - S * S))
      <=> (n - 1) * (n - 1) >= Threshold * Threshold * n
  <2> DEFINE T == Threshold
  <2>1. n \in Nat /\ n >= 2 /\ a \in Nat /\ v # a /\ T \in Nat
    BY <1>1
  <2> HIDE DEF T
  <2>2. /\ (/\ n * Q - S * S # 0
            /\ (n * v - S) * (n * v - S) * (n - 1) >= T * T * n * (n * Q - S * S))
           <=> (n - 1) * (n - 1) >= T * T * n
    BY <1>2, <2>1, SpikeArithmetic
  <2> QED BY <2>2 DEF T
<1> QED BY <1>1, <1>3, <1>4 DEF n

-----------------------------------------------------------------------------
LEMMA AnoInvHolds == AnoSpec => []AnoInv
BY AnoInitInv, AnoStepKeepsInv, PTL DEF AnoSpec

(* A caller that no other overtook judges by the latest values, in order   *)
(* (anomaly/detector.go 24-71, 106-160).                                   *)
THEOREM WindowHolds == AnoSpec => [](WindowIsRecent /\ AnoTypeOK)
<1>1. AnoInv => WindowIsRecent
  <2> SUFFICES ASSUME AnoInv PROVE WindowIsRecent
    OBVIOUS
  <2>1. AnoTypes /\ SlotsCounted /\ EnoughToJudge /\ OneByOne
    BY DEF AnoInv
  <2>2. Len(added) \in Nat /\ MinDataPoints \in Nat
    BY <2>1, DetectorAssumption DEF AnoTypes
  <2>3. WindowLen <= Len(added) /\ (verdict # NoVerdict => Len(added) >= MinDataPoints)
    BY <2>1, <2>2, NoMoreThanCame DEF EnoughToJudge
  <2>4. ASSUME ~overlapped, \A o \in Observers : observer[o].at = "idle"
        PROVE  LET n == IF Len(added) < WindowSize THEN Len(added) ELSE WindowSize
               IN Contents(WindowLen) = SubSeq(added, Len(added) - n + 1, Len(added))
    BY <2>1, <2>4, SettledShowsLatest DEF OneByOne
  <2>5. ~overlapped => ~outOfRange
    BY <2>1 DEF OneByOne
  <2> QED BY <2>3, <2>4, <2>5 DEF WindowIsRecent
<1>2. AnoInv => AnoTypeOK
  BY DEF AnoInv, AnoTypes, AnoTypeOK, ObserverStates, Stages, Signal
<1> QED BY <1>1, <1>2, AnoInvHolds, PTL

(* Whatever its size, a step after a steady signal is an anomaly exactly   *)
(* when enough steady values came before it (anomaly/detector.go 106-160,  *)
(* 214-236).                                                               *)
THEOREM SpikeHolds == AnoSpec => []SteadyThenSpike
<1>1. AnoInv => SteadyThenSpike
  <2> SUFFICES ASSUME AnoInv,
                      Len(verdict.values) >= 2,
                      verdict.values[Len(verdict.values)] = verdict.v,
                      \A i \in 1 .. Len(verdict.values) - 1 :
                        /\ verdict.values[i] = verdict.values[1]
                        /\ verdict.values[i] # verdict.v
               PROVE  LET n == Len(verdict.values)
                      IN verdict.anomaly <=> (n - 1) * (n - 1) >= Threshold * Threshold * n
    BY DEF SteadyThenSpike
  <2>1. /\ verdict.values \in Seq(Signal) /\ verdict.v \in Signal
        /\ verdict.anomaly <=> Deviates(verdict.v, verdict.values)
    BY DEF AnoInv, JudgedByRule
  <2>2. Signal \subseteq Nat
    BY DetectorAssumption DEF Signal
  <2>3. verdict.values \in Seq(Nat) /\ verdict.v \in Nat
    <3> DEFINE vs == verdict.values
    <3>1. vs \in Seq(Signal)
      BY <2>1
    <3> HIDE DEF Signal, vs
    <3>2. vs \in Seq(Nat)
      BY <2>2, <3>1, WiderSeq
    <3> QED BY <2>1, <2>2, <3>2 DEF vs
  <2> QED BY <2>1, <2>3, SpikeByRule
<1> QED BY <1>1, AnoInvHolds, PTL

-----------------------------------------------------------------------------
(* The capacity planner.                                                   *)

(* Points recorded by some time.                                           *)
PointsUpTo(time) == [at : 0 .. time, v : Utilisations]

CapTypes ==
  /\ capNow \in 0 .. MaxCapTime
  /\ recorded \in Seq(PointsUpTo(capNow)) /\ points \in Seq(PointsUpTo(capNow))
  /\ forecast \in {"idle", "checked", "made"}
  /\ forecastRan \in BOOLEAN
  /\ advice \in {"none", "scale_down", "scale_up"}

(* Points come in the order of time.                                       *)
InOrder == \A i, j \in 1 .. Len(recorded) : i <= j => recorded[i].at <= recorded[j].at

(* The series begins after the first k of the recorded points.             *)
BeginsAfter(k, series, all) ==
  /\ Len(series) = Len(all) - k
  /\ \A i \in 1 .. Len(series) : series[i] = all[k + i]

(* The first k points are those that had expired when the last one came.   *)
Expired(k, all) ==
  \A i \in 1 .. Len(all) : all[Len(all)].at - all[i].at < DataRetention <=> i > k

CapInv ==
  /\ CapTypes /\ InOrder
  /\ \E k \in 0 .. Len(recorded) : BeginsAfter(k, points, recorded) /\ Expired(k, recorded)

LEMMA CapInitInv == CapInit => CapInv
<1> SUFFICES ASSUME CapInit PROVE CapInv
  OBVIOUS
<1>1. /\ recorded = <<>> /\ points = <<>> /\ Len(<<>>) = 0
      /\ \A S : <<>> \in Seq(S)
  BY DEF CapInit
<1>2. CapTypes
  <2>1. capNow \in 0 .. MaxCapTime
    BY CapacityAssumption DEF CapInit
  <2> QED BY <1>1, <2>1 DEF CapInit, CapTypes
<1>3. InOrder
  BY <1>1 DEF InOrder
<1>4. BeginsAfter(0, points, recorded) /\ Expired(0, recorded) /\ 0 \in 0 .. Len(recorded)
  BY <1>1 DEF BeginsAfter, Expired
<1> QED BY <1>2, <1>3, <1>4 DEF CapInv

(* The first place of a list that passes a test.                           *)
LEMMA FirstPlace ==
  ASSUME NEW n \in Nat, NEW I \in SUBSET (1 .. n), I # {}
  PROVE  Min(I) \in I /\ \A i \in I : Min(I) <= i
<1>1. I \in SUBSET Nat
  BY SMT
<1>2. PICK x \in I : \A y \in I : x <= y
  BY <1>1, LeastNumber
<1> QED BY <1>2, Zenon DEF Min

LEMMA RecordKeepsInv == ASSUME CapInv, NEW v \in Utilisations, RecordMetric(v) PROVE CapInv'
<1> DEFINE pt == [at |-> capNow, v |-> v]
           n == Len(recorded)
           P == PointsUpTo(capNow)
           pts == Append(points, pt)
           m == Len(points)
           I == {i \in 1 .. m + 1 : Fresh(pts[i])}
           j == Min(I)
<1>1. /\ points' = Trimmed(pts) /\ recorded' = Append(recorded, pt)
      /\ advice' = "none" /\ UNCHANGED <<capNow, forecast, values, forecastRan>>
  BY DEF RecordMetric
<1>2. CapTypes /\ InOrder /\ capNow \in Nat /\ DataRetention \in Nat \ {0}
  BY CapacityAssumption DEF CapInv, CapTypes
<1>3. PICK k \in 0 .. n : BeginsAfter(k, points, recorded) /\ Expired(k, recorded)
  BY DEF CapInv
<1>4. recorded \in Seq(P) /\ points \in Seq(P) /\ pt \in P
  BY <1>2 DEF CapTypes, PointsUpTo
<1>5. pt.at = capNow /\ \A q \in P : q.at \in 0 .. capNow
  BY DEF PointsUpTo
<1> HIDE DEF P, pt
<1>6. /\ recorded' \in Seq(P) /\ n \in Nat /\ Len(recorded') = n + 1 /\ recorded'[n + 1] = pt
      /\ \A i \in 1 .. n : recorded'[i] = recorded[i] /\ recorded[i] \in P
      /\ \A i \in 1 .. n + 1 : recorded'[i] \in P
  BY <1>1, <1>4
<1>7. /\ pts \in Seq(P) /\ m \in Nat /\ Len(pts) = m + 1 /\ pts[m + 1] = pt
      /\ \A i \in 1 .. m : pts[i] = points[i]
  BY <1>4
<1>8. m = n - k /\ k \in 0 .. n /\ \A i \in 1 .. m : points[i] = recorded[k + i]
  BY <1>3 DEF BeginsAfter
<1> HIDE DEF n, m, pts
<1>9. ASSUME NEW i \in 1 .. m + 1 PROVE pts[i] = recorded'[k + i] /\ k + i \in 1 .. n + 1
  <2>1. CASE i = m + 1
    BY <1>6, <1>7, <1>8, <2>1
  <2>2. CASE i \in 1 .. m
    <3>1. k + i \in 1 .. n
      BY <1>6, <1>7, <1>8, <2>2
    <3> QED BY <1>6, <1>7, <1>8, <2>2, <3>1
  <2> QED BY <1>7, <2>1, <2>2
<1>10. j \in I /\ \A i \in I : j <= i
  <2>1. m + 1 \in I
    BY <1>2, <1>5, <1>7 DEF Fresh
  <2>2. I \in SUBSET (1 .. m + 1) /\ m + 1 \in Nat
    BY <1>7
  <2> HIDE DEF I
  <2> QED BY <2>1, <2>2, FirstPlace
<1>11. points' = SubSeq(pts, j, m + 1)
  <2>1. SelectInSeq(pts, Fresh) = j
    BY <1>7, <1>10 DEF SelectInSeq
  <2> QED BY <1>1, <1>7, <2>1 DEF Trimmed
<1> HIDE DEF j
<1>12. j \in 1 .. m + 1 /\ Fresh(pts[j]) /\ \A i \in 1 .. j - 1 : ~Fresh(pts[i])
  <2>1. j \in 1 .. m + 1 /\ Fresh(pts[j])
    BY <1>10
  <2>2. ASSUME NEW i \in 1 .. j - 1 PROVE ~Fresh(pts[i])
    <3>1. i \in 1 .. m + 1 /\ ~(j <= i)
      BY <1>7, <2>1
    <3> QED BY <1>10, <3>1
  <2> QED BY <2>1, <2>2
<1> HIDE DEF I
<1>13. /\ points' \in Seq(P) /\ Len(points') = m + 1 - j + 1
       /\ \A i \in 1 .. m + 1 - j + 1 : points'[i] = pts[j + i - 1]
  BY <1>7, <1>11, <1>12
<1>14. InOrder'
  <2> SUFFICES ASSUME NEW a \in 1 .. n + 1, NEW b \in 1 .. n + 1, a <= b
               PROVE  recorded'[a].at <= recorded'[b].at
    BY <1>6 DEF InOrder
  <2>1. recorded'[a].at \in 0 .. capNow
    BY <1>5, <1>6
  <2>2. CASE b = n + 1
    BY <1>2, <1>5, <1>6, <2>1, <2>2
  <2>3. CASE b \in 1 .. n
    <3>1. a \in 1 .. n
      BY <1>6, <2>3
    <3> QED BY <1>2, <1>6, <2>3, <3>1 DEF InOrder, n
  <2> QED BY <1>6, <2>2, <2>3
<1> DEFINE l == k + j - 1
<1>15. l \in 0 .. n + 1 /\ BeginsAfter(l, points', recorded')
  <2>1. l \in 0 .. n + 1 /\ Len(points') = Len(recorded') - l
    BY <1>6, <1>7, <1>8, <1>12, <1>13
  <2>2. ASSUME NEW i \in 1 .. m + 1 - j + 1 PROVE points'[i] = recorded'[l + i]
    <3>1. j + i - 1 \in 1 .. m + 1 /\ k + (j + i - 1) = l + i
      BY <1>7, <1>8, <1>12
    <3> QED BY <1>9, <1>13, <3>1
  <2> QED BY <1>13, <2>1, <2>2 DEF BeginsAfter
<1>16. Expired(l, recorded')
  <2> SUFFICES ASSUME NEW i \in 1 .. n + 1
               PROVE  capNow - recorded'[i].at < DataRetention <=> i > l
    BY <1>5, <1>6 DEF Expired
  <2>1. recorded'[i].at \in 0 .. capNow /\ k \in Nat /\ j \in Nat
    BY <1>5, <1>6, <1>8, <1>7, <1>12
  <2>2. CASE i <= k
    <3>1. i \in 1 .. n /\ n \in 1 .. n /\ ~(i > l)
      BY <1>6, <1>7, <1>8, <1>12, <2>2
    <3>2. ~(recorded[n].at - recorded[i].at < DataRetention)
      BY <1>3, <2>1, <2>2, <3>1 DEF Expired, n
    <3>3. recorded[n].at \in 0 .. capNow /\ recorded'[i] = recorded[i]
      BY <1>5, <1>6, <3>1
    <3> QED BY <1>2, <2>1, <3>1, <3>2, <3>3
  <2>3. CASE i > k /\ i <= l
    <3>1. i - k \in 1 .. j - 1 /\ i - k \in 1 .. m + 1 /\ k + (i - k) = i
      BY <1>6, <1>7, <1>8, <1>12, <2>1, <2>3
    <3>2. ~Fresh(recorded'[i])
      BY <1>9, <1>12, <3>1
    <3> QED BY <1>8, <1>12, <2>1, <2>3, <3>2 DEF Fresh
  <2>4. CASE i > l
    <3>1. k + j \in 1 .. n + 1 /\ k + j <= i
      BY <1>6, <1>7, <1>8, <1>12, <2>1, <2>4
    <3>2. Fresh(recorded'[k + j])
      BY <1>9, <1>12
    <3>3. recorded'[k + j].at <= recorded'[i].at
      BY <1>6, <1>14, <3>1 DEF InOrder
    <3>4. recorded'[k + j].at \in 0 .. capNow
      BY <1>5, <1>6, <3>1
    <3> QED BY <1>2, <2>1, <2>4, <3>2, <3>3, <3>4 DEF Fresh
  <2> QED BY <2>1, <2>2, <2>3, <2>4
<1>17. CapTypes'
  BY <1>1, <1>2, <1>6, <1>13 DEF CapTypes, P
<1> HIDE DEF l
<1> QED BY <1>6, <1>14, <1>15, <1>16, <1>17 DEF CapInv

LEMMA TickKeepsInv == ASSUME CapInv, CapTick PROVE CapInv'
<1>1. /\ CapTypes /\ InOrder /\ capNow < MaxCapTime /\ capNow' = capNow + 1
      /\ UNCHANGED <<points, recorded, forecast, values, forecastRan, advice>>
      /\ MaxCapTime \in Nat
  BY CapacityAssumption DEF CapInv, CapTick
<1>2. capNow' \in 0 .. MaxCapTime
  BY <1>1 DEF CapTypes
<1>3. PointsUpTo(capNow) \subseteq PointsUpTo(capNow')
  <2> SUFFICES ASSUME NEW q \in PointsUpTo(capNow) PROVE q \in PointsUpTo(capNow')
    OBVIOUS
  <2>1. capNow \in Nat
    BY <1>1 DEF CapTypes
  <2> QED BY <1>1, <2>1 DEF PointsUpTo
<1>4. recorded' \in Seq(PointsUpTo(capNow')) /\ points' \in Seq(PointsUpTo(capNow'))
  <2> HIDE DEF PointsUpTo
  <2>1. recorded \in Seq(PointsUpTo(capNow)) /\ points \in Seq(PointsUpTo(capNow))
    BY <1>1 DEF CapTypes
  <2> QED BY <1>1, <1>3, <2>1
<1>5. CapTypes'
  BY <1>1, <1>2, <1>4 DEF CapTypes
<1> QED BY <1>1, <1>5 DEF CapInv, InOrder

LEMMA CapStepKeepsInv == CapInv /\ [CapNext]_capVars => CapInv'
<1> SUFFICES ASSUME CapInv, [CapNext]_capVars PROVE CapInv'
  OBVIOUS
<1>1. CapTypes
  BY DEF CapInv
<1>2. ASSUME UNCHANGED seriesVars, CapTypes' PROVE CapInv'
  BY <1>2 DEF CapInv, seriesVars, InOrder
<1>3. CASE UNCHANGED capVars
  BY <1>1, <1>2, <1>3 DEF capVars, seriesVars, CapTypes
<1>4. CASE ForecastChecks
  BY <1>1, <1>2, <1>4 DEF ForecastChecks, seriesVars, CapTypes
<1>5. CASE ForecastMakes
  BY <1>1, <1>2, <1>5 DEF ForecastMakes, seriesVars, CapTypes
<1>6. CASE ForecastCopies
  BY <1>1, <1>2, <1>6 DEF ForecastCopies, seriesVars, CapTypes
<1>7. CASE Recommends
  BY <1>1, <1>2, <1>7 DEF Recommends, seriesVars, CapTypes
<1> QED BY <1>3, <1>4, <1>5, <1>6, <1>7, TickKeepsInv, RecordKeepsInv DEF CapNext

(* The series has every point of the last DataRetention, none that had     *)
(* expired when the last one came, in order (planner.go 93-141).           *)
THEOREM RetentionHolds == CapSpec => [](RetentionExact /\ CapTypeOK)
<1>1. CapInv => RetentionExact
  <2> SUFFICES ASSUME CapInv PROVE RetentionExact
    OBVIOUS
  <2> DEFINE n == Len(recorded)
             P == PointsUpTo(capNow)
  <2>1. recorded \in Seq(P) /\ points \in Seq(P)
    BY DEF CapInv, CapTypes
  <2>2. PICK k \in 0 .. n : BeginsAfter(k, points, recorded) /\ Expired(k, recorded)
    BY DEF CapInv
  <2> HIDE DEF P
  <2>3. points = SubSeq(recorded, k + 1, n)
    <3>1. /\ n \in Nat /\ Len(points) = n - k
          /\ \A i \in 1 .. n - k : points[i] = recorded[k + i]
      BY <2>1, <2>2 DEF BeginsAfter
    <3>2. points = [i \in 1 .. n - k |-> points[i]]
      BY <2>1, <3>1
    <3>3. SubSeq(recorded, k + 1, n) = [i \in 1 .. n - k |-> recorded[k + i]]
      <4>1. SubSeq(recorded, k + 1, n) = [i \in 1 .. (1 + n - (k + 1)) |-> recorded[i + (k + 1) - 1]]
        BY <2>1, <2>2, <3>1
      <4>2. 1 + n - (k + 1) = n - k /\ \A i \in 1 .. n - k : i + (k + 1) - 1 = k + i
        BY <2>2, <3>1
      <4> QED BY <4>1, <4>2
    <3> QED BY <3>1, <3>2, <3>3
  <2> QED BY <2>2, <2>3 DEF RetentionExact, Expired
<1>2. CapInv => CapTypeOK
  <2> SUFFICES ASSUME CapInv PROVE CapTypeOK
    OBVIOUS
  <2>1. CapTypes
    BY DEF CapInv
  <2>2. \A i \in 1 .. Len(points) : points[i] \in [at : 0 .. capNow, v : Utilisations]
    <3>1. points \in Seq(PointsUpTo(capNow))
      BY <2>1 DEF CapTypes
    <3>2. \A i \in 1 .. Len(points) : points[i] \in PointsUpTo(capNow)
      BY <3>1
    <3> QED BY <3>2 DEF PointsUpTo
  <2> QED BY <2>1, <2>2 DEF CapTypes, CapTypeOK
<1> QED BY <1>1, <1>2, CapInitInv, CapStepKeepsInv, PTL DEF CapSpec

-----------------------------------------------------------------------------
(* All parts together.                                                     *)

(* A behaviour of the run is one of each of its parts.                     *)
LEMMA PartsBehave ==
  MCSpec =>
    /\ Spec /\ AggSpec /\ LagSpec /\ AnoSpec /\ CapSpec /\ DepSpec
    /\ BookSpec /\ BusSpec /\ RateSpec /\ AuditSpec /\ SecretsSpec /\ PolicySpec
<1> DEFINE everything == <<part, vars, aggVars, lagVars, anoVars, capVars, depVars, bookVars,
                           busVars, rateVars, auditVars, secretVars, policyVars>>
<1>1. MCInit =>
        /\ Init /\ AggInit /\ LagInit /\ AnoInit /\ CapInit /\ DepInit
        /\ BookInit /\ BusInit /\ RateInit /\ AuditInit /\ SecretsInit /\ PolicyInit
  BY Zenon DEF MCInit
<1>2. [MCNext]_everything =>
        /\ [Next]_vars /\ [AggNext]_aggVars /\ [LagNext]_lagVars /\ [AnoNext]_anoVars
        /\ [CapNext]_capVars /\ [DepNext]_depVars /\ [BookNext]_bookVars /\ [BusNext]_busVars
        /\ [RateNext]_rateVars /\ [AuditNext]_auditVars /\ [SecretsNext]_secretVars
        /\ [PolicyNext]_policyVars
  BY Zenon DEF MCNext
<1> QED BY <1>1, <1>2, PTL DEF MCSpec, Spec, AggSpec, LagSpec, AnoSpec, CapSpec, DepSpec,
           BookSpec, BusSpec, RateSpec, AuditSpec, SecretsSpec, PolicySpec

(* The state of every part of which only safety is asked has its types.    *)
THEOREM AlwaysTypesHold == MCSpec => []AlwaysTypeOK
<1>1. AuditInv => AuditTypeOK
  BY AuditAssumption DEF AuditInv, AuditTypes, MemoryIsLatest, AuditTypeOK
<1>2. DepInv => DepTypeOK
  BY DEF DepInv, GraphTypes, DepTypeOK
<1>3. AuditSpec => []AuditInv
  BY AuditInitInv, AuditStepKeepsInv, PTL DEF AuditSpec
<1>4. DepSpec => []DepInv
  BY DepInitInv, DepStepKeepsInv, PTL DEF DepSpec
<1>5. /\ TypeOK /\ AggTypeOK /\ LagTypeOK /\ AnoTypeOK /\ CapTypeOK /\ DepTypeOK
      /\ BookTypeOK /\ BusTypeOK /\ RateTypeOK /\ AuditTypeOK /\ SecretsTypeOK /\ PolicyTypeOK
      => AlwaysTypeOK
  BY DEF AlwaysTypeOK
<1> QED BY <1>1, <1>2, <1>3, <1>4, <1>5, PartsBehave, TypeCorrectness, AggTypesHold, LagHolds,
           WindowHolds, RetentionHolds, RunbookResultsHold, BusTypesHold, RateTypesHold,
           SecretsTypesHold, PolicyTypesHold, PTL
=============================================================================

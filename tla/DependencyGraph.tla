--------------------------- MODULE DependencyGraph ---------------------------
(***************************************************************************)
(* The dependency graph of the root cause analyzer                         *)
(* (intelligence/rootcause/graph.go) and its three walks, which range over *)
(* maps and so visit neighbours in any order: ImpactAnalysis and           *)
(* CausalChain, depth first, and TopologicalSort.  A walk holds the read   *)
(* lock throughout, so no operation changes the graph under it.            *)
(*                                                                         *)
(* dependsOn is the set of edges; a pair (a, b) says that a depends on b.  *)
(***************************************************************************)
EXTENDS Naturals, Sequences, FiniteSets, SequencesExt

CONSTANTS
  Services,
  Failing,      \* the services isHealthy denies; the agent's denies none
  MaxEdits      \* bound on the changes of the graph

ASSUME GraphAssumption ==
  IsFiniteSet(Services) /\ Failing \subseteq Services /\ MaxEdits \in Nat

VARIABLES
  nodes, dependsOn,
  edits,
  walk,      \* the walk under way, or "none"
  origin,    \* the service it was called for
  path,      \* the calls of dfs that have not returned, or the queue
  visited,
  answer,    \* the result so far
  inDegree

graphVars == <<nodes, dependsOn, edits>>
walkVars  == <<walk, origin, path, visited, answer, inDegree>>
depVars   == <<graphVars, walkVars>>

NoService == "none"
NoDegrees == [s \in Services |-> 0]

DepInit ==
  /\ nodes = {}
  /\ dependsOn = {}
  /\ edits = 0
  /\ walk = "none"
  /\ origin = NoService
  /\ path = <<>>
  /\ visited = {}
  /\ answer = <<>>
  /\ inDegree = NoDegrees

Edit == walk = "none" /\ edits < MaxEdits /\ edits' = edits + 1 /\ UNCHANGED walkVars

AddNode(s) == Edit /\ nodes' = nodes \cup {s} /\ UNCHANGED dependsOn

AddEdge(a, b) ==
  /\ Edit
  /\ {a, b} \subseteq nodes
  /\ dependsOn' = dependsOn \cup {<<a, b>>}
  /\ UNCHANGED nodes

RemoveEdge(a, b) ==
  /\ Edit
  /\ dependsOn' = dependsOn \ {<<a, b>>}
  /\ UNCHANGED nodes

-----------------------------------------------------------------------------
(* The services a walk goes on to from s.                                  *)
Onwards(s) ==
  IF walk = "impact" THEN {a \in nodes : <<a, s>> \in dependsOn}
  ELSE {b \in nodes : <<s, b>> \in dependsOn}

ChainOf(s) == IF s \in Failing THEN <<s>> ELSE <<>>

(* dfs(failedService): the service may be unknown to the graph.            *)
BeginsWalk(kind, s) ==
  /\ walk = "none"
  /\ walk' = kind
  /\ origin' = s
  /\ path' = <<s>>
  /\ visited' = {s}
  /\ answer' = IF kind = "chain" THEN ChainOf(s) ELSE <<>>
  /\ UNCHANGED <<graphVars, inDegree>>

Descends(s) ==
  /\ walk \in {"impact", "chain"}
  /\ path # <<>>
  /\ s \in Onwards(Last(path)) \ visited
  /\ path' = Append(path, s)
  /\ visited' = visited \cup {s}
  /\ answer' = answer \o (IF walk = "impact" THEN <<s>> ELSE ChainOf(s))
  /\ UNCHANGED <<graphVars, walk, origin, inDegree>>

(* A slip: a walk that gives up where it meets a healthy service.          *)
ReturnsEarly ==
  /\ walk \in {"impact", "chain"}
  /\ path # <<>>
  /\ \/ Onwards(Last(path)) \ visited = {}
     \/ walk = "chain" /\ Last(path) \notin Failing
  /\ path' = Front(path)
  /\ UNCHANGED <<graphVars, walk, origin, visited, answer, inDegree>>

Ascends ==
  /\ walk \in {"impact", "chain"}
  /\ path # <<>>
  /\ Onwards(Last(path)) \ visited = {}
  /\ path' = Front(path)
  /\ UNCHANGED <<graphVars, walk, origin, visited, answer, inDegree>>

(* TopologicalSort: the queue starts with what nothing depends on, in any  *)
(* order.                                                                  *)
DegreeOf(s) == Cardinality({a \in nodes : <<a, s>> \in dependsOn})

BeginsSort ==
  /\ walk = "none"
  /\ walk' = "sort"
  /\ inDegree' = [s \in Services |-> DegreeOf(s)]
  /\ path' \in SetToSeqs({s \in nodes : DegreeOf(s) = 0})
  /\ answer' = <<>>
  /\ UNCHANGED <<graphVars, origin, visited>>

TakesNext ==
  /\ walk = "sort"
  /\ path # <<>>
  /\ answer' = Append(answer, Head(path))
  /\ LET freed == {b \in nodes : <<Head(path), b>> \in dependsOn /\ inDegree[b] = 1}
     IN \E order \in SetToSeqs(freed) : path' = Tail(path) \o order
  /\ inDegree' = [b \in Services |->
                    IF <<Head(path), b>> \in dependsOn THEN inDegree[b] - 1
                    ELSE inDegree[b]]
  /\ UNCHANGED <<graphVars, walk, origin, visited>>

(* The caller has its answer.                                              *)
EndsWalk ==
  /\ walk # "none"
  /\ path = <<>>
  /\ walk' = "none"
  /\ origin' = NoService
  /\ visited' = {}
  /\ answer' = <<>>
  /\ inDegree' = NoDegrees
  /\ UNCHANGED <<graphVars, path>>

DepNext ==
  \/ \E s \in Services : AddNode(s) \/ Descends(s)
  \/ \E a, b \in Services : AddEdge(a, b) \/ RemoveEdge(a, b)
  \/ \E s \in Services : BeginsWalk("impact", s) \/ BeginsWalk("chain", s)
  \/ Ascends \/ BeginsSort \/ TakesNext \/ EndsWalk

DepSpec == DepInit /\ [][DepNext]_depVars

-----------------------------------------------------------------------------
(* The graph's state has its types.                                        *)
DepTypeOK ==
  /\ nodes \subseteq Services
  /\ dependsOn \subseteq nodes \X nodes
  /\ walk \in {"none", "impact", "chain", "sort"}
  /\ visited \subseteq Services
  /\ inDegree \in [Services -> Nat]

(* b is in every set that a's dependencies, and with a service its         *)
(* dependencies, are in.                                                   *)
Reaches(a, b) ==
  \A closed \in SUBSET Services :
    (\A e \in dependsOn : e[1] \in closed \cup {a} => e[2] \in closed) => b \in closed

(* A finished walk answers its question whatever order the maps were       *)
(* ranged in, with cycles, self-dependencies and unknown services: the     *)
(* services a failure affects, each once; the failing services a service   *)
(* rests on, however many healthy ones lie between; and an order of all    *)
(* nodes in which dependents come before what they depend on, exactly if   *)
(* there is no cycle (graph.go 97-194).                                    *)
WalksAreExact ==
  (walk # "none" /\ path = <<>>) =>
    /\ IsInjective(answer)
    /\ walk = "impact" =>
         ToSet(answer) = {s \in Services \ {origin} : Reaches(s, origin)}
    /\ walk = "chain" =>
         ToSet(answer) = {s \in Failing : s = origin \/ Reaches(origin, s)}
    /\ walk = "sort" =>
         /\ (Len(answer) = Cardinality(nodes)) <=> (\A s \in Services : ~Reaches(s, s))
         /\ \A i, j \in 1 .. Len(answer) :
              <<answer[i], answer[j]>> \in dependsOn => i < j
=============================================================================

-------------------------- MODULE ContractMapProofs --------------------------
(* Proofs about the contract mapper, for every repository: the search from  *)
(* a handler finds what the handler reaches, and no flow is missed.         *)
EXTENDS ContractMap, FiniteSetTheorems, SequenceTheorems, WellFoundedInduction, TLAPS

USE ContractMapAssumption

(***************************************************************************)
(* Sequences of calls.                                                     *)
(***************************************************************************)
(* The files to read form a sequence.                                       *)
LEMMA OrderIsSeq ==
  ASSUME NEW D, NEW S \in SUBSET D, IsFiniteSet(D), NEW s \in Orders(S)
  PROVE  s \in Seq(D) /\ Range(s) = S
<1>1. Cardinality(S) \in Nat
  BY FS_Subset, FS_CardinalityType
<1> QED BY <1>1 DEF Orders

(* What is left of the work list after its first function.                  *)
LEMMA RangeOfRest ==
  ASSUME NEW D, NEW q \in Seq(D), q # <<>>, NEW s \in Seq(D)
  PROVE  /\ Head(q) \in D /\ Tail(q) \in Seq(D) /\ Tail(q) \o s \in Seq(D)
         /\ Range(q) = {Head(q)} \cup Range(Tail(q))
         /\ Range(Tail(q) \o s) = Range(Tail(q)) \cup Range(s)
<1> DEFINE t == Tail(q)
<1>1. /\ Head(q) \in D /\ t \in Seq(D) /\ Len(t) = Len(q) - 1
      /\ \A i \in 1..Len(t) : t[i] = q[i + 1]
      /\ Head(q) = q[1] /\ Len(q) \in Nat \ {0} /\ DOMAIN q = 1..Len(q) /\ DOMAIN t = 1..Len(t)
  BY HeadTailProperties, EmptySeq, LenProperties
<1> HIDE DEF t
<1>2. Range(q) = {Head(q)} \cup Range(t)
  <2>1. \A i \in DOMAIN q : q[i] = Head(q) \/ (i - 1 \in DOMAIN t /\ q[i] = t[i - 1])
    BY <1>1
  <2>2. \A i \in DOMAIN t : i + 1 \in DOMAIN q /\ t[i] = q[i + 1]
    BY <1>1
  <2>3. 1 \in DOMAIN q
    BY <1>1
  <2>4. ASSUME NEW i \in DOMAIN q PROVE q[i] \in {Head(q)} \cup {t[j] : j \in DOMAIN t}
    BY <2>1
  <2>5. ASSUME NEW i \in DOMAIN t PROVE t[i] \in {q[j] : j \in DOMAIN q}
    BY <2>2
  <2>6. Head(q) \in {q[j] : j \in DOMAIN q}
    BY <1>1, <2>3
  <2> QED BY <2>4, <2>5, <2>6 DEF Range
<1>3. /\ t \o s \in Seq(D) /\ DOMAIN (t \o s) = 1..(Len(t) + Len(s))
      /\ \A i \in 1..(Len(t) + Len(s)) : (t \o s)[i] = IF i <= Len(t) THEN t[i] ELSE s[i - Len(t)]
      /\ DOMAIN s = 1..Len(s) /\ Len(s) \in Nat /\ Len(t) \in Nat
  BY <1>1, ConcatProperties, LenProperties
<1>4. Range(t \o s) = Range(t) \cup Range(s)
  <2>1. \A i \in DOMAIN (t \o s) : \/ i \in DOMAIN t /\ (t \o s)[i] = t[i]
                                   \/ i - Len(t) \in DOMAIN s /\ (t \o s)[i] = s[i - Len(t)]
    BY <1>1, <1>3
  <2>2. \A i \in DOMAIN t : i \in DOMAIN (t \o s) /\ (t \o s)[i] = t[i]
    BY <1>1, <1>3
  <2>3. \A i \in DOMAIN s : i + Len(t) \in DOMAIN (t \o s) /\ (t \o s)[i + Len(t)] = s[i]
    BY <1>3
  <2> DEFINE u == t \o s
  <2> HIDE DEF u
  <2>4. ASSUME NEW i \in DOMAIN u PROVE u[i] \in {t[j] : j \in DOMAIN t} \cup {s[j] : j \in DOMAIN s}
    BY <2>1, <2>4 DEF u
  <2>5. ASSUME NEW i \in DOMAIN t PROVE t[i] \in {u[j] : j \in DOMAIN u}
    BY <2>2, <2>5 DEF u
  <2>6. ASSUME NEW i \in DOMAIN s PROVE s[i] \in {u[j] : j \in DOMAIN u}
    BY <2>3, <2>6 DEF u
  <2>7. {u[j] : j \in DOMAIN u} = {t[j] : j \in DOMAIN t} \cup {s[j] : j \in DOMAIN s}
    BY <2>4, <2>5, <2>6
  <2> QED BY <2>7 DEF Range, u
<1> QED BY <1>1, <1>2, <1>3, <1>4 DEF t

(***************************************************************************)
(* The search.                                                             *)
(***************************************************************************)
Ahead == seen \cup Range(queue)

(* Everything called by a function that was visited waits or was visited,   *)
(* and nothing waits that a closed set around the handler could leave out.  *)
SearchInv ==
  /\ root \in DOMAIN tree /\ queue \in Seq(DOMAIN tree) /\ seen \subseteq DOMAIN tree
  /\ root \in Ahead
  /\ \A f \in seen : Called(f) \subseteq Ahead
  /\ \A S \in SUBSET DOMAIN tree : root \in S /\ Closed(tree, S) => Ahead \subseteq S

IsTree(t) == \E path \in DOMAIN Trees : t \in Trees[path]

MapInv ==
  /\ status \in Seq({"ignored", "broken", "parsed"})
  /\ mapPC \in {"routes", "search"} => IsTree(tree) /\ pending \subseteq Handlers(tree)
  /\ mapPC = "search" => SearchInv /\ root \in pending

(* A round of the work list keeps the search invariant.                     *)
LEMMA VisitSearches ==
  ASSUME IsTree(tree), SearchInv, Visit
  PROVE  SearchInv'
<1> DEFINE D == DOMAIN tree
           f == Head(queue)
           called == Called(f) \ seen'
<1>1. IsFiniteSet(D)
  BY DEF IsTree
<1>2. queue # <<>> /\ queue \in Seq(D) /\ UNCHANGED <<tree, root>>
  BY DEF Visit, SearchInv
<1>3. /\ f \in D /\ Tail(queue) \in Seq(D) /\ Range(queue) = {f} \cup Range(Tail(queue))
      /\ \A s \in Seq(D) : Tail(queue) \o s \in Seq(D)
                           /\ Range(Tail(queue) \o s) = Range(Tail(queue)) \cup Range(s)
  <2>1. <<>> \in Seq(D)
    OBVIOUS
  <2> QED BY <1>2, <2>1, RangeOfRest
<1>4. \A g \in D : Called(g)' = Called(g) /\ Called(g) \subseteq D
  BY <1>2 DEF Called
<1>5. CASE f \in seen
  <2>1. queue' = Tail(queue) /\ seen' = seen
    BY <1>5 DEF Visit
  <2>2. Ahead' = Ahead
    BY <1>3, <1>5, <2>1 DEF Ahead
  <2> QED BY <1>2, <1>3, <1>4, <2>1, <2>2 DEF SearchInv
<1>6. CASE f \notin seen
  <2>1. PICK s \in Orders(called) : queue' = Tail(queue) \o s
    BY <1>6 DEF Visit
  <2>2. seen' = seen \cup {f}
    BY <1>6 DEF Visit
  <2>3. s \in Seq(D) /\ Range(s) = called
    BY <1>1, <1>3, <1>4, <2>1, OrderIsSeq
  <2>4. queue' \in Seq(D) /\ Range(queue') = Range(Tail(queue)) \cup called
    BY <1>3, <2>1, <2>3
  <2>5. Ahead' = Ahead \cup Called(f)
    BY <1>3, <2>2, <2>4 DEF Ahead
  <2>6. \A g \in seen' : Called(g) \subseteq Ahead'
    BY <2>2, <2>5 DEF SearchInv
  <2>7. ASSUME NEW S \in SUBSET D, root \in S, Closed(tree, S) PROVE Ahead' \subseteq S
    <3>1. Ahead \subseteq S
      BY <2>7 DEF SearchInv
    <3>2. f \in S
      BY <1>3, <3>1 DEF Ahead
    <3> QED BY <2>5, <2>7, <3>1, <3>2 DEF Closed, Called
  <2>8. seen' \subseteq D
    BY <1>3, <2>2 DEF SearchInv
  <2> QED BY <1>2, <1>4, <2>4, <2>5, <2>6, <2>7, <2>8 DEF SearchInv, Closed
<1> QED BY <1>5, <1>6

(* With nothing queued the seen functions are all that are reachable.       *)
LEMMA SearchEnds ==
  ASSUME SearchInv, queue = <<>>
  PROVE  seen = Reachable(tree, root)
<1>1. Range(queue) = {} /\ Ahead = seen
  BY DEF Ahead, Range
<1>2. seen \in SUBSET DOMAIN tree /\ root \in seen /\ Closed(tree, seen)
  BY <1>1 DEF SearchInv, Closed, Called
<1>3. \A S \in SUBSET DOMAIN tree : root \in S /\ Closed(tree, S) => seen \subseteq S
  BY <1>1 DEF SearchInv
<1> QED BY <1>2, <1>3 DEF Reachable

(* The mapper starts in the invariant.                                      *)
LEMMA InitMap == MapInit => MapInv
BY DEF MapInit, MapInv

(* Every step of the mapper keeps the invariant.                            *)
LEMMA StepMap == MapInv /\ [MapNext]_mapVars => MapInv'
<1> SUFFICES ASSUME MapInv, [MapNext]_mapVars PROVE MapInv'
  OBVIOUS
<1>1. CASE SkipFile
  BY <1>1 DEF SkipFile, MoreFiles, MapInv
<1>2. CASE ParseFile
  <2>1. status' \in Seq({"ignored", "broken", "parsed"}) /\ Len(status') \in 1..Len(PythonFiles)
    BY <1>2 DEF ParseFile, MoreFiles, MapInv
  <2>2. PythonFiles[Len(status')] \in DOMAIN Trees
    BY <2>1
  <2> QED BY <1>2, <2>1, <2>2 DEF ParseFile, MapInv, IsTree
<1>3. CASE StartSearch
  <2>1. PICK h \in pending : root' = h /\ queue' = <<h>>
    BY <1>3 DEF StartSearch
  <2>2. h \in DOMAIN tree /\ UNCHANGED <<status, tree, pending>> /\ seen' = {} /\ mapPC = "routes"
    BY <1>3 DEF StartSearch, MapInv, Handlers
  <2>3. <<h>> \in Seq(DOMAIN tree) /\ Range(<<h>>) = {h}
    BY <2>2 DEF Range
  <2>4. SearchInv'
    BY <2>1, <2>2, <2>3 DEF SearchInv, Ahead
  <2> QED BY <1>3, <2>1, <2>2, <2>4 DEF StartSearch, MapInv, Handlers
<1>4. CASE Visit
  <2>1. mapPC = "search" /\ UNCHANGED <<mapPC, status, tree, pending, root>>
    BY <1>4 DEF Visit
  <2>2. SearchInv'
    BY <1>4, <2>1, VisitSearches DEF MapInv
  <2> QED BY <2>1, <2>2 DEF MapInv, Handlers
<1>5. CASE RouteDone
  BY <1>5 DEF RouteDone, MapInv, Handlers
<1>6. CASE FileDone
  BY <1>6 DEF FileDone, NotSearching, MapInv
<1>7. CASE MapDone
  BY <1>7 DEF MapDone, NotSearching, MapInv
<1>8. CASE UNCHANGED mapVars
  BY <1>8 DEF mapVars, MapInv, SearchInv, Ahead, Called, Handlers
<1> QED BY <1>1, <1>2, <1>3, <1>4, <1>5, <1>6, <1>7, <1>8 DEF MapNext

(* The invariant of the mapper holds throughout.                            *)
LEMMA MapAlways == MapSpec => []MapInv
BY InitMap, StepMap, PTL DEF MapSpec

(* From every handler of every tree: cycles, shared helpers and calls that  *)
(* lead nowhere included.                                                   *)
THEOREM SearchIsExact == MapSpec => []SearchFindsCalled
<1>1. MapInv => SearchFindsCalled
  BY SearchEnds DEF MapInv, SearchFindsCalled
<1> QED BY <1>1, MapAlways, PTL

(* The functions of the file the search has not been at.                    *)
Unvisited == Cardinality(DOMAIN tree \ seen)

(* Every round of the search visits a function for the first time or makes  *)
(* the queue shorter: however the calls run in circles, the loop ends.      *)
SearchGoesOn ==
  mapPC = "search" /\ mapPC' = "search" =>
    \/ Unvisited' < Unvisited
    \/ Unvisited' = Unvisited /\ Len(queue') < Len(queue)

(* A round of the work list goes down in the order of SearchGoesOn, whose   *)
(* numbers are natural.                                                     *)
LEMMA VisitGoesOn ==
  ASSUME IsTree(tree), SearchInv, Visit
  PROVE  /\ Unvisited' < Unvisited \/ (Unvisited' = Unvisited /\ Len(queue') < Len(queue))
         /\ Unvisited' \in Nat /\ Len(queue') \in Nat
<1> DEFINE D == DOMAIN tree
           f == Head(queue)
<1>1. IsFiniteSet(D) /\ tree' = tree
  BY DEF IsTree, Visit
<1>2. queue # <<>> /\ queue \in Seq(D) /\ f \in D
  BY HeadTailProperties DEF Visit, SearchInv
<1>3. queue' \in Seq(D) /\ seen' \subseteq D
  BY <1>1, VisitSearches DEF SearchInv
<1>4. IsFiniteSet(D \ seen) /\ IsFiniteSet(D \ seen') /\ Unvisited' = Cardinality(D \ seen')
  BY <1>1, FS_Subset DEF Unvisited
<1>5. Unvisited \in Nat /\ Unvisited' \in Nat /\ Len(queue') \in Nat
  BY <1>3, <1>4, FS_CardinalityType, LenProperties DEF Unvisited
<1>6. CASE f \in seen
  <2>1. queue' = Tail(queue) /\ seen' = seen
    BY <1>6 DEF Visit
  <2>2. Unvisited' = Unvisited
    BY <1>4, <2>1 DEF Unvisited
  <2>3. Len(queue') = Len(queue) - 1 /\ Len(queue) \in Nat
    BY <1>2, <2>1, HeadTailProperties, LenProperties
  <2> QED BY <1>5, <2>2, <2>3
<1>7. CASE f \notin seen
  <2>1. seen' = seen \cup {f}
    BY <1>7 DEF Visit
  <2>2. D \ seen' = (D \ seen) \ {f} /\ f \in D \ seen
    BY <1>2, <1>7, <2>1
  <2>3. Cardinality(D \ seen') = Cardinality(D \ seen) - 1
    BY <1>4, <2>2, FS_RemoveElement
  <2>4. Unvisited' = Unvisited - 1
    BY <1>4, <2>3 DEF Unvisited
  <2> QED BY <1>5, <2>4
<1> QED BY <1>6, <1>7

(* The search from a handler ends, in any file: every round goes down in a  *)
(* well-founded order.                                                      *)
THEOREM SearchEndsAfterAll == MapSpec => [][SearchGoesOn]_mapVars
<1>1. ASSUME MapInv, MapNext PROVE SearchGoesOn
  <2> SUFFICES ASSUME mapPC = "search", mapPC' = "search" PROVE SearchGoesOn
    BY DEF SearchGoesOn
  <2>1. Visit
    BY <1>1 DEF MapNext, SkipFile, ParseFile, MoreFiles, StartSearch, RouteDone, FileDone, MapDone
  <2>2. IsTree(tree) /\ SearchInv
    BY <1>1 DEF MapInv
  <2> QED BY <2>1, <2>2, VisitGoesOn DEF SearchGoesOn
<1>2. MapInv /\ [MapNext]_mapVars => [SearchGoesOn]_mapVars
  BY <1>1
<1> QED BY <1>2, MapAlways, PTL DEF MapSpec

(***************************************************************************)
(* The flows.                                                              *)
(***************************************************************************)
FlowsFrom(t, h) == Candidates(RiskSignals(Facts(t, h, Reachable(t, h))), t[h].route)
ToCome == UNION {FlowsFrom(tree, h) : h \in pending}

FlowInv ==
  /\ mapPC \in {"files", "mapped"} => flows = AllCandidates
  /\ mapPC \in {"routes", "search"} => flows = AllCandidates \cup ToCome

(* The mapper starts with no flow.                                          *)
LEMMA InitFlow == MapInit => FlowInv
BY DEF MapInit, FlowInv, AllCandidates

(* A route that is finished adds its flows, all of them.                    *)
LEMMA StepFlow == MapInv /\ FlowInv /\ [MapNext]_mapVars => FlowInv'
<1> SUFFICES ASSUME MapInv, FlowInv, [MapNext]_mapVars PROVE FlowInv'
  OBVIOUS
<1>1. CASE SkipFile
  BY <1>1 DEF SkipFile, MoreFiles, FlowInv, AllCandidates
<1>2. CASE ParseFile
  <2>1. flows = AllCandidates /\ AllCandidates' = AllCandidates /\ mapPC' = "routes"
    BY <1>2 DEF ParseFile, MoreFiles, FlowInv, AllCandidates
  <2>2. flows' = flows \cup FlowsOf(tree') /\ pending' = Handlers(tree')
    BY <1>2 DEF ParseFile
  <2>3. ToCome' = FlowsOf(tree')
    BY <2>2 DEF ToCome, FlowsOf, FlowsFrom
  <2> QED BY <2>1, <2>2, <2>3 DEF FlowInv
<1>3. CASE StartSearch \/ Visit
  <2>1. UNCHANGED <<flows, routes, tree, pending>> /\ {mapPC, mapPC'} \subseteq {"routes", "search"}
    BY <1>3 DEF StartSearch, Visit
  <2>2. AllCandidates' = AllCandidates /\ ToCome' = ToCome
    BY <2>1 DEF AllCandidates, ToCome, FlowsFrom
  <2> QED BY <2>1, <2>2 DEF FlowInv
<1>4. CASE RouteDone
  <2>1. /\ flows' = flows /\ flows = AllCandidates \cup ToCome /\ mapPC' = "routes"
        /\ root \in pending /\ pending' = pending \ {root} /\ tree' = tree
    BY <1>4 DEF RouteDone, FlowInv, MapInv
  <2>2. seen = Reachable(tree, root)
    BY <1>4, SearchEnds DEF RouteDone, MapInv
  <2> DEFINE route == [place |-> tree[root].route, source |-> LastFile,
                       signals |-> RiskSignals(Facts(tree, root, seen))]
  <2>3. routes' = routes \cup {route}
    BY <1>4 DEF RouteDone
  <2>4. Candidates(route.signals, route.place) = FlowsFrom(tree, root)
    BY <2>2 DEF FlowsFrom
  <2> HIDE DEF route
  <2>5. AllCandidates' = AllCandidates \cup FlowsFrom(tree, root)
    BY <2>3, <2>4 DEF AllCandidates
  <2>6. ToCome = ToCome' \cup FlowsFrom(tree, root)
    BY <2>1 DEF ToCome
  <2> QED BY <2>1, <2>5, <2>6 DEF FlowInv
<1>5. CASE FileDone
  BY <1>5 DEF FileDone, FlowInv, ToCome, AllCandidates
<1>6. CASE MapDone
  BY <1>6 DEF MapDone, FlowInv, AllCandidates
<1>7. CASE UNCHANGED mapVars
  BY <1>7 DEF mapVars, FlowInv, AllCandidates, ToCome, FlowsFrom
<1> QED BY <1>1, <1>2, <1>3, <1>4, <1>5, <1>6, <1>7 DEF MapNext

(* The targets are chosen among all flows of the files that could be        *)
(* parsed, and among nothing else.                                          *)
NoFlowIsMissed == mapPC \in {"files", "mapped"} => AllCandidates = flows

(* Between two files the routes found raise exactly the flows parsed.       *)
THEOREM FlowsAreExact == MapSpec => []NoFlowIsMissed
<1>1. FlowInv => NoFlowIsMissed
  BY DEF FlowInv, NoFlowIsMissed
<1>2. MapInv /\ FlowInv /\ [MapNext]_mapVars => (MapInv /\ FlowInv)'
  BY StepMap, StepFlow
<1> QED BY <1>1, <1>2, InitMap, InitFlow, PTL DEF MapSpec

(***************************************************************************)
(* The ranking.                                                            *)
(***************************************************************************)
Less == {ss \in Nat \X Nat : ss[1] < ss[2]}

(* A set of numbers that is not empty has a least one.                      *)
LEMMA SmallestNumber ==
  ASSUME NEW T \in SUBSET Nat, T # {}
  PROVE  \E m \in T : \A n \in T : m <= n
<1>1. IsWellFoundedOn(Less, Nat)
  <2>1. OpToRel(<, Nat) = Less
    BY Zenon DEF OpToRel, Less
  <2> QED BY <2>1, NatLessThanWellFounded, Zenon
<1>2. PICK m \in T : \A n \in T : <<n, m>> \notin Less
  BY <1>1, WFMin
<1>3. \A n \in T : m \in Nat /\ n \in Nat /\ (m <= n \/ <<n, m>> \in Less)
  BY DEF Less
<1> QED BY <1>2, <1>3

Flows == (0..1) \X Nat

(* The class decides, then the place of the route.                          *)
LEMMA FirstIsFirst ==
  ASSUME NEW S \in SUBSET Flows, S # {}
  PROVE  /\ FirstOf(S) \in S
         /\ \A d \in S : d # FirstOf(S) => Precedes(FirstOf(S), d)
<1>1. ASSUME NEW class \in 0..1, NEW c \in S, c[1] = class, \A d \in S : class <= d[1]
      PROVE  \E first \in S : \A d \in S : d # first => Precedes(first, d)
  <2> DEFINE T == {d[2] : d \in {e \in S : e[1] = class}}
  <2>1. T \subseteq Nat /\ T # {}
    BY <1>1 DEF Flows
  <2>2. PICK m \in T : \A n \in T : m <= n
    <3> HIDE DEF T
    <3> QED BY <2>1, SmallestNumber
  <2>3. PICK first \in S : first[1] = class /\ first[2] = m
    OBVIOUS
  <2>4. ASSUME NEW d \in S, d # first PROVE Precedes(first, d)
    <3>1. /\ first = <<class, m>> /\ d = <<d[1], d[2]>>
          /\ class \in Int /\ d[1] \in Int /\ m \in Int /\ d[2] \in Int /\ class <= d[1]
      BY <1>1, <2>3 DEF Flows
    <3>2. CASE d[1] = class
      BY <2>2, <2>4, <3>1, <3>2 DEF Precedes
    <3>3. CASE d[1] # class
      BY <2>3, <3>1, <3>3 DEF Precedes
    <3> QED BY <3>2, <3>3
  <2> QED BY <2>4
<1>2. \E first \in S : \A d \in S : d # first => Precedes(first, d)
  <2>1. CASE \E c \in S : c[1] = 0
    <3>1. PICK c \in S : c[1] = 0
      BY <2>1
    <3>2. 0 \in 0..1 /\ \A d \in S : 0 <= d[1]
      BY DEF Flows
    <3> QED BY <1>1, <3>1, <3>2
  <2>2. CASE \A c \in S : c[1] # 0
    <3>1. \A c \in S : c[1] = 1
      BY <2>2 DEF Flows
    <3> QED BY <1>1, <3>1
  <2> QED BY <2>1, <2>2
<1> QED BY <1>2 DEF FirstOf

TargetInv ==
  /\ flows \subseteq Flows
  /\ mapPC = "mapped" => target = IF flows = {} THEN None ELSE FirstOf(flows)

(* The mapper starts without a target.                                      *)
LEMMA InitTarget == MapInit => TargetInv
BY DEF MapInit, TargetInv

(* The target is chosen when all flows are known.                           *)
LEMMA StepTarget == FlowInv /\ TargetInv /\ [MapNext]_mapVars => TargetInv'
<1> SUFFICES ASSUME FlowInv, TargetInv, [MapNext]_mapVars PROVE TargetInv'
  OBVIOUS
<1>1. CASE ParseFile
  <2>1. FlowsOf(tree') \subseteq Flows
    <3>1. PythonFiles[Len(status')] \in DOMAIN Trees
      BY <1>1 DEF ParseFile, MoreFiles, ContractMapAssumption
    <3>2. \A h \in Handlers(tree') : tree'[h].route \in Nat
      BY <1>1, <3>1 DEF ParseFile, Handlers, ContractMapAssumption
    <3> QED BY <3>2 DEF FlowsOf, Candidates, Flows
  <2> QED BY <1>1, <2>1 DEF ParseFile, TargetInv
<1>2. CASE MapDone
  BY <1>2 DEF MapDone, FlowInv, TargetInv
<1>3. CASE SkipFile \/ StartSearch \/ Visit \/ RouteDone \/ FileDone
  BY <1>3 DEF SkipFile, StartSearch, Visit, RouteDone, FileDone, MoreFiles, TargetInv
<1>4. CASE UNCHANGED mapVars
  BY <1>4 DEF mapVars, TargetInv
<1> QED BY <1>1, <1>2, <1>3, <1>4 DEF MapNext

(* The first of all flows is the worst one.                                 *)
LEMMA TargetInvIsWorst == TargetInv => TargetIsWorstFlow
<1> SUFFICES ASSUME TargetInv, mapPC = "mapped", flows # {}
             PROVE  /\ target \in flows
                    /\ \A c \in flows : target[1] < c[1] \/ (target[1] = c[1] /\ target[2] <= c[2])
  BY DEF TargetIsWorstFlow, TargetInv
<1>1. flows \in SUBSET Flows /\ target = FirstOf(flows)
  BY DEF TargetInv
<1>2. target \in flows /\ \A c \in flows : c # target => Precedes(target, c)
  BY <1>1, FirstIsFirst
<1> QED BY <1>1, <1>2 DEF Precedes, Flows

(* The plan aims at the worst flow of the repository, for every repository. *)
THEOREM TargetIsWorst == MapSpec => []TargetIsWorstFlow
<1>1. MapInv /\ FlowInv /\ TargetInv /\ [MapNext]_mapVars => (MapInv /\ FlowInv /\ TargetInv)'
  BY StepMap, StepFlow, StepTarget
<1> QED BY <1>1, TargetInvIsWorst, InitMap, InitFlow, InitTarget, PTL DEF MapSpec
=============================================================================

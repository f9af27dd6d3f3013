---------------------------- MODULE ContractMap ----------------------------
(***************************************************************************)
(* build_repository_map of contract/mapper.py, up to the target on which   *)
(* build_attack_plan of stateful/plan.py builds: the files are parsed one   *)
(* after the other; from every route handler the calls are followed within  *)
(* its file, and what the functions on the way do is attributed to the      *)
(* route.  What the repository contains is the choice of the environment.   *)
(***************************************************************************)
EXTENDS Naturals, Sequences, FiniteSets, Functions

CONSTANTS
  PythonFiles, \* the paths of repo.rglob("*.py"), sorted
  Trees,       \* Trees[path]: what ast.parse may return for it
  None

(* A tree maps the names of its module's functions to what the mapper sees  *)
(* of them: `route`, the place of the method and path of its decorator in   *)
(* the order of the map, or None; its parameters; the names it calls; what  *)
(* it does; and the names from which it computes money.                     *)
Deeds == {"if", "raise", "lock", "write", "effect", "volatile_effect",
          "idempotency", "webhook", "ownership"}

ASSUME ContractMapAssumption ==
  /\ PythonFiles \in Seq(DOMAIN Trees)
  /\ \A path \in DOMAIN Trees : \A t \in Trees[path] :
       /\ IsFiniteSet(DOMAIN t)
       /\ \A f \in DOMAIN t :
            /\ t[f].route # None => t[f].route \in Nat
            /\ t[f].does \subseteq Deeds
            /\ "volatile_effect" \in t[f].does => "effect" \in t[f].does

VARIABLES
  mapPC,    \* files | routes | search | mapped | used
  status,   \* of the files read so far: ignored | broken | parsed
  tree,     \* the tree of the last one
  pending,  \* its handlers still to be mapped
  root, queue, seen,  \* the search from one handler
  routes,   \* the contracts found
  target,   \* the first priority target
  flows     \* what a reader of the parsed files could have found

mapVars == <<mapPC, status, tree, pending, root, queue, seen, routes, target, flows>>

MapInit ==
  /\ mapPC = "files" /\ status = <<>> /\ tree = None /\ pending = {}
  /\ root = None /\ queue = <<>> /\ seen = {}
  /\ routes = {} /\ target = None /\ flows = {}

-----------------------------------------------------------------------------
Handlers(t) == {f \in DOMAIN t : t[f].route # None}

(* Money is the client's when it is read from a name that is a parameter of *)
(* the handler h, in whatever function of S.                                *)
ClientMoney(t, h, S) == \E f \in S : t[f].money \cap t[h].params # {}

(* _Facts of a route, over the functions S reached from its handler h.      *)
Facts(t, h, S) ==
  UNION {t[f].does : f \in S} \cup (IF ClientMoney(t, h, S) THEN {"client_money"} ELSE {})

(* _risk_signals.                                                           *)
RiskSignals(facts) ==
  LET raised ==
        [shared_state_transition |-> "write" \in facts,
         check_then_write_without_visible_lock |->
           {"write", "if"} \subseteq facts /\ "lock" \notin facts,
         external_side_effect |-> "effect" \in facts,
         partial_failure_or_retry_after_effect |-> {"effect", "raise"} \subseteq facts,
         unstable_external_effect_identity |-> "volatile_effect" \in facts,
         idempotency_identity |-> "idempotency" \in facts,
         webhook_replay_or_authenticity |-> "webhook" \in facts,
         resource_ownership |-> "ownership" \in facts,
         client_input_in_authoritative_total |-> {"effect", "client_money"} \subseteq facts]
  IN  {s \in DOMAIN raised : raised[s]}

(* A candidate of _priority_targets is the class of its signal and the      *)
(* place of its route.                                                      *)
TargetSignal == [class \in 0..1 |-> IF class = 0 THEN "unstable_external_effect_identity"
                                    ELSE "client_input_in_authoritative_total"]
Candidates(signals, place) == {<<class, place>> : class \in {c \in 0..1 : TargetSignal[c] \in signals}}

\* A mutant: the targets are in the order of the routes.
ByRoute(c, d) == c[2] < d[2] \/ (c[2] = d[2] /\ c[1] < d[1])
Precedes(c, d) == c[1] < d[1] \/ (c[1] = d[1] /\ c[2] < d[2])
FirstOf(S) == CHOOSE c \in S : \A d \in S : d # c => Precedes(c, d)

(* The reference: the functions a handler reaches are those in every set    *)
(* that has the handler and is closed under calls.                          *)
Closed(t, S) == \A f \in S : t[f].calls \cap DOMAIN t \subseteq S
Reachable(t, h) ==
  {g \in DOMAIN t : \A S \in SUBSET DOMAIN t : h \in S /\ Closed(t, S) => g \in S}
FlowsOf(t) ==
  UNION {Candidates(RiskSignals(Facts(t, h, Reachable(t, h))), t[h].route) : h \in Handlers(t)}

-----------------------------------------------------------------------------
MoreFiles == mapPC = "files" /\ Len(status) < Len(PythonFiles)
LastFile == PythonFiles[Len(status)]
NotSearching == UNCHANGED <<root, queue, seen>>

(* An ignored, large or undecodable file, or one that does not parse.       *)
SkipFile ==
  /\ MoreFiles /\ \E why \in {"ignored", "broken"} : status' = Append(status, why)
  /\ UNCHANGED <<mapPC, tree, pending, routes, target, flows>> /\ NotSearching

ParseFile ==
  /\ MoreFiles /\ status' = Append(status, "parsed")
  /\ tree' \in Trees[PythonFiles[Len(status')]]
  /\ mapPC' = "routes" /\ pending' = Handlers(tree')
  /\ flows' = flows \cup FlowsOf(tree')
  /\ UNCHANGED <<routes, target>> /\ NotSearching

(* _module_routes takes the handlers in the order of their definitions.     *)
StartSearch ==
  /\ mapPC = "routes" /\ mapPC' = "search"
  /\ \E h \in pending : root' = h /\ queue' = <<h>>
  /\ seen' = {} /\ UNCHANGED <<status, tree, pending, routes, target, flows>>

\* A mutant: only the calls of the handler itself are followed.
CalledByHandler(f) == IF f = root THEN tree[f].calls \cap DOMAIN tree ELSE {}
Called(f) == tree[f].calls \cap DOMAIN tree

(* sorted() of a set: its members, each once, in some order.                *)
Orders(S) == {s \in [1..Cardinality(S) -> S] : Range(s) = S}

(* One round of the loop of _reachable_functions.                           *)
Visit ==
  /\ mapPC = "search" /\ queue # <<>>
  /\ LET current == Head(queue)
     IN  \/ current \in seen /\ queue' = Tail(queue) /\ UNCHANGED seen
         \/ /\ current \notin seen /\ seen' = seen \cup {current}
            /\ \E calls \in Orders(Called(current) \ seen') : queue' = Tail(queue) \o calls
  /\ UNCHANGED <<mapPC, status, tree, pending, root, routes, target, flows>>

(* The queue is empty: the RouteContract of the handler.                    *)
RouteDone ==
  /\ mapPC = "search" /\ queue = <<>> /\ mapPC' = "routes"
  /\ routes' = routes \cup {[place |-> tree[root].route, source |-> LastFile,
                             signals |-> RiskSignals(Facts(tree, root, seen))]}
  /\ pending' = pending \ {root} /\ root' = None /\ seen' = {}
  /\ UNCHANGED <<status, tree, queue, target, flows>>

FileDone ==
  /\ mapPC = "routes" /\ pending = {} /\ mapPC' = "files" /\ tree' = None
  /\ UNCHANGED <<status, pending, routes, target, flows>> /\ NotSearching

(* The routes are sorted and ranked.                                        *)
AllCandidates == UNION {Candidates(r.signals, r.place) : r \in routes}
MapDone ==
  /\ mapPC = "files" /\ ~MoreFiles /\ mapPC' = "mapped"
  /\ target' = IF AllCandidates = {} THEN None ELSE FirstOf(AllCandidates)
  /\ UNCHANGED <<status, tree, pending, routes, flows>> /\ NotSearching

MapNext ==
  \/ SkipFile \/ ParseFile \/ StartSearch \/ Visit \/ RouteDone \/ FileDone \/ MapDone
MapSpec == MapInit /\ [][MapNext]_mapVars

-----------------------------------------------------------------------------
(* Properties.                                                              *)

(* The search ends with exactly the functions its handler reaches, whatever *)
(* the calls look like: cycles, a function called by two, a name that is no *)
(* function of the file (_reachable_functions).                             *)
SearchFindsCalled ==
  mapPC = "search" /\ queue = <<>> => seen = Reachable(tree, root)

(* The plan aims at the worst flow of the repository: a volatile effect     *)
(* identity of any file before every client total (docs/ARCHITECTURE.md,    *)
(* "Deterministic high-risk flows are ranked before model analysis").       *)
TargetIsWorstFlow ==
  mapPC = "mapped" =>
    IF flows = {} THEN target = None
    ELSE /\ target \in flows
         /\ \A c \in flows : target[1] < c[1] \/ (target[1] = c[1] /\ target[2] <= c[2])
=============================================================================

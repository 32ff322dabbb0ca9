----------------------------- MODULE ComponentTree -----------------------------
(***************************************************************************)
(* ComponentTree of archive-trait (src/component_tree.rs): path states as  *)
(* an arena of component edges.  A node is an index into the arena, and    *)
(* each field of ComponentNode is a function of it.  How many children of  *)
(* a node have a state is counted as states come and go.                   *)
(***************************************************************************)
EXTENDS Integers, Sequences, FiniteSets

CONSTANTS
  Components,   \* the names a path is made of
  States,
  None,         \* Option::None
  MaxNodes      \* bound: nodes in the arena

ASSUME TreeAssumption == None \notin States /\ None \notin Nat /\ MaxNodes \in Nat

VARIABLES
  len,               \* nodes.len()
  parent,
  state,
  children,
  active_children,
  answer             \* what the last call returned

treeVars == <<len, parent, state, children, active_children, answer>>

Nodes     == 0..(len - 1)
ROOT_NODE == 0

TreeInit ==
  /\ len = 1
  /\ parent = [n \in {ROOT_NODE} |-> None]
  /\ state \in [{ROOT_NODE} -> States \cup {None}]
  /\ children = [n \in {ROOT_NODE} |-> [c \in Components |-> None]]
  /\ active_children = [n \in {ROOT_NODE} |-> 0]
  /\ answer = None

Known(n, component) == children[n][component] # None

FoundChild(n, component) ==
  /\ Known(n, component)
  /\ answer' = [node |-> children[n][component]]
  /\ UNCHANGED <<len, parent, state, children, active_children>>

(* The new node is pushed, and its parent gets the edge.                   *)
AddedChild(n, component) ==
  /\ ~Known(n, component)
  /\ len < MaxNodes
  /\ len' = len + 1
  /\ parent' = [m \in 0..len |-> IF m = len THEN n ELSE parent[m]]
  /\ state' = [m \in 0..len |-> IF m = len THEN None ELSE state[m]]
  /\ children' = [m \in 0..len |->
       IF m = len THEN [c \in Components |-> None]
       ELSE IF m = n THEN [children[m] EXCEPT ![component] = len]
       ELSE children[m]]
  /\ active_children' = [m \in 0..len |-> IF m = len THEN 0 ELSE active_children[m]]
  /\ answer' = [node |-> len]

EnsureChild(n, component) == FoundChild(n, component) \/ AddedChild(n, component)

(* Fault: every state that is set counts, the one that replaces another too.*)
CountsEverySet(n) == parent[n] # None

(* The state is set, and was not before.                                   *)
Activates(n) == parent[n] # None /\ state[n] = None

SetState(n, new) ==
  /\ state' = [state EXCEPT ![n] = new]
  /\ active_children' =
       IF Activates(n) THEN [active_children EXCEPT ![parent[n]] = @ + 1] ELSE active_children
  /\ answer' = None
  /\ UNCHANGED <<len, parent, children>>

(* Fault: a state is cleared without a word to the parent.                 *)
NeverCountsDown(n) == FALSE

Deactivates(n) == parent[n] # None /\ state[n] # None

ClearState(n) ==
  /\ state' = [state EXCEPT ![n] = None]
  /\ active_children' =
       IF Deactivates(n) THEN [active_children EXCEPT ![parent[n]] = @ - 1] ELSE active_children
  /\ answer' = None
  /\ UNCHANGED <<len, parent, children>>

(* The queries: child, state and has_active_children.                      *)
Child(n, component)  == children[n][component]
State(n)             == state[n]
HasActiveChildren(n) == active_children[n] # 0

Asks(n) ==
  /\ \/ \E component \in Components : answer' = [node |-> Child(n, component)]
     \/ answer' = [state |-> State(n)]
     \/ answer' = [active |-> HasActiveChildren(n)]
  /\ UNCHANGED <<len, parent, state, children, active_children>>

TreeNext ==
  \E n \in Nodes :
    \/ \E component \in Components : EnsureChild(n, component)
    \/ \E new \in States : SetState(n, new)
    \/ ClearState(n)
    \/ Asks(n)

TreeSpec == TreeInit /\ [][TreeNext]_treeVars

-----------------------------------------------------------------------------
TreeType ==
  /\ len \in Nat \ {0}
  /\ parent \in [Nodes -> Nodes \cup {None}]
  /\ state \in [Nodes -> States \cup {None}]
  /\ children \in [Nodes -> [Components -> Nodes \cup {None}]]
  /\ active_children \in [Nodes -> Nat]

ActiveChildren(n) == { m \in Nodes : parent[m] = n /\ state[m] # None }

(* has_active_children decides whether an extracted directory may be       *)
(* replaced by another member: the count kept incrementally is, whatever   *)
(* the order in which states are set, replaced and cleared, the number of  *)
(* direct children that have a state, and so never goes below zero.        *)
CountsActiveChildren ==
  \A n \in Nodes : active_children[n] = Cardinality(ActiveChildren(n))

-----------------------------------------------------------------------------
(* The path of a node: the components on the edges down to it.             *)

Edge(n) == CHOOSE c \in Components : children[parent[n]][c] = n

PathOf ==
  LET path[n \in Nodes] ==
        IF n = ROOT_NODE THEN <<>> ELSE Append(path[parent[n]], Edge(n))
  IN  path

Active == { n \in Nodes : state[n] # None }

StatesByPath ==
  [q \in { PathOf[n] : n \in Active } |-> state[CHOOSE n \in Active : PathOf[n] = q]]

NodePaths == [n \in Nodes |-> PathOf[n]]

Abstract == INSTANCE PathStates WITH paths <- NodePaths, states <- StatesByPath

(* The arena implements the store of path states the builder and the       *)
(* extraction root rely on: a node ID stands for one path for good, the    *)
(* same path never gets two nodes, and every answer is the one the paths   *)
(* and states give.                                                        *)
ImplementsPathStates == Abstract!PathStatesSpec
=============================================================================

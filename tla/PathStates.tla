------------------------------ MODULE PathStates ------------------------------
(***************************************************************************)
(* What a store of path states promises: paths have a state or none, a    *)
(* handle stands for the same path for good, and a directory has active    *)
(* children exactly when a path directly below it has a state.  The        *)
(* builder and the extraction root rely on no more.                        *)
(***************************************************************************)
EXTENDS Naturals, Sequences, FiniteSets

CONSTANTS
  Components,   \* the names a path is made of
  States,
  None          \* no handle, or no state

VARIABLES
  paths,    \* the path each handle given out stands for
  states,   \* the paths that have a state, and which
  answer    \* what the last call returned

pathVars == <<paths, states, answer>>

Root == <<>>

Below(path) == { q \in DOMAIN states : Len(q) = Len(path) + 1 /\ SubSeq(q, 1, Len(path)) = path }

PathStatesInit ==
  /\ paths = [h \in {0} |-> Root]
  /\ \E known \in SUBSET {Root} : states \in [known -> States]
  /\ answer = None

(* A handle for the path, the one it has already if there is one.          *)
Ensure(h, component) ==
  LET path == Append(paths[h], component) IN
  /\ \/ \E known \in DOMAIN paths :
          /\ paths[known] = path
          /\ answer' = [node |-> known]
          /\ UNCHANGED paths
     \/ /\ path \notin {paths[k] : k \in DOMAIN paths}
        /\ \E new \in {Cardinality(DOMAIN paths)} :
             /\ paths' = [k \in DOMAIN paths \cup {new} |-> IF k = new THEN path ELSE paths[k]]
             /\ answer' = [node |-> new]
  /\ UNCHANGED states

Set(h, state) ==
  /\ states' = [q \in DOMAIN states \cup {paths[h]} |->
                  IF q = paths[h] THEN state ELSE states[q]]
  /\ answer' = None
  /\ UNCHANGED paths

Clear(h) ==
  /\ states' = [q \in DOMAIN states \ {paths[h]} |-> states[q]]
  /\ answer' = None
  /\ UNCHANGED paths

AskChild(h, component) ==
  /\ LET known == { k \in DOMAIN paths : paths[k] = Append(paths[h], component) }
     IN  \/ known = {} /\ answer' = [node |-> None]
         \/ \E k \in known : answer' = [node |-> k]
  /\ UNCHANGED <<paths, states>>

AskState(h) ==
  /\ answer' = [state |-> IF paths[h] \in DOMAIN states THEN states[paths[h]] ELSE None]
  /\ UNCHANGED <<paths, states>>

AskActiveChildren(h) ==
  /\ answer' = [active |-> Below(paths[h]) # {}]
  /\ UNCHANGED <<paths, states>>

PathStatesNext ==
  \E h \in DOMAIN paths :
    \/ \E component \in Components : Ensure(h, component) \/ AskChild(h, component)
    \/ \E state \in States : Set(h, state)
    \/ Clear(h)
    \/ AskState(h)
    \/ AskActiveChildren(h)

PathStatesSpec == PathStatesInit /\ [][PathStatesNext]_pathVars
=============================================================================

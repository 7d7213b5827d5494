---------------------------- MODULE GroupClosure ----------------------------
(***************************************************************************)
(* Inherited groups of a graph index: the search of apply_group_hierarchy  *)
(* (crates/treedx_graph/src/index/groups.rs), which walks from every group *)
(* a file names to the groups its membership propagates to.                *)
(*                                                                         *)
(* The queue is a set: whichever group the loop takes next, it visits the  *)
(* same groups.  A search depends on its origin only, so one search is     *)
(* kept per origin; a node's effective groups are the union over the       *)
(* groups its file names (Effective in GraphIndex).                        *)
(***************************************************************************)
CONSTANTS
    Groups,    \* group ids, as group_id normalises them
    NoGroup    \* no search is under way

ASSUME GroupConstants == NoGroup \notin Groups

VARIABLES
    parents,   \* the map `parents`: where membership propagates to
    origin,    \* the group whose search is under way
    queue,     \* the queue of the search
    visited,   \* the set visited by the search, and what it adds to `effective`
    closure,   \* for each origin searched, what its search visited
    cyclic     \* the origins a cycle warning was pushed for

groupVars == <<parents, origin, queue, visited, closure, cyclic>>

-----------------------------------------------------------------------------
GroupInit ==
    /\ origin = NoGroup
    /\ queue = {}
    /\ visited = {}
    /\ closure = [g \in {} |-> {}]
    /\ cyclic = {}

\* The body of `for value in &direct` up to its while loop.
StartOrigin(g) ==
    /\ origin = NoGroup
    /\ g \notin DOMAIN closure
    /\ origin' = g
    /\ queue' = {g}
    /\ visited' = {g}
    /\ UNCHANGED <<parents, closure, cyclic>>

\* Mutant: a parent that was found is not searched in turn.
VisitParentsOnly(g) ==
    /\ g \in queue
    /\ queue' = queue \ {g}
    /\ visited' = visited \cup parents[g]
    /\ cyclic' = IF origin \in parents[g] THEN cyclic \cup {origin} ELSE cyclic
    /\ UNCHANGED <<parents, origin, closure>>

\* Mutant: the warning is given whenever a group is met again.
VisitParentsWarnAny(g) ==
    /\ g \in queue
    /\ queue' = (queue \ {g}) \cup (parents[g] \ visited)
    /\ visited' = visited \cup parents[g]
    /\ cyclic' = IF parents[g] \cap visited # {} THEN cyclic \cup {origin} ELSE cyclic
    /\ UNCHANGED <<parents, origin, closure>>

\* One turn of the while loop: every parent of the group taken from the queue is
\* the origin (a warning), was visited, or is visited and queued.
VisitParents(g) ==
    /\ g \in queue
    /\ queue' = (queue \ {g}) \cup (parents[g] \ visited)
    /\ visited' = visited \cup parents[g]
    /\ cyclic' = IF origin \in parents[g] THEN cyclic \cup {origin} ELSE cyclic
    /\ UNCHANGED <<parents, origin, closure>>

\* The queue is empty: the loop over the parents ends.
FinishOrigin ==
    /\ origin # NoGroup
    /\ queue = {}
    /\ closure' = [g \in DOMAIN closure \cup {origin} |->
                      IF g = origin THEN visited ELSE closure[g]]
    /\ origin' = NoGroup
    /\ visited' = {}
    /\ UNCHANGED <<parents, queue, cyclic>>

GroupNext ==
    \/ \E g \in Groups : StartOrigin(g)
    \/ \E g \in Groups : VisitParents(g)
    \/ FinishOrigin

GroupSpec ==
    /\ parents \in [Groups -> SUBSET Groups]
    /\ GroupInit
    /\ [][GroupNext]_groupVars

-----------------------------------------------------------------------------
(***************************************************************************)
(* Properties.                                                             *)
(***************************************************************************)

GroupTypeOK ==
    /\ parents \in [Groups -> SUBSET Groups]
    /\ origin \in Groups \cup {NoGroup}
    /\ visited \subseteq Groups
    /\ queue \subseteq visited
    /\ DOMAIN closure \subseteq Groups
    /\ cyclic \subseteq Groups

\* The groups a membership of g propagates to: those in every set that holds g and
\* with a group all its parents.
Closed(s) == \A h \in s : parents[h] \subseteq s
Reachable(g) == {h \in Groups : \A s \in SUBSET Groups : g \in s /\ Closed(s) => h \in s}

\* effective_group_ids: a search ends with exactly the groups that can be reached
\* over propagating relations, cycles, diamonds and self-relations included.
ClosureIsReachable == \A g \in DOMAIN closure : closure[g] = Reachable(g)

\* diagnostics: the cycle warning is given for a group exactly if it can be reached
\* from one of its own parents, and not for a group that only leads into a cycle.
CyclesAreWarned ==
    \A g \in DOMAIN closure : g \in cyclic <=> \E h \in Reachable(g) : g \in parents[h]
=============================================================================

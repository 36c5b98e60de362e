----------------------------- MODULE ProjectTree -----------------------------
(***************************************************************************)
(* The containment structure of one project: nodes, their child_of edges,  *)
(* the mainline flag of an edge and the proposal branches, as the HTTP API *)
(* (src/backend/api/routes.py, src/backend/api/branching.py) and the       *)
(* batches and approved proposals of the Agent Port                        *)
(* (src/backend/agent_port/service.py) write it.                           *)
(*                                                                         *)
(* Every handler claims the project revision with a compare-and-swap       *)
(* before it writes (api/revisions.py), and the claim holds SQLite's       *)
(* writer lock until the commit, so a handler that succeeds is one step    *)
(* here, and a batch of the Agent Port is its operations one after the     *)
(* other.  Clients are not trusted to keep the structure a tree: an action *)
(* has the guards of its handler and no others.  Nothing makes the pair of *)
(* an edge unique in the database.                                         *)
(***************************************************************************)
CONSTANTS Nodes,     \* node ids
          Root,      \* project.root_node_id
          Branches,  \* branch ids
          Main,      \* branch_id IS NULL: the ordinary project
          NoParent,  \* parent_id IS NULL in create_node
          Imports    \* the child_of pairs of the project files that are imported

ASSUME RootAssumption == Root \in Nodes
ASSUME MainAssumption == Main \notin Branches
ASSUME NoParentAssumption == NoParent \notin Nodes
ASSUME ImportsAssumption == Imports \subseteq SUBSET (Nodes \X Nodes)

VARIABLES live,      \* the nodes that exist
          home,      \* nodes.branch_id
          child,     \* child_of edges, as pairs <<parent, child>>
          doubled,   \* the pairs that more than one row holds
          mainline,  \* the pairs one row of which has is_mainline
          branch     \* branches.status, "none" before the branch exists

vars == <<live, home, child, doubled, mainline, branch>>

\* A new project is its root node.  import_project_json takes the pairs of a
\* file as they are, any cycle, second parent or repeated row included; of the
\* flags of a parent it keeps the first.  Branches are not imported.
Init ==
  /\ live \in SUBSET Nodes
  /\ Root \in live
  /\ home = [n \in Nodes |-> Main]
  /\ child \in {{}} \cup Imports
  /\ child \subseteq live \X live
  /\ doubled \in SUBSET child
  /\ mainline \in {M \in SUBSET child : \A e, f \in M : e[1] = f[1] => e = f}
  /\ branch = [b \in Branches |-> "none"]

-----------------------------------------------------------------------------
(* Queries. *)

Children(n) == {c \in Nodes : <<n, c>> \in child}

Parents(n) == {p \in Nodes : <<p, n>> \in child}

\* What a walk along child_of from n visits, n included.
Subtree(n) ==
  {x \in Nodes :
     \A C \in SUBSET Nodes :
       n \in C /\ (\A e \in child : e[1] \in C => e[2] \in C) => x \in C}

\* A walk that collects targets only finds n itself on a cycle through n.
Descendants(n) == UNION {Subtree(c) : c \in Children(n)}

Incoming(n) == {<<p, n>> : p \in Parents(n)}

\* scalar_one_or_none on the incoming edges of n: with two of them it raises.
HasOneParentAtMost(n) ==
  /\ \A p, q \in Parents(n) : p = q
  /\ Incoming(n) \cap doubled = {}

\* A first child becomes the mainline, any other does not.
FirstChild(p, c, edges) ==
  IF \E x \in Nodes : <<p, x>> \in edges THEN {} ELSE {<<p, c>>}

-----------------------------------------------------------------------------
(* Creating nodes. *)

AddChild(n, p) ==
  /\ child' = child \cup {<<p, n>>}
  /\ mainline' = mainline \cup FirstChild(p, n, child)

CreateNode(n, p, b) ==
  /\ n \notin live
  /\ p # NoParent => p \in live /\ home[p] = b
  /\ b # Main => branch[b] = "active"
  /\ live' = live \cup {n}
  /\ home' = [home EXCEPT ![n] = b]
  /\ IF p = NoParent THEN UNCHANGED <<child, mainline>> ELSE AddChild(n, p)
  /\ UNCHANGED <<doubled, branch>>

\* approve_agent_artifact of a create_child: the child joins the target's
\* branch, whatever the status of that branch.
ApproveCreateChild(n, target) ==
  /\ n \notin live
  /\ target \in live
  /\ live' = live \cup {n}
  /\ home' = [home EXCEPT ![n] = home[target]]
  /\ AddChild(n, target)
  /\ UNCHANGED <<doubled, branch>>

\* create_node of a batch: a child of a node on a branch joins that branch, a
\* child of an ordinary node may be put on any active branch, and no child
\* becomes the mainline.  Which nodes a batch may name, those in the scope of
\* its grant and those it has just created, is left out here and below.
AgentCreateNode(n, p, b) ==
  /\ n \notin live
  /\ p # NoParent => p \in live /\ home[p] \in {Main, b}
  /\ b # Main => branch[b] = "active"
  /\ live' = live \cup {n}
  /\ home' = [home EXCEPT ![n] = b]
  /\ child' = child \cup ({<<p, n>>} \ {<<NoParent, n>>})
  /\ UNCHANGED <<doubled, mainline, branch>>

-----------------------------------------------------------------------------
(* Deleting a subtree. *)

\* Mutant of ValidateClosure: only the deleted node's own parents are looked at.
ValidateClosureOfRootOnly(n) ==
  /\ Root \notin Subtree(n)
  /\ HasOneParentAtMost(n)

\* The subtree of n is a tree, on one branch, and no edge comes into it from
\* elsewhere but the one to n.
OneBranchTree(n) ==
  LET S == Subtree(n)
  IN /\ \A x \in S : home[x] = home[n]
     /\ \A x \in S : \A p \in Parents(x) : home[p] = home[n]
     /\ \A x \in S \ {n} : \E p \in S : Parents(x) = {p}
     /\ Parents(n) \cap S = {}
     /\ \A x \in S : HasOneParentAtMost(x)

\* validate_closure
ValidateClosure(n) ==
  /\ Root \notin Subtree(n)
  /\ OneBranchTree(n)

Severed(S) == {e \in child : e[1] \in S \/ e[2] \in S}

DeleteNode(n) ==
  LET S == Subtree(n)
  IN /\ n \in live \ {Root}
     /\ ValidateClosure(n)
     /\ live' = live \ S
     /\ home' = [x \in Nodes |-> IF x \in S THEN Main ELSE home[x]]
     /\ child' = child \ Severed(S)
     /\ doubled' = doubled \ Severed(S)
     /\ mainline' = mainline \ Severed(S)
     /\ UNCHANGED branch

-----------------------------------------------------------------------------
(* Edges. *)

\* Mutant of Demoted: the siblings keep their mainline flag.
DemotedNobody(p) == mainline

\* demote_mainline_siblings
Demoted(p) == {e \in mainline : e[1] # p}

\* create_edge with relation_type child_of: neither cycles nor second parents
\* are looked for.
CreateEdge(p, c, isMain) ==
  /\ {p, c} \subseteq live
  /\ p # c
  /\ <<p, c>> \notin child
  /\ child' = child \cup {<<p, c>>}
  /\ mainline' = IF isMain THEN Demoted(p) \cup {<<p, c>>} ELSE mainline
  /\ UNCHANGED <<live, home, doubled, branch>>

\* create_edge of a batch, child_of again: a self-relation and a second row of
\* the same pair pass too, an edge between branches does not.
AgentCreateEdge(p, c) ==
  /\ {p, c} \subseteq live
  /\ home[p] = home[c]
  /\ child' = child \cup {<<p, c>>}
  /\ doubled' = doubled \cup ({<<p, c>>} \cap child)
  /\ UNCHANGED <<live, home, mainline, branch>>

\* promote_mainline and promote_child_mainline
Promote(p, c) ==
  /\ <<p, c>> \in child
  /\ mainline' = Demoted(p) \cup {<<p, c>>}
  /\ UNCHANGED <<live, home, child, doubled, branch>>

\* The old incoming edge is deleted before the new parent's children are
\* counted.
Attach(n, p) ==
  LET kept == child \ Incoming(n)
  IN /\ child' = kept \cup {<<p, n>>}
     /\ mainline' = (mainline \ Incoming(n)) \cup FirstChild(p, n, kept)

MoveNode(n, p) ==
  /\ n \in live \ {Root}
  /\ p \in live
  /\ HasOneParentAtMost(n)
  /\ p \notin Descendants(n)
  /\ Attach(n, p)
  /\ UNCHANGED <<live, home, doubled, branch>>

\* Mutant of ReparentNode: no cycle detection.
ReparentNodeAnywhere(n, p) ==
  /\ n \in live \ {Root}
  /\ p \in live \ {n}
  /\ HasOneParentAtMost(n)
  /\ Attach(n, p)
  /\ UNCHANGED <<live, home, doubled, branch>>

\* Mutant of ReparentNode: the root is moved like any other node, and only a
\* child of the moved node is taken for a cycle.
ReparentNodeShallow(n, p) ==
  /\ {n, p} \subseteq live
  /\ HasOneParentAtMost(n)
  /\ p \notin Children(n) \cup {n}
  /\ Attach(n, p)
  /\ UNCHANGED <<live, home, doubled, branch>>

ReparentNode(n, p) ==
  /\ n \in live \ {Root}
  /\ p \in live
  /\ HasOneParentAtMost(n)
  /\ p \notin Descendants(n) \cup {n}
  /\ Attach(n, p)
  /\ UNCHANGED <<live, home, doubled, branch>>

-----------------------------------------------------------------------------
(* Branches. *)

Copies(n) == {f \in [Subtree(n) -> Nodes \ live] :
                \A x, y \in Subtree(n) : f[x] = f[y] => x = y}

\* deep_copy_branch: every node of the subtree and every edge inside it.
CreateBranch(b, source) ==
  /\ branch[b] = "none"
  /\ source \in live
  /\ \E f \in Copies(source) :
       LET copied(edges) == {<<f[e[1]], f[e[2]]>> :
                               e \in {d \in edges : d[1] \in Subtree(source)}}
           new == {f[x] : x \in Subtree(source)}
       IN /\ live' = live \cup new
          /\ home' = [n \in Nodes |-> IF n \in new THEN b ELSE home[n]]
          /\ child' = child \cup copied(child)
          /\ doubled' = doubled \cup copied(doubled)
          /\ mainline' = mainline \cup copied(mainline)
  /\ branch' = [branch EXCEPT ![b] = "active"]

OnBranch(b) == {n \in live : home[n] = b}

\* Mutant of MergeBranch: only the branch root is put on the mainline.
MergeBranchRootOnly(b, target) ==
  /\ branch[b] = "active"
  /\ target \in OnBranch(Main)
  /\ \E r \in OnBranch(b) :
       /\ Parents(r) \cap OnBranch(b) = {}
       /\ HasOneParentAtMost(r)
       /\ Attach(r, target)
       /\ home' = [home EXCEPT ![r] = Main]
  /\ branch' = [branch EXCEPT ![b] = "merged"]
  /\ UNCHANGED <<live, doubled>>

\* The root is the first row without a parent on the branch, in whatever order
\* the rows come; all the nodes of the branch become ordinary nodes.
MergeBranch(b, target) ==
  /\ branch[b] = "active"
  /\ target \in OnBranch(Main)
  /\ \E r \in OnBranch(b) :
       /\ Parents(r) \cap OnBranch(b) = {}
       /\ HasOneParentAtMost(r)
       /\ Attach(r, target)
  /\ home' = [n \in Nodes |-> IF n \in OnBranch(b) THEN Main ELSE home[n]]
  /\ branch' = [branch EXCEPT ![b] = "merged"]
  /\ UNCHANGED <<live, doubled>>

ArchiveBranch(b) ==
  /\ branch[b] = "active"
  /\ branch' = [branch EXCEPT ![b] = "archived"]
  /\ UNCHANGED <<live, home, child, doubled, mainline>>

-----------------------------------------------------------------------------
(* The HTTP API and the Agent Port. *)

\* Of the two, only the API merges and archives.
BranchStep(b) ==
  \/ ArchiveBranch(b)
  \/ \E n \in Nodes : CreateBranch(b, n) \/ MergeBranch(b, n)

NodeStep(n) ==
  \/ \E p \in Nodes \cup {NoParent}, b \in Branches \cup {Main} :
       CreateNode(n, p, b) \/ AgentCreateNode(n, p, b)
  \/ DeleteNode(n)
  \/ \E p \in Nodes : ApproveCreateChild(n, p) \/ Promote(p, n)

EdgeStep(p, c) ==
  \/ \E isMain \in BOOLEAN : CreateEdge(p, c, isMain)
  \/ AgentCreateEdge(p, c)

Next ==
  \/ \E b \in Branches : BranchStep(b)
  \/ \E n \in Nodes : NodeStep(n)
  \/ \E n, p \in Nodes : MoveNode(n, p) \/ ReparentNode(n, p)
  \/ \E p, c \in Nodes : EdgeStep(p, c)

Spec == Init /\ [][Next]_vars

-----------------------------------------------------------------------------
(* Reads that walk the tree. *)

\* get_mainline_path: the nodes that are reached from the root along mainline
\* edges.
MainlineReach ==
  {x \in Nodes :
     \A C \in SUBSET Nodes :
       Root \in C /\ (\A e \in mainline : e[1] \in C => e[2] \in C) => x \in C}

\* Mutant of ValidatedScope: the parent of a singled-out node is an intruder.
ValidatedScopeWithoutParent(n, external) ==
  /\ home[n] # Main => branch[home[n]] # "none"
  /\ OneBranchTree(n)
  /\ Parents(n) = {}

\* validated_scoped_graph: what lies below the root of a grant's scope is a tree
\* of the root's own branch; only a grant for one node lets the root have a
\* parent.  Its bound on the size of a scope is left out.
ValidatedScope(n, external) ==
  /\ home[n] # Main => branch[home[n]] # "none"
  /\ OneBranchTree(n)
  /\ external \/ Parents(n) = {}

\* allowed_nodes: what an agent sees under a grant for node n alone, for the
\* branch below n, or for the project.  A malformed scope raises: it shows
\* nothing.
AllowedNodes(scope, n) ==
  {x \in live :
     \/ scope = "node" /\ ValidatedScope(n, TRUE) /\ x = n
     \/ scope = "branch" /\ ValidatedScope(n, FALSE) /\ x \in Subtree(n)
     \/ scope = "project" /\ home[x] = Main}

\* context: the walk from n up to its oldest ancestor meets no node twice.  It
\* keeps no set of visited nodes.
ContextEnds(n) == \A x \in Nodes : n \in Subtree(x) => x \notin Descendants(x)

-----------------------------------------------------------------------------
(* Properties of every use of the API and the Agent Port. *)

\* Every variable has its type, an edge joins two nodes that exist (no deletion
\* leaves one dangling), and the project keeps its root node, off the branches.
TypeOK ==
  /\ live \subseteq Nodes
  /\ Root \in live /\ home[Root] = Main
  /\ home \in [Nodes -> Branches \cup {Main}]
  /\ \A n \in Nodes \ live : home[n] = Main
  /\ child \subseteq live \X live
  /\ doubled \subseteq child
  /\ mainline \subseteq child
  /\ branch \in [Branches -> {"none", "active", "merged", "archived"}]

\* A parent has at most one mainline child, by the write logic that create_node,
\* create_edge, the promotions, the moves, branch copies and merges share; the
\* unique index of migrated databases is never needed.
OneMainline ==
  \A e, f \in mainline : e[1] = f[1] => e = f

\* A branch that is merged, or not yet created, has no nodes: none is left
\* behind by a merge, and nothing can be added to it afterwards.
ClosedBranchIsEmpty ==
  \A b \in Branches : branch[b] \in {"none", "merged"} => OnBranch(b) = {}

\* delete_node removes one whole subtree of one branch: a survivor keeps every
\* parent it had, and at most one edge between survivors and the deleted nodes
\* is cut, so nothing is orphaned and nothing shared is taken along.
DeletionIsContained ==
  [][LET gone == live \ live'
     IN gone # {} =>
          /\ \A n \in live' : Parents(n)' = Parents(n)
          /\ \A e, f \in child :
               {e[1], f[1]} \subseteq live' /\ {e[2], f[2]} \subseteq gone => e = f
          /\ \A m, n \in gone : home[m] = home[n]]_vars

-----------------------------------------------------------------------------
(* The tree that the clients are left to keep. *)

\* The edges of a branch stay on the branch.
Confined == \A e \in child : home[e[1]] = home[e[2]]

SingleParent == doubled = {} /\ \A e, f \in child : e[2] = f[2] => e = f

\* Every set of nodes has a member without a parent in the set and one without
\* a child in it: walks end, up and down.
Acyclic ==
  \A S \in SUBSET Nodes :
    S # {} => /\ \E x \in S : \A p \in S : <<p, x>> \notin child
              /\ \E x \in S : \A c \in S : <<x, c>> \notin child

\* No node has two parents, no walk meets a node twice, the root is on top, and
\* no tree crosses branches.
Forest ==
  /\ Confined
  /\ SingleParent
  /\ Acyclic
  /\ Parents(Root) = {}

\* A child_of edge that a client or an agent draws by hand.
Drawn == \E p, c \in Nodes : EdgeStep(p, c)

\* A node put below a node of another branch.
Crosses == \E e \in child' \ child : home'[e[1]] # home'[e[2]]

\* A node moved below itself: move_node looks for the new parent among the
\* proper descendants only.
MovedIntoItself == \E n \in Nodes : MoveNode(n, n)

\* A step whose effect on the shape of the tree no handler looks at.
Unchecked == Drawn \/ Crosses \/ MovedIntoItself

\* A forest is lost in no other way than by an unchecked step: creations,
\* deletions, moves with their cycle detection, promotions, branch copies and
\* merges keep it, in any order.
ForestIsKept == [][Forest => Forest' \/ Unchecked]_vars

\* get_mainline_path follows mainline edges "from project root to deepest leaf"
\* and keeps no set of visited nodes: among the nodes it reaches is one without
\* a mainline child, or its loop never ends.
MainlinePathEnds ==
  \E leaf \in MainlineReach : \A e \in mainline : e[1] # leaf

\* A merge that hangs a branch below a node which an edge out of the branch may
\* have put below the branch.
MergeBelowItself ==
  ~Confined /\ \E b \in Branches, t \in Nodes : MergeBranch(b, t)

\* A tree without cycles, second parents or not, stays one, and the mainline
\* walk in it ends, unless an edge is drawn by hand, a node is moved into itself
\* or a branch with an edge out of it is merged.
WalksStayFinite ==
  [][Acyclic => \/ Acyclic' /\ MainlinePathEnds'
                \/ Drawn \/ MovedIntoItself \/ MergeBelowItself]_vars

\* An agent with a grant for one node sees it, with a grant for the branch below
\* a parentless node sees the whole of it, and in the project as such every walk
\* of the context read to the root ends.
Readable ==
  /\ \A n \in live : AllowedNodes("node", n) = {n}
  /\ \A n \in live : Parents(n) = {} => AllowedNodes("branch", n) = Subtree(n)
  /\ \A n \in AllowedNodes("project", Root) : ContextEnds(n)

\* No step other than an unchecked one turns the scope of a grant on a forest
\* into one that validated_scoped_graph refuses, or a context read into one that
\* does not end.
GrantsStayReadable == [][Forest => Readable' \/ Unchecked]_vars
=============================================================================

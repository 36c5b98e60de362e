-------------------------- MODULE ProjectTreeProofs --------------------------
(***************************************************************************)
(* Proofs about ProjectTree, for any set of nodes, branches and imported   *)
(* graphs: the types, one mainline per parent, empty closed branches and   *)
(* contained deletions are kept by every use of the API and the Agent      *)
(* Port; a forest, which every grant of the Agent Port can be read in, and *)
(* a graph without cycles, whose mainline has an end, are lost by no step  *)
(* but the ones that no handler checks.                                    *)
(***************************************************************************)
EXTENDS ProjectTree, TLAPS

-----------------------------------------------------------------------------
(* Subtrees. *)

\* A set of nodes that the child_of edges do not leave.
Closed(C) == \A e \in child : e[1] \in C => e[2] \in C

\* The subtree of a node is closed under children.
LEMMA SubtreeClosed ==
  ASSUME TypeOK, NEW n \in Nodes
  PROVE  /\ Subtree(n) \subseteq Nodes
         /\ n \in Subtree(n)
         /\ Closed(Subtree(n))
<1>1. Subtree(n) \subseteq Nodes /\ n \in Subtree(n)
  BY DEF Subtree
<1>2. ASSUME NEW e \in child, e[1] \in Subtree(n)
      PROVE  e[2] \in Subtree(n)
  <2>1. e[2] \in Nodes
    BY DEF TypeOK
  <2>2. ASSUME NEW C \in SUBSET Nodes, n \in C,
               \A d \in child : d[1] \in C => d[2] \in C
        PROVE  e[2] \in C
    BY <1>2, <2>2 DEF Subtree
  <2>3. QED
    BY <2>1, <2>2 DEF Subtree
<1>3. QED
  BY <1>1, <1>2 DEF Closed

\* A subtree is the least closed set that holds its top node.
LEMMA SubtreeLeast ==
  ASSUME NEW n \in Nodes, NEW C \in SUBSET Nodes, n \in C, Closed(C)
  PROVE  Subtree(n) \subseteq C
BY DEF Subtree, Closed

\* The targets a walk collects, and its start, are the subtree.
LEMMA DescendantsSubtree ==
  ASSUME TypeOK, NEW n \in Nodes
  PROVE  Subtree(n) \subseteq Descendants(n) \cup {n}
<1> DEFINE C == Descendants(n) \cup {n}
<1>1. \A c \in Children(n) :
        Subtree(c) \subseteq Nodes /\ c \in Subtree(c) /\ Closed(Subtree(c))
  BY SubtreeClosed DEF Children
<1>2. C \in SUBSET Nodes
  BY <1>1 DEF Descendants
<1>3. ASSUME NEW e \in child, e[1] \in C
      PROVE  e[2] \in C
  <2>1. CASE e[1] = n
    <3>1. e = <<n, e[2]>> /\ e[2] \in Nodes
      BY <2>1 DEF TypeOK
    <3>2. e[2] \in Children(n)
      BY <3>1 DEF Children
    <3>3. QED
      BY <1>1, <3>2 DEF Descendants
  <2>2. CASE e[1] \in Descendants(n)
    BY <1>1, <2>2 DEF Descendants, Closed
  <2>3. QED
    BY <1>3, <2>1, <2>2
<1>4. Closed(C)
  BY <1>3 DEF Closed
<1>5. QED
  BY <1>2, <1>4, SubtreeLeast

-----------------------------------------------------------------------------
(* Types. *)

\* At most the new edge becomes mainline.
LEMMA FirstChildEdge ==
  ASSUME NEW p, NEW c, NEW edges
  PROVE  FirstChild(p, c, edges) \subseteq {<<p, c>>}
BY DEF FirstChild

\* Attaching a node to a parent of the project keeps the types.
LEMMA AttachType ==
  ASSUME TypeOK, NEW n \in live, NEW p \in live, Attach(n, p),
         HasOneParentAtMost(n)
  PROVE  /\ child' \subseteq live \X live
         /\ mainline' \subseteq child'
         /\ doubled \subseteq child'
<1>1. mainline \ Incoming(n) \subseteq child \ Incoming(n)
  BY DEF TypeOK
<1>2. doubled \subseteq child \ Incoming(n)
  BY DEF TypeOK, HasOneParentAtMost
<1>3. QED
  BY <1>1, <1>2, FirstChildEdge DEF TypeOK, Attach

\* No operation leaves an edge without its nodes, or removes the root.
LEMMA TypeStep ==
  ASSUME TypeOK, [Next]_vars
  PROVE  TypeOK'
<1> USE RootAssumption, MainAssumption
<1>1. ASSUME NEW n \in Nodes, NEW p \in live, n \notin live,
             live' = live \cup {n}, AddChild(n, p)
      PROVE  /\ child' \subseteq live' \X live' /\ mainline' \subseteq child'
             /\ doubled \subseteq child'
  BY <1>1, FirstChildEdge DEF TypeOK, AddChild
<1>2. ASSUME NEW n \in Nodes, NEW p \in Nodes \cup {NoParent},
             NEW b \in Branches \cup {Main}, CreateNode(n, p, b)
      PROVE  TypeOK'
  <2>1. /\ child' \subseteq live' \X live' /\ mainline' \subseteq child'
        /\ doubled' \subseteq child'
    BY <1>1, <1>2 DEF CreateNode, TypeOK
  <2>2. QED
    BY <1>2, <2>1 DEF CreateNode, TypeOK
<1>3. ASSUME NEW n \in Nodes, NEW p \in Nodes, ApproveCreateChild(n, p)
      PROVE  TypeOK'
  <2>1. /\ child' \subseteq live' \X live' /\ mainline' \subseteq child'
        /\ doubled' \subseteq child'
    BY <1>1, <1>3 DEF ApproveCreateChild
  <2>2. QED
    BY <1>3, <2>1 DEF ApproveCreateChild, TypeOK
<1>4. ASSUME NEW n \in Nodes, DeleteNode(n)
      PROVE  TypeOK'
  <2>1. /\ child' \subseteq live' \X live' /\ mainline' \subseteq child'
        /\ doubled' \subseteq child'
    BY <1>4 DEF DeleteNode, Severed, TypeOK
  <2>2. Root \in live' /\ home'[Root] = Main
    BY <1>4 DEF DeleteNode, ValidateClosure, OneBranchTree, TypeOK
  <2>3. QED
    BY <1>4, <2>1, <2>2 DEF DeleteNode, Severed, TypeOK
<1>5. ASSUME NEW p \in Nodes, NEW c \in Nodes, NEW isMain \in BOOLEAN,
             CreateEdge(p, c, isMain)
      PROVE  TypeOK'
  BY <1>5 DEF CreateEdge, Demoted, TypeOK
<1>13. ASSUME NEW p \in Nodes, NEW c \in Nodes, AgentCreateEdge(p, c)
       PROVE  TypeOK'
  BY <1>13 DEF AgentCreateEdge, TypeOK
<1>14. ASSUME NEW n \in Nodes, NEW p \in Nodes \cup {NoParent},
              NEW b \in Branches \cup {Main}, AgentCreateNode(n, p, b)
       PROVE  TypeOK'
  <2>1. p # NoParent => p \in live
    BY <1>14 DEF AgentCreateNode
  <2>2. child' \subseteq live' \X live' /\ child \subseteq child'
    BY <1>14, <2>1 DEF AgentCreateNode, TypeOK
  <2>3. QED
    BY <1>14, <2>2 DEF AgentCreateNode, TypeOK
<1>6. ASSUME NEW p \in Nodes, NEW c \in Nodes, Promote(p, c)
      PROVE  TypeOK'
  BY <1>6 DEF Promote, Demoted, TypeOK
<1>7. ASSUME NEW n \in Nodes, NEW p \in Nodes, MoveNode(n, p) \/ ReparentNode(n, p)
      PROVE  TypeOK'
  BY <1>7, AttachType DEF MoveNode, ReparentNode, TypeOK
<1>8. ASSUME NEW b \in Branches, NEW n \in Nodes, CreateBranch(b, n)
      PROVE  TypeOK'
  <2>1. PICK f \in Copies(n) :
          /\ live' = live \cup {f[x] : x \in Subtree(n)}
          /\ home' = [m \in Nodes |-> IF m \in {f[x] : x \in Subtree(n)}
                                        THEN b ELSE home[m]]
          /\ child' = child \cup {<<f[e[1]], f[e[2]]>> :
                                   e \in {d \in child : d[1] \in Subtree(n)}}
          /\ doubled' = doubled \cup {<<f[e[1]], f[e[2]]>> :
                                   e \in {d \in doubled : d[1] \in Subtree(n)}}
          /\ mainline' = mainline \cup {<<f[e[1]], f[e[2]]>> :
                                   e \in {d \in mainline : d[1] \in Subtree(n)}}
    BY <1>8 DEF CreateBranch
  <2>2. f \in [Subtree(n) -> Nodes \ live]
    BY DEF Copies
  <2>3. \A e \in child : e[1] \in Subtree(n) => e[2] \in Subtree(n)
    BY SubtreeClosed DEF Closed
  <2>4. child' \subseteq live' \X live'
    BY <2>1, <2>3 DEF TypeOK
  <2>5. mainline' \subseteq child' /\ doubled' \subseteq child'
    BY <2>1 DEF TypeOK
  <2>6. live' \subseteq Nodes /\ Root \in live' /\ home'[Root] = Main
    BY <2>1, <2>2 DEF TypeOK
  <2>7. /\ home' \in [Nodes -> Branches \cup {Main}]
        /\ \A m \in Nodes \ live' : home'[m] = Main
    BY <2>1 DEF TypeOK
  <2>8. branch' \in [Branches -> {"none", "active", "merged", "archived"}]
    BY <1>8 DEF CreateBranch, TypeOK
  <2>9. QED
    BY <2>4, <2>5, <2>6, <2>7, <2>8 DEF TypeOK
<1>9. ASSUME NEW b \in Branches, NEW t \in Nodes, MergeBranch(b, t)
      PROVE  TypeOK'
  <2>1. PICK r \in OnBranch(b) : HasOneParentAtMost(r) /\ Attach(r, t)
    BY <1>9 DEF MergeBranch
  <2>2. /\ child' \subseteq live \X live
        /\ mainline' \subseteq child'
        /\ doubled \subseteq child'
    BY <1>9, <2>1, AttachType DEF MergeBranch, OnBranch
  <2>3. QED
    BY <1>9, <2>2 DEF MergeBranch, OnBranch, TypeOK
<1>10. ASSUME NEW b \in Branches, ArchiveBranch(b)
       PROVE  TypeOK'
  BY <1>10 DEF ArchiveBranch, TypeOK
<1>11. CASE UNCHANGED vars
  BY <1>11 DEF vars, TypeOK
<1>12. QED
  BY <1>2, <1>3, <1>4, <1>5, <1>6, <1>7, <1>8, <1>9, <1>10, <1>11, <1>13, <1>14
     DEF Next, NodeStep, BranchStep, EdgeStep

\* Types are kept, no edge dangles and the root node survives.
THEOREM TreeTypes == Spec => []TypeOK
<1>1. Init => TypeOK
  BY RootAssumption DEF Init, TypeOK
<1>2. QED
  BY <1>1, TypeStep, PTL DEF Spec

-----------------------------------------------------------------------------
(* One mainline per parent. *)

\* A new child does not become a second mainline child.
LEMMA AddChildMainline ==
  ASSUME TypeOK, OneMainline, NEW n \in Nodes, NEW p \in live, AddChild(n, p)
  PROVE  OneMainline'
<1>1. CASE \E x \in Nodes : <<p, x>> \in child
  BY <1>1 DEF AddChild, FirstChild, OneMainline
<1>2. CASE \A x \in Nodes : <<p, x>> \notin child
  <2>1. \A e \in mainline : e[1] # p
    BY <1>2 DEF TypeOK
  <2>2. QED
    BY <1>2, <2>1 DEF AddChild, FirstChild, OneMainline
<1>3. QED
  BY <1>1, <1>2

\* Neither does a node that is moved below a new parent.
LEMMA AttachMainline ==
  ASSUME TypeOK, OneMainline, NEW n \in live, NEW p \in live, Attach(n, p)
  PROVE  OneMainline'
<1>1. PICK kept : kept = child \ Incoming(n)
  OBVIOUS
<1>2. mainline' = (mainline \ Incoming(n)) \cup FirstChild(p, n, kept)
  BY <1>1 DEF Attach
<1>3. CASE \E x \in Nodes : <<p, x>> \in kept
  BY <1>2, <1>3 DEF FirstChild, OneMainline
<1>4. CASE \A x \in Nodes : <<p, x>> \notin kept
  <2>1. \A e \in mainline \ Incoming(n) : e[1] # p
    BY <1>1, <1>4 DEF TypeOK
  <2>2. QED
    BY <1>2, <1>4, <2>1 DEF FirstChild, OneMainline
<1>5. QED
  BY <1>3, <1>4

\* What deep_copy_branch leaves: f names the copy of each node it copied.
LEMMA CopyShape ==
  ASSUME TypeOK, NEW b \in Branches, NEW n \in Nodes, CreateBranch(b, n)
  PROVE  \E f \in [Subtree(n) -> Nodes \ live] :
           /\ \A x, y \in Subtree(n) : f[x] = f[y] => x = y
           /\ \A d \in child' :
                \/ d \in child
                \/ \E e \in child : /\ {e[1], e[2]} \subseteq Subtree(n)
                                    /\ d = <<f[e[1]], f[e[2]]>>
           /\ \A d \in mainline' :
                \/ d \in mainline
                \/ \E e \in mainline : /\ {e[1], e[2]} \subseteq Subtree(n)
                                       /\ d = <<f[e[1]], f[e[2]]>>
           /\ doubled = {} => doubled' = {}
           /\ home' = [m \in Nodes |-> IF \E x \in Subtree(n) : m = f[x]
                                         THEN b ELSE home[m]]
           /\ live' = live \cup {f[x] : x \in Subtree(n)}
<1>1. PICK f \in Copies(n) :
        /\ live' = live \cup {f[x] : x \in Subtree(n)}
        /\ home' = [m \in Nodes |-> IF m \in {f[x] : x \in Subtree(n)}
                                      THEN b ELSE home[m]]
        /\ child' = child \cup {<<f[e[1]], f[e[2]]>> :
                                 e \in {d \in child : d[1] \in Subtree(n)}}
        /\ doubled' = doubled \cup {<<f[e[1]], f[e[2]]>> :
                                 e \in {d \in doubled : d[1] \in Subtree(n)}}
        /\ mainline' = mainline \cup {<<f[e[1]], f[e[2]]>> :
                                 e \in {d \in mainline : d[1] \in Subtree(n)}}
  BY DEF CreateBranch
<1>2. /\ f \in [Subtree(n) -> Nodes \ live]
      /\ \A x, y \in Subtree(n) : f[x] = f[y] => x = y
  BY DEF Copies
<1>3. \A e \in child : e[1] \in Subtree(n) => {e[1], e[2]} \subseteq Subtree(n)
  BY SubtreeClosed DEF Closed
<1>4. mainline \subseteq child
  BY DEF TypeOK
<1>5. \A d \in child' :
         \/ d \in child
         \/ \E e \in child : /\ {e[1], e[2]} \subseteq Subtree(n)
                             /\ d = <<f[e[1]], f[e[2]]>>
  BY <1>1, <1>3
<1>6. \A d \in mainline' :
         \/ d \in mainline
         \/ \E e \in mainline : /\ {e[1], e[2]} \subseteq Subtree(n)
                                /\ d = <<f[e[1]], f[e[2]]>>
  BY <1>1, <1>3, <1>4
<1>7. home' = [m \in Nodes |-> IF \E x \in Subtree(n) : m = f[x]
                                 THEN b ELSE home[m]]
  BY <1>1
<1>8. doubled = {} => doubled' = {}
  BY <1>1
<1>9. QED
  BY <1>1, <1>2, <1>5, <1>6, <1>7, <1>8

\* A branch copy has the mainline flags of what it copies.
LEMMA CopyMainline ==
  ASSUME TypeOK, OneMainline, NEW b \in Branches, NEW n \in Nodes,
         CreateBranch(b, n)
  PROVE  OneMainline'
<1>1. PICK f \in [Subtree(n) -> Nodes \ live] :
        /\ \A x, y \in Subtree(n) : f[x] = f[y] => x = y
        /\ \A d \in mainline' :
             \/ d \in mainline
             \/ \E e \in mainline : /\ {e[1], e[2]} \subseteq Subtree(n)
                                    /\ d = <<f[e[1]], f[e[2]]>>
  BY CopyShape
<1>2. ASSUME NEW d \in mainline', NEW g \in mainline', d[1] = g[1]
      PROVE  d = g
  <2>1. \A e \in mainline : e[1] \in live
    BY DEF TypeOK
  <2>2. \A x \in Subtree(n) : f[x] \notin live
    BY <1>1
  <2>3. CASE d \in mainline /\ g \in mainline
    BY <1>2, <2>3 DEF OneMainline
  <2>4. CASE d \notin mainline /\ g \notin mainline
    <3>1. PICK e \in mainline : /\ {e[1], e[2]} \subseteq Subtree(n)
                                /\ d = <<f[e[1]], f[e[2]]>>
      BY <1>1, <2>4
    <3>2. PICK h \in mainline : /\ {h[1], h[2]} \subseteq Subtree(n)
                                /\ g = <<f[h[1]], f[h[2]]>>
      BY <1>1, <2>4
    <3>3. e[1] = h[1]
      BY <1>1, <1>2, <3>1, <3>2
    <3>4. QED
      BY <3>1, <3>2, <3>3 DEF OneMainline
  <2>5. CASE d \in mainline /\ g \notin mainline
    BY <1>1, <1>2, <2>1, <2>2, <2>5
  <2>6. CASE d \notin mainline /\ g \in mainline
    BY <1>1, <1>2, <2>1, <2>2, <2>6
  <2>7. QED
    BY <2>3, <2>4, <2>5, <2>6
<1>3. QED
  BY <1>2 DEF OneMainline

\* No operation of any client creates a second mainline child.
LEMMA MainlineStep ==
  ASSUME TypeOK, OneMainline, [Next]_vars
  PROVE  OneMainline'
<1>1. ASSUME NEW n \in Nodes, NEW p \in Nodes \cup {NoParent},
             NEW b \in Branches \cup {Main}, CreateNode(n, p, b)
      PROVE  OneMainline'
  <2>1. CASE p = NoParent
    BY <1>1, <2>1 DEF CreateNode, OneMainline
  <2>2. CASE p # NoParent
    BY <1>1, <2>2, AddChildMainline DEF CreateNode
  <2>3. QED
    BY <2>1, <2>2
<1>2. ASSUME NEW n \in Nodes, NEW p \in Nodes, ApproveCreateChild(n, p)
      PROVE  OneMainline'
  BY <1>2, AddChildMainline DEF ApproveCreateChild
<1>3. ASSUME NEW n \in Nodes, DeleteNode(n)
      PROVE  OneMainline'
  <2>1. mainline' \subseteq mainline
    BY <1>3 DEF DeleteNode
  <2>2. QED
    BY <2>1 DEF OneMainline
<1>4. ASSUME NEW p \in Nodes, NEW c \in Nodes,
             mainline' = Demoted(p) \cup {<<p, c>>}
      PROVE  OneMainline'
  BY <1>4 DEF Demoted, OneMainline
<1>5. ASSUME NEW p \in Nodes, NEW c \in Nodes, NEW isMain \in BOOLEAN,
             CreateEdge(p, c, isMain)
      PROVE  OneMainline'
  <2>1. mainline' = mainline \/ mainline' = Demoted(p) \cup {<<p, c>>}
    BY <1>5 DEF CreateEdge
  <2>2. QED
    BY <1>4, <2>1 DEF OneMainline
<1>6. ASSUME NEW p \in Nodes, NEW c \in Nodes, Promote(p, c)
      PROVE  OneMainline'
  BY <1>4, <1>6 DEF Promote
<1>7. ASSUME NEW n \in Nodes, NEW p \in Nodes, MoveNode(n, p) \/ ReparentNode(n, p)
      PROVE  OneMainline'
  BY <1>7, AttachMainline DEF MoveNode, ReparentNode
<1>8. ASSUME NEW b \in Branches, NEW n \in Nodes, CreateBranch(b, n)
      PROVE  OneMainline'
  BY <1>8, CopyMainline
<1>9. ASSUME NEW b \in Branches, NEW t \in Nodes, MergeBranch(b, t)
      PROVE  OneMainline'
  BY <1>9, AttachMainline DEF MergeBranch, OnBranch
<1>10. ASSUME NEW b \in Branches, ArchiveBranch(b)
       PROVE  OneMainline'
  BY <1>10 DEF ArchiveBranch, OneMainline
<1>11. ASSUME UNCHANGED mainline
       PROVE  OneMainline'
  BY <1>11 DEF OneMainline
<1>12. QED
  BY <1>1, <1>2, <1>3, <1>5, <1>6, <1>7, <1>8, <1>9, <1>10, <1>11
     DEF Next, NodeStep, BranchStep, EdgeStep, AgentCreateNode, AgentCreateEdge, vars

\* The write paths of the API alone keep one mainline child per parent.
THEOREM MainlineUnique == Spec => []OneMainline
<1>1. Init => OneMainline
  BY DEF Init, OneMainline
<1>2. TypeOK /\ OneMainline /\ [Next]_vars => OneMainline'
  BY MainlineStep
<1>3. QED
  BY <1>1, <1>2, TreeTypes, PTL DEF Spec

-----------------------------------------------------------------------------
(* Closed branches. *)

\* No operation puts a node on a branch that has been merged.
LEMMA ClosedStep ==
  ASSUME TypeOK, ClosedBranchIsEmpty, [Next]_vars
  PROVE  ClosedBranchIsEmpty'
<1> USE MainAssumption
<1>1. ASSUME NEW n \in Nodes, NEW p \in Nodes \cup {NoParent},
             NEW b \in Branches \cup {Main},
             CreateNode(n, p, b) \/ AgentCreateNode(n, p, b)
      PROVE  ClosedBranchIsEmpty'
  BY <1>1 DEF CreateNode, AgentCreateNode, ClosedBranchIsEmpty, OnBranch, TypeOK
<1>2. ASSUME NEW n \in Nodes, NEW p \in Nodes, ApproveCreateChild(n, p)
      PROVE  ClosedBranchIsEmpty'
  BY <1>2 DEF ApproveCreateChild, ClosedBranchIsEmpty, OnBranch, TypeOK
<1>3. ASSUME NEW n \in Nodes, DeleteNode(n)
      PROVE  ClosedBranchIsEmpty'
  BY <1>3 DEF DeleteNode, ClosedBranchIsEmpty, OnBranch, TypeOK
<1>4. ASSUME UNCHANGED <<live, home, branch>>
      PROVE  ClosedBranchIsEmpty'
  BY <1>4 DEF ClosedBranchIsEmpty, OnBranch
<1>5. ASSUME NEW b \in Branches, NEW n \in Nodes, CreateBranch(b, n)
      PROVE  ClosedBranchIsEmpty'
  <2>1. PICK f \in [Subtree(n) -> Nodes \ live] :
          /\ home' = [m \in Nodes |-> IF \E x \in Subtree(n) : m = f[x]
                                        THEN b ELSE home[m]]
          /\ live' = live \cup {f[x] : x \in Subtree(n)}
    BY <1>5, CopyShape
  <2>2. branch' = [branch EXCEPT ![b] = "active"]
    BY <1>5 DEF CreateBranch
  <2>3. ASSUME NEW a \in Branches, branch'[a] \in {"none", "merged"},
               NEW m \in live', home'[m] = a
        PROVE  FALSE
    <3>1. a # b /\ branch[a] \in {"none", "merged"}
      BY <2>2, <2>3 DEF TypeOK
    <3>2. m \in live /\ home[m] = a
      BY <2>1, <2>3, <3>1 DEF TypeOK
    <3>3. QED
      BY <3>1, <3>2 DEF ClosedBranchIsEmpty, OnBranch
  <2>4. QED
    BY <2>3 DEF ClosedBranchIsEmpty, OnBranch
<1>6. ASSUME NEW b \in Branches, NEW t \in Nodes, MergeBranch(b, t)
      PROVE  ClosedBranchIsEmpty'
  BY <1>6 DEF MergeBranch, ClosedBranchIsEmpty, OnBranch, TypeOK
<1>7. ASSUME NEW b \in Branches, ArchiveBranch(b)
      PROVE  ClosedBranchIsEmpty'
  BY <1>7 DEF ArchiveBranch, ClosedBranchIsEmpty, OnBranch, TypeOK
<1>8. QED
  BY <1>1, <1>2, <1>3, <1>4, <1>5, <1>6, <1>7
     DEF Next, NodeStep, BranchStep, EdgeStep, CreateEdge, AgentCreateEdge, Promote,
         MoveNode, ReparentNode, vars

\* A merge leaves no node behind and nothing reaches a merged branch later, not
\* even an artifact approved after the merge.
THEOREM ClosedBranches == Spec => []ClosedBranchIsEmpty
<1>1. Init => ClosedBranchIsEmpty
  BY RootAssumption, MainAssumption DEF Init, ClosedBranchIsEmpty, OnBranch
<1>2. TypeOK /\ ClosedBranchIsEmpty /\ [Next]_vars => ClosedBranchIsEmpty'
  BY ClosedStep
<1>3. QED
  BY <1>1, <1>2, TreeTypes, PTL DEF Spec

-----------------------------------------------------------------------------
(* Deletions. *)

\* Nothing but delete_node removes a node.
LEMMA OnlyDeletionRemoves ==
  ASSUME [Next]_vars, live \ live' # {}
  PROVE  \E n \in Nodes : DeleteNode(n)
BY DEF Next, NodeStep, BranchStep, EdgeStep, CreateNode, AgentCreateNode,
       ApproveCreateChild, CreateEdge, AgentCreateEdge, Promote, MoveNode, ReparentNode, CreateBranch, MergeBranch,
       ArchiveBranch, vars

\* The action that DeletionIsContained allows.
Contained ==
  LET gone == live \ live'
  IN gone # {} =>
       /\ \A n \in live' : Parents(n)' = Parents(n)
       /\ \A e, f \in child :
            {e[1], f[1]} \subseteq live' /\ {e[2], f[2]} \subseteq gone => e = f
       /\ \A m, n \in gone : home[m] = home[n]

\* Every step removes nothing, or one whole subtree.
LEMMA ContainedStep ==
  ASSUME TypeOK, [Next]_vars
  PROVE  Contained
<1> SUFFICES ASSUME live \ live' # {}
             PROVE  Contained
  BY DEF Contained
<1>1. PICK n \in Nodes : DeleteNode(n)
  BY OnlyDeletionRemoves
<1>2. PICK S : S = Subtree(n)
  OBVIOUS
<1>3. S \subseteq Nodes /\ n \in S /\ \A e \in child : e[1] \in S => e[2] \in S
  BY <1>2, SubtreeClosed DEF Closed
<1>4. /\ live' = live \ S
      /\ child' = child \ {e \in child : e[1] \in S \/ e[2] \in S}
  BY <1>1, <1>2 DEF DeleteNode, Severed
<1>5. /\ \A x \in S : home[x] = home[n]
      /\ \A x \in S \ {n} : \E p \in S : Parents(x) = {p}
      /\ \A p, q \in Parents(n) : p = q
  BY <1>1, <1>2, <1>3 DEF DeleteNode, ValidateClosure, OneBranchTree, HasOneParentAtMost
<1>6. ASSUME NEW x \in live'
      PROVE  Parents(x)' = Parents(x)
  <2>1. ASSUME NEW p \in Nodes
        PROVE  <<p, x>> \in child' <=> <<p, x>> \in child
    BY <1>3, <1>4, <1>6
  <2>2. QED
    BY <2>1 DEF Parents
<1>7. ASSUME NEW e \in child, e[1] \in live', e[2] \in live \ live'
      PROVE  e[2] = n /\ e[1] \in Parents(n)
  <2>1. e[1] \notin S /\ e[2] \in S /\ e[1] \in Nodes /\ e[1] \in Parents(e[2])
    BY <1>3, <1>4, <1>7 DEF TypeOK, Parents
  <2>2. QED
    BY <1>5, <2>1
<1>8. ASSUME NEW e \in child, NEW f \in child,
             {e[1], f[1]} \subseteq live', {e[2], f[2]} \subseteq live \ live'
      PROVE  e = f
  <2>1. e[1] = f[1] /\ e[2] = f[2]
    BY <1>5, <1>7, <1>8
  <2>2. QED
    BY <2>1 DEF TypeOK
<1>9. \A m, k \in live \ live' : home[m] = home[k]
  BY <1>4, <1>5
<1>10. QED
  BY <1>6, <1>8, <1>9 DEF Contained

\* A deletion orphans no survivor, cuts one edge at most and stays on one branch.
THEOREM DeletionContained == Spec => DeletionIsContained
<1>1. TypeOK /\ [Next]_vars => [Contained]_vars
  BY ContainedStep
<1>2. Spec => [][Contained]_vars
  BY <1>1, TreeTypes, PTL DEF Spec
<1>3. QED
  BY <1>2 DEF Contained, DeletionIsContained

-----------------------------------------------------------------------------
(* Graphs without cycles. *)

\* The two halves of Acyclic.  Without assuming that the nodes are finitely many
\* neither follows from the other, so that each is kept by induction.
BeginsAbove ==
  \A S \in SUBSET Nodes :
    S # {} => \E x \in S : \A p \in S : <<p, x>> \notin child

EndsBelow ==
  \A S \in SUBSET Nodes :
    S # {} => \E x \in S : \A c \in S : <<x, c>> \notin child

\* Acyclic is both of them.
LEMMA AcyclicHalves ==
  /\ Acyclic <=> BeginsAbove /\ EndsBelow
  /\ Acyclic' <=> BeginsAbove' /\ EndsBelow'
BY DEF Acyclic, BeginsAbove, EndsBelow

\* A subset of an acyclic relation is acyclic.
LEMMA AcyclicSubset ==
  ASSUME Acyclic, child' \subseteq child
  PROVE  Acyclic'
<1>1. BeginsAbove'
  BY AcyclicHalves DEF BeginsAbove
<1>2. EndsBelow'
  BY AcyclicHalves DEF EndsBelow
<1>3. QED
  BY <1>1, <1>2, AcyclicHalves

\* Hanging n below a node outside its own subtree: a set that leaves the subtree
\* begins outside it.
LEMMA AttachBegins ==
  ASSUME TypeOK, BeginsAbove, NEW n \in Nodes, NEW p \in Nodes, p \notin Subtree(n),
         child' \subseteq child \cup {<<p, n>>}
  PROVE  BeginsAbove'
<1>1. PICK T : T = Subtree(n)
  OBVIOUS
<1>2. n \in T /\ p \notin T /\ \A e \in child : e[1] \in T => e[2] \in T
  BY <1>1, SubtreeClosed DEF Closed
<1>3. ASSUME NEW S \in SUBSET Nodes, S # {}
      PROVE  \E x \in S : \A q \in S : <<q, x>> \notin child'
  <2>1. \A q, x : <<q, x>> \in child' => <<q, x>> \in child \/ (q = p /\ x = n)
    OBVIOUS
  <2>2. CASE S \ T = {}
    <3>1. PICK x \in S : \A q \in S : <<q, x>> \notin child
      BY <1>3 DEF BeginsAbove
    <3>2. \A q \in S : <<q, x>> \notin child'
      BY <1>2, <2>1, <2>2, <3>1
    <3>3. QED
      BY <3>2
  <2>3. CASE S \ T # {}
    <3>1. PICK x \in S \ T : \A q \in S \ T : <<q, x>> \notin child
      BY <2>3 DEF BeginsAbove
    <3>2. ASSUME NEW q \in S, <<q, x>> \in child'
          PROVE  FALSE
      <4>1. <<q, x>> \in child
        BY <1>2, <2>1, <3>1, <3>2
      <4>2. q \in T
        BY <3>1, <4>1
      <4>3. QED
        BY <1>2, <3>1, <4>1, <4>2
    <3>3. QED
      BY <3>1, <3>2
  <2>4. QED
    BY <2>2, <2>3
<1>4. QED
  BY <1>3 DEF BeginsAbove

\* Hanging n below a node outside its own subtree: a set that meets the subtree
\* ends in it, for the new edge leads into it and does not start there.
LEMMA AttachEnds ==
  ASSUME TypeOK, EndsBelow, NEW n \in Nodes, NEW p \in Nodes, p \notin Subtree(n),
         child' \subseteq child \cup {<<p, n>>}
  PROVE  EndsBelow'
<1>1. PICK T : T = Subtree(n)
  OBVIOUS
<1>2. n \in T /\ p \notin T /\ \A e \in child : e[1] \in T => e[2] \in T
  BY <1>1, SubtreeClosed DEF Closed
<1>3. \A x, c : <<x, c>> \in child' => <<x, c>> \in child \/ (x = p /\ c = n)
  OBVIOUS
<1>4. ASSUME NEW S \in SUBSET Nodes, S # {}
      PROVE  \E x \in S : \A c \in S : <<x, c>> \notin child'
  <2>1. CASE S \cap T = {}
    <3>1. PICK x \in S : \A c \in S : <<x, c>> \notin child
      BY <1>4 DEF EndsBelow
    <3>2. \A c \in S : <<x, c>> \notin child'
      BY <1>2, <1>3, <2>1, <3>1
    <3>3. QED
      BY <3>2
  <2>2. CASE S \cap T # {}
    <3>1. PICK x \in S \cap T : \A c \in S \cap T : <<x, c>> \notin child
      BY <2>2 DEF EndsBelow
    <3>2. ASSUME NEW c \in S, <<x, c>> \in child'
          PROVE  FALSE
      <4>1. <<x, c>> \in child
        BY <1>2, <1>3, <3>1, <3>2
      <4>2. c \in T
        BY <1>2, <3>1, <4>1
      <4>3. QED
        BY <3>1, <4>1, <4>2
    <3>3. QED
      BY <3>1, <3>2
  <2>3. QED
    BY <2>1, <2>2
<1>5. QED
  BY <1>4 DEF EndsBelow

\* Hanging n below a node outside its own subtree closes no cycle.
LEMMA AttachAcyclic ==
  ASSUME TypeOK, Acyclic, NEW n \in Nodes, NEW p \in Nodes, p \notin Subtree(n),
         child' \subseteq child \cup {<<p, n>>}
  PROVE  Acyclic'
BY AttachBegins, AttachEnds, AcyclicHalves

\* A node that does not exist yet has neither edges nor a subtree.
LEMMA FreshNode ==
  ASSUME TypeOK, NEW n \in Nodes, n \notin live
  PROVE  /\ \A e \in child : e[1] # n /\ e[2] # n
         /\ Incoming(n) = {}
         /\ Subtree(n) \subseteq {n}
<1>1. \A e \in child : e[1] # n /\ e[2] # n
  BY DEF TypeOK
<1>2. Incoming(n) = {}
  BY <1>1 DEF Incoming, Parents
<1>3. Closed({n})
  BY <1>1 DEF Closed
<1>4. Subtree(n) \subseteq {n}
  BY <1>3, SubtreeLeast
<1>5. QED
  BY <1>1, <1>2, <1>4

\* A branch copy begins where its source begins.
LEMMA CopyBegins ==
  ASSUME TypeOK, BeginsAbove, NEW b \in Branches, NEW n \in Nodes, CreateBranch(b, n)
  PROVE  BeginsAbove'
<1>1. PICK f \in [Subtree(n) -> Nodes \ live] :
        /\ \A x, y \in Subtree(n) : f[x] = f[y] => x = y
        /\ \A d \in child' :
             \/ d \in child
             \/ \E e \in child : /\ {e[1], e[2]} \subseteq Subtree(n)
                                 /\ d = <<f[e[1]], f[e[2]]>>
  BY CopyShape
<1>2. \A x \in Subtree(n) : f[x] \in Nodes /\ f[x] \notin live
  BY <1>1
<1>3. \A e \in child : e = <<e[1], e[2]>> /\ e[1] \in live /\ e[2] \in live
  BY DEF TypeOK
<1>4. ASSUME NEW S \in SUBSET Nodes, S # {}
      PROVE  \E x \in S : \A q \in S : <<q, x>> \notin child'
  <2>1. CASE \E x \in Subtree(n) : f[x] \in S
    <3>1. PICK U : U = {x \in Subtree(n) : f[x] \in S}
      OBVIOUS
    <3>2. U \in SUBSET Nodes /\ U # {}
      BY <2>1, <3>1, SubtreeClosed
    <3>3. PICK u \in U : \A q \in U : <<q, u>> \notin child
      BY <3>2 DEF BeginsAbove
    <3>4. ASSUME NEW q \in S, <<q, f[u]>> \in child'
          PROVE  FALSE
      <4>1. <<q, f[u]>> \notin child
        BY <1>2, <1>3, <3>1
      <4>2. PICK e \in child : /\ {e[1], e[2]} \subseteq Subtree(n)
                               /\ <<q, f[u]>> = <<f[e[1]], f[e[2]]>>
        BY <1>1, <3>4, <4>1
      <4>3. e[2] = u /\ e[1] \in U
        BY <1>1, <3>1, <4>2
      <4>4. QED
        BY <1>3, <3>3, <4>2, <4>3
    <3>5. QED
      BY <3>1, <3>4
  <2>2. CASE \A x \in Subtree(n) : f[x] \notin S
    <3>1. PICK x \in S : \A q \in S : <<q, x>> \notin child
      BY <1>4 DEF BeginsAbove
    <3>2. \A q \in S : <<q, x>> \notin child'
      BY <1>1, <2>2, <3>1
    <3>3. QED
      BY <3>2
  <2>3. QED
    BY <2>1, <2>2
<1>5. QED
  BY <1>4 DEF BeginsAbove

\* A branch copy ends where its source ends.
LEMMA CopyEnds ==
  ASSUME TypeOK, EndsBelow, NEW b \in Branches, NEW n \in Nodes, CreateBranch(b, n)
  PROVE  EndsBelow'
<1>1. PICK f \in [Subtree(n) -> Nodes \ live] :
        /\ \A x, y \in Subtree(n) : f[x] = f[y] => x = y
        /\ \A d \in child' :
             \/ d \in child
             \/ \E e \in child : /\ {e[1], e[2]} \subseteq Subtree(n)
                                 /\ d = <<f[e[1]], f[e[2]]>>
  BY CopyShape
<1>2. \A x \in Subtree(n) : f[x] \in Nodes /\ f[x] \notin live
  BY <1>1
<1>3. \A e \in child : e = <<e[1], e[2]>> /\ e[1] \in live /\ e[2] \in live
  BY DEF TypeOK
<1>4. ASSUME NEW S \in SUBSET Nodes, S # {}
      PROVE  \E x \in S : \A c \in S : <<x, c>> \notin child'
  <2>1. CASE \E x \in Subtree(n) : f[x] \in S
    <3>1. PICK U : U = {x \in Subtree(n) : f[x] \in S}
      OBVIOUS
    <3>2. U \in SUBSET Nodes /\ U # {}
      BY <2>1, <3>1, SubtreeClosed
    <3>3. PICK u \in U : \A c \in U : <<u, c>> \notin child
      BY <3>2 DEF EndsBelow
    <3>4. ASSUME NEW c \in S, <<f[u], c>> \in child'
          PROVE  FALSE
      <4>1. <<f[u], c>> \notin child
        BY <1>2, <1>3, <3>1
      <4>2. PICK e \in child : /\ {e[1], e[2]} \subseteq Subtree(n)
                               /\ <<f[u], c>> = <<f[e[1]], f[e[2]]>>
        BY <1>1, <3>4, <4>1
      <4>3. e[1] = u /\ e[2] \in U
        BY <1>1, <3>1, <4>2
      <4>4. QED
        BY <1>3, <3>3, <4>2, <4>3
    <3>5. QED
      BY <3>1, <3>4
  <2>2. CASE \A x \in Subtree(n) : f[x] \notin S
    <3>1. PICK x \in S : \A c \in S : <<x, c>> \notin child
      BY <1>4 DEF EndsBelow
    <3>2. \A c \in S : <<x, c>> \notin child'
      BY <1>1, <2>2, <3>1
    <3>3. QED
      BY <3>2
  <2>3. QED
    BY <2>1, <2>2
<1>5. QED
  BY <1>4 DEF EndsBelow

\* Without an edge out of the branch, the target of a merge is not below the
\* node that is hung there.
LEMMA MergeOutside ==
  ASSUME TypeOK, Confined, NEW b \in Branches, NEW t \in Nodes, NEW r \in OnBranch(b),
         MergeBranch(b, t)
  PROVE  t \notin Subtree(r)
<1>1. r \in Nodes /\ home[r] = b /\ home[t] # b
  BY MainAssumption DEF MergeBranch, OnBranch, TypeOK
<1>2. PICK C : C = {x \in Nodes : home[x] = b}
  OBVIOUS
<1>3. Closed(C)
  BY <1>2 DEF Closed, TypeOK, Confined
<1>4. QED
  BY <1>1, <1>2, <1>3, SubtreeLeast

\* A merge hangs such a branch below a node that is not on it.
LEMMA MergeAcyclic ==
  ASSUME TypeOK, Acyclic, Confined, NEW b \in Branches, NEW t \in Nodes,
         MergeBranch(b, t)
  PROVE  Acyclic'
<1>1. PICK r \in OnBranch(b) : Attach(r, t)
  BY DEF MergeBranch
<1>2. r \in Nodes /\ t \notin Subtree(r)
  BY <1>1, MergeOutside DEF OnBranch, TypeOK
<1>3. child' \subseteq child \cup {<<t, r>>}
  BY <1>1 DEF Attach
<1>4. QED
  BY <1>2, <1>3, AttachAcyclic

\* A new node closes no cycle, wherever it is put.
LEMMA NewNodeAcyclic ==
  ASSUME TypeOK, Acyclic, NEW n \in Nodes, n \notin live, NEW p \in live,
         child' = child \cup {<<p, n>>}
  PROVE  Acyclic'
<1>1. p \in Nodes /\ p \notin Subtree(n)
  BY FreshNode DEF TypeOK
<1>2. QED
  BY <1>1, AttachAcyclic

\* The cycle detection of a move to another node is enough.
LEMMA MoveAcyclic ==
  ASSUME TypeOK, Acyclic, NEW n \in Nodes, NEW p \in Nodes, p # n,
         p \notin Descendants(n), Attach(n, p)
  PROVE  Acyclic'
<1>1. p \notin Subtree(n) /\ child' \subseteq child \cup {<<p, n>>}
  BY DescendantsSubtree DEF Attach
<1>2. QED
  BY <1>1, AttachAcyclic

\* Only three kinds of steps can close a cycle.
LEMMA AcyclicStep ==
  ASSUME TypeOK, Acyclic, [Next]_vars
  PROVE  Acyclic' \/ Drawn \/ MovedIntoItself \/ MergeBelowItself
<1>1. ASSUME NEW n \in Nodes, NEW p \in Nodes \cup {NoParent},
             NEW b \in Branches \cup {Main}, CreateNode(n, p, b)
      PROVE  Acyclic'
  <2>1. CASE p = NoParent
    BY <1>1, <2>1, AcyclicSubset DEF CreateNode
  <2>2. CASE p # NoParent
    BY <1>1, <2>2, NewNodeAcyclic DEF CreateNode, AddChild
  <2>3. QED
    BY <2>1, <2>2
<1>2. ASSUME NEW n \in Nodes, NEW p \in Nodes \cup {NoParent},
             NEW b \in Branches \cup {Main}, AgentCreateNode(n, p, b)
      PROVE  Acyclic'
  <2>1. CASE p = NoParent
    BY <1>2, <2>1, AcyclicSubset DEF AgentCreateNode
  <2>2. CASE p # NoParent
    <3>1. p \in live /\ n \notin live /\ child' = child \cup {<<p, n>>}
      BY <1>2, <2>2 DEF AgentCreateNode
    <3>2. QED
      BY <3>1, NewNodeAcyclic
  <2>3. QED
    BY <2>1, <2>2
<1>3. ASSUME NEW n \in Nodes, NEW p \in Nodes, ApproveCreateChild(n, p)
      PROVE  Acyclic'
  BY <1>3, NewNodeAcyclic DEF ApproveCreateChild, AddChild
<1>4. ASSUME NEW n \in Nodes, DeleteNode(n)
      PROVE  Acyclic'
  BY <1>4, AcyclicSubset DEF DeleteNode
<1>5. ASSUME NEW n \in Nodes, NEW p \in Nodes, MoveNode(n, p)
      PROVE  Acyclic' \/ MovedIntoItself
  <2>1. CASE p = n
    BY <1>5, <2>1 DEF MovedIntoItself
  <2>2. CASE p # n
    BY <1>5, <2>2, MoveAcyclic DEF MoveNode
  <2>3. QED
    BY <2>1, <2>2
<1>6. ASSUME NEW n \in Nodes, NEW p \in Nodes, ReparentNode(n, p)
      PROVE  Acyclic'
  BY <1>6, MoveAcyclic DEF ReparentNode
<1>7. ASSUME NEW b \in Branches, NEW n \in Nodes, CreateBranch(b, n)
      PROVE  Acyclic'
  BY <1>7, CopyBegins, CopyEnds, AcyclicHalves
<1>8. ASSUME NEW b \in Branches, NEW t \in Nodes, MergeBranch(b, t)
      PROVE  Acyclic' \/ MergeBelowItself
  BY <1>8, MergeAcyclic DEF MergeBelowItself
<1>9. ASSUME UNCHANGED child
      PROVE  Acyclic'
  BY <1>9, AcyclicSubset
<1>10. ASSUME NEW p \in Nodes, NEW c \in Nodes, EdgeStep(p, c)
       PROVE  Drawn
  BY <1>10 DEF Drawn
<1>11. QED
  BY <1>1, <1>2, <1>3, <1>4, <1>5, <1>6, <1>7, <1>8, <1>9, <1>10
     DEF Next, NodeStep, BranchStep, Promote, ArchiveBranch, vars

\* In a graph without cycles, the nodes on the mainline have a last one.
LEMMA MainlineHasLeaf ==
  ASSUME TypeOK, Acyclic
  PROVE  MainlinePathEnds
<1>1. MainlineReach \in SUBSET Nodes /\ Root \in MainlineReach
  BY RootAssumption DEF MainlineReach
<1>2. ASSUME NEW e \in mainline, e[1] \in MainlineReach
      PROVE  e[2] \in MainlineReach
  <2>1. e[2] \in Nodes
    BY DEF TypeOK
  <2>2. ASSUME NEW C \in SUBSET Nodes, Root \in C,
               \A d \in mainline : d[1] \in C => d[2] \in C
        PROVE  e[2] \in C
    BY <1>2, <2>2 DEF MainlineReach
  <2>3. QED
    BY <2>1, <2>2 DEF MainlineReach
<1>3. PICK leaf \in MainlineReach : \A c \in MainlineReach : <<leaf, c>> \notin child
  BY <1>1, AcyclicHalves DEF EndsBelow
<1>4. \A e \in mainline : e \in child /\ e = <<e[1], e[2]>>
  BY DEF TypeOK
<1>5. \A e \in mainline : e[1] # leaf
  BY <1>2, <1>3, <1>4
<1>6. QED
  BY <1>5 DEF MainlinePathEnds

\* The action that WalksStayFinite allows.
WalkKept ==
  Acyclic => \/ Acyclic' /\ MainlinePathEnds'
             \/ Drawn \/ MovedIntoItself \/ MergeBelowItself

\* Without an edge drawn by hand, a node moved into itself or the merge of a
\* branch with an edge out of it, a graph stays free of cycles, and the loop of
\* get_mainline_path (api/routes.py) comes to a node without a mainline child,
\* for any number of nodes.
THEOREM WalksFinite == Spec => WalksStayFinite
<1>1. TypeOK /\ Acyclic => MainlinePathEnds
  BY MainlineHasLeaf
<1>2. TypeOK' /\ Acyclic' => MainlinePathEnds'
  BY <1>1, PTL
<1>3. TypeOK /\ TypeOK' /\ [Next]_vars => [WalkKept]_vars
  BY <1>2, AcyclicStep DEF WalkKept
<1>4. Spec => [][WalkKept]_vars
  BY <1>3, TreeTypes, PTL DEF Spec
<1>5. QED
  BY <1>4 DEF WalkKept, WalksStayFinite

-----------------------------------------------------------------------------
(* Forests. *)

\* Attach itself, for a node that is not the root.
LEMMA AttachForest ==
  ASSUME TypeOK, Forest, NEW n \in Nodes, NEW p \in Nodes, n # Root,
         p \notin Subtree(n), child' = (child \ Incoming(n)) \cup {<<p, n>>}, UNCHANGED doubled
  PROVE  SingleParent' /\ Acyclic' /\ Parents(Root)' = {}
<1>1. Acyclic'
  BY AttachAcyclic DEF Forest
<1>2. ASSUME NEW e \in child \ Incoming(n)
      PROVE  e[2] # n
  <2>1. e = <<e[1], e[2]>> /\ e[1] \in Nodes
    BY DEF TypeOK
  <2>2. e[2] = n => e[1] \in Parents(n)
    BY <2>1 DEF Parents
  <2>3. QED
    BY <2>1, <2>2 DEF Incoming
<1>3. SingleParent'
  BY <1>2 DEF SingleParent, Forest
<1>4. Parents(Root)' = {}
  BY DEF Parents, Forest
<1>5. QED
  BY <1>1, <1>3, <1>4

\* A new node below a node of its branch keeps the forest.
LEMMA NewNodeForest ==
  ASSUME TypeOK, Forest, NEW n \in Nodes, n \notin live, NEW p \in live,
         NEW b, home' = [home EXCEPT ![n] = b], home[p] = b,
         child' = child \cup {<<p, n>>}, UNCHANGED doubled
  PROVE  Forest'
<1>1. child' = (child \ Incoming(n)) \cup {<<p, n>>} /\ p \notin Subtree(n) /\ n # Root
  BY FreshNode DEF TypeOK
<1>2. p \in Nodes
  BY DEF TypeOK
<1>3. SingleParent' /\ Acyclic' /\ Parents(Root)' = {}
  BY <1>1, <1>2, AttachForest
<1>4. \A e \in child : e[1] # n /\ e[2] # n /\ e[1] \in Nodes /\ e[2] \in Nodes
  BY FreshNode DEF TypeOK
<1>5. \A x \in Nodes : home'[x] = IF x = n THEN b ELSE home[x]
  BY DEF TypeOK
<1>6. Confined'
  <2>1. ASSUME NEW e \in child'
        PROVE  home'[e[1]] = home'[e[2]]
    <3>1. CASE e \in child
      BY <1>4, <1>5, <3>1 DEF Confined, Forest
    <3>2. CASE e = <<p, n>>
      BY <1>2, <1>5, <3>2
    <3>3. QED
      BY <3>1, <3>2
  <2>2. QED
    BY <2>1 DEF Confined
<1>7. QED
  BY <1>3, <1>6 DEF Forest

\* So does a new node without a parent.
LEMMA LooseNodeForest ==
  ASSUME TypeOK, Forest, NEW n \in Nodes, n \notin live, NEW b,
         home' = [home EXCEPT ![n] = b], UNCHANGED <<child, doubled>>
  PROVE  Forest'
<1>1. \A e \in child : e[1] # n /\ e[2] # n
  BY FreshNode
<1>2. \A x \in Nodes : x # n => home'[x] = home[x]
  BY DEF TypeOK
<1>3. Confined'
  BY <1>1, <1>2 DEF Confined, Forest, TypeOK
<1>4. SingleParent' /\ Acyclic' /\ Parents(Root)' = {}
  BY DEF SingleParent, Acyclic, Parents, Forest
<1>5. QED
  BY <1>3, <1>4 DEF Forest

\* Removing a subtree keeps the forest.
LEMMA DeleteForest ==
  ASSUME TypeOK, Forest, NEW n \in Nodes, DeleteNode(n)
  PROVE  Forest'
<1>1. PICK S : S = Subtree(n)
  OBVIOUS
<1>2. /\ child' = child \ {e \in child : e[1] \in S \/ e[2] \in S}
      /\ doubled' \subseteq doubled
      /\ home' = [x \in Nodes |-> IF x \in S THEN Main ELSE home[x]]
  BY <1>1 DEF DeleteNode, Severed
<1>3. child' \subseteq child
  BY <1>2
<1>4. Acyclic'
  BY <1>3, AcyclicSubset DEF Forest
<1>5. SingleParent' /\ Parents(Root)' = {}
  BY <1>2, <1>3 DEF SingleParent, Parents, Forest
<1>6. Confined'
  BY <1>2 DEF Confined, Forest, TypeOK
<1>7. QED
  BY <1>4, <1>5, <1>6 DEF Forest

\* Moving a subtree below a node outside it keeps the forest, unless that node
\* is on another branch.
LEMMA MoveForest ==
  ASSUME TypeOK, Forest, NEW n \in live \ {Root}, NEW p \in live, p # n,
         p \notin Descendants(n), Attach(n, p), UNCHANGED <<home, doubled>>
  PROVE  Forest' \/ Crosses
<1>1. n \in Nodes /\ p \in Nodes /\ p \notin Subtree(n)
  BY DescendantsSubtree DEF TypeOK
<1>2. child' = (child \ Incoming(n)) \cup {<<p, n>>}
  BY DEF Attach
<1>3. SingleParent' /\ Acyclic' /\ Parents(Root)' = {}
  BY <1>1, <1>2, AttachForest
<1>4. CASE home[n] = home[p]
  <2>1. Confined'
    BY <1>2, <1>4 DEF Confined, Forest
  <2>2. QED
    BY <1>3, <2>1 DEF Forest
<1>5. CASE home[n] # home[p]
  <2>1. <<p, n>> \in child' \ child
    BY <1>2, <1>5 DEF Confined, Forest
  <2>2. QED
    BY <1>5, <2>1 DEF Crosses
<1>6. QED
  BY <1>4, <1>5

\* A branch copy is a new tree of its own branch.
LEMMA CopyForest ==
  ASSUME TypeOK, Forest, NEW b \in Branches, NEW n \in Nodes, CreateBranch(b, n)
  PROVE  Forest'
<1>1. PICK f \in [Subtree(n) -> Nodes \ live] :
        /\ \A x, y \in Subtree(n) : f[x] = f[y] => x = y
        /\ \A d \in child' :
             \/ d \in child
             \/ \E e \in child : /\ {e[1], e[2]} \subseteq Subtree(n)
                                 /\ d = <<f[e[1]], f[e[2]]>>
        /\ doubled = {} => doubled' = {}
        /\ home' = [m \in Nodes |-> IF \E x \in Subtree(n) : m = f[x]
                                      THEN b ELSE home[m]]
  BY CopyShape
<1>2. \A x \in Subtree(n) : f[x] \in Nodes /\ f[x] \notin live
  BY <1>1
<1>3. \A e \in child : e = <<e[1], e[2]>> /\ e[1] \in live /\ e[2] \in live
                         /\ e[1] \in Nodes /\ e[2] \in Nodes
  BY DEF TypeOK
<1>4. SingleParent'
  <2>1. ASSUME NEW d \in child', NEW g \in child', d[2] = g[2]
        PROVE  d = g
    <3>1. CASE d \in child /\ g \in child
      BY <2>1, <3>1 DEF SingleParent, Forest
    <3>2. CASE d \notin child /\ g \notin child
      <4>1. PICK e \in child : /\ {e[1], e[2]} \subseteq Subtree(n)
                               /\ d = <<f[e[1]], f[e[2]]>>
        BY <1>1, <3>2
      <4>2. PICK h \in child : /\ {h[1], h[2]} \subseteq Subtree(n)
                               /\ g = <<f[h[1]], f[h[2]]>>
        BY <1>1, <3>2
      <4>3. e[2] = h[2]
        BY <1>1, <2>1, <4>1, <4>2
      <4>4. QED
        BY <4>1, <4>2, <4>3 DEF SingleParent, Forest
    <3>3. CASE d \in child /\ g \notin child
      BY <1>1, <1>2, <1>3, <2>1, <3>3
    <3>4. CASE d \notin child /\ g \in child
      BY <1>1, <1>2, <1>3, <2>1, <3>4
    <3>5. QED
      BY <3>1, <3>2, <3>3, <3>4
  <2>2. QED
    BY <1>1, <2>1 DEF SingleParent, Forest
<1>5. Confined'
  <2>1. ASSUME NEW d \in child'
        PROVE  home'[d[1]] = home'[d[2]]
    <3>1. CASE d \in child
      <4>1. \A x \in Subtree(n) : d[1] # f[x] /\ d[2] # f[x]
        BY <1>2, <1>3, <3>1
      <4>2. home'[d[1]] = home[d[1]] /\ home'[d[2]] = home[d[2]]
        BY <1>1, <1>3, <3>1, <4>1
      <4>3. QED
        BY <3>1, <4>2 DEF Confined, Forest
    <3>2. CASE d \notin child
      <4>1. PICK e \in child : /\ {e[1], e[2]} \subseteq Subtree(n)
                               /\ d = <<f[e[1]], f[e[2]]>>
        BY <1>1, <3>2
      <4>2. home'[d[1]] = b /\ home'[d[2]] = b
        BY <1>1, <1>2, <4>1
      <4>3. QED
        BY <4>2
    <3>3. QED
      BY <3>1, <3>2
  <2>2. QED
    BY <2>1 DEF Confined
<1>6. Acyclic'
  BY CopyBegins, CopyEnds, AcyclicHalves DEF Forest
<1>7. Root \in live /\ \A x \in Subtree(n) : f[x] # Root
  BY <1>2 DEF TypeOK
<1>8. Parents(Root)' = {}
  <2>1. ASSUME NEW p \in Nodes, <<p, Root>> \in child'
        PROVE  FALSE
    <3>1. <<p, Root>> \notin child
      BY DEF Parents, Forest
    <3>2. PICK e \in child : /\ {e[1], e[2]} \subseteq Subtree(n)
                             /\ <<p, Root>> = <<f[e[1]], f[e[2]]>>
      BY <1>1, <2>1, <3>1
    <3>3. QED
      BY <1>7, <3>2
  <2>2. QED
    BY <2>1 DEF Parents
<1>9. QED
  BY <1>4, <1>5, <1>6, <1>8 DEF Forest

\* A merge of a whole branch below a node of the main tree keeps the forest.
LEMMA MergeForest ==
  ASSUME TypeOK, Forest, NEW b \in Branches, NEW t \in Nodes, MergeBranch(b, t)
  PROVE  Forest'
<1>1. PICK r \in OnBranch(b) : Attach(r, t)
  BY DEF MergeBranch
<1>2. /\ r \in live /\ home[r] = b /\ t \in live /\ home[t] = Main
      /\ home' = [n \in Nodes |-> IF n \in OnBranch(b) THEN Main ELSE home[n]]
  BY DEF MergeBranch, OnBranch
<1>3. r \in Nodes /\ b # Main /\ r # Root
  BY <1>2, MainAssumption DEF TypeOK, Forest
<1>4. t \notin Subtree(r)
  BY <1>1, MergeOutside DEF Forest
<1>5. child' = (child \ Incoming(r)) \cup {<<t, r>>} /\ UNCHANGED doubled
  BY <1>1 DEF Attach, MergeBranch
<1>6. SingleParent' /\ Acyclic' /\ Parents(Root)' = {}
  BY <1>3, <1>4, <1>5, AttachForest DEF Forest
<1>7. \A x \in live : x \in Nodes /\ home'[x] = IF home[x] = b THEN Main ELSE home[x]
  BY <1>2 DEF OnBranch, TypeOK
<1>8. Confined'
  <2>1. ASSUME NEW e \in child'
        PROVE  home'[e[1]] = home'[e[2]]
    <3>1. CASE e \in child
      <4>1. e[1] \in live /\ e[2] \in live /\ home[e[1]] = home[e[2]]
        BY <3>1 DEF TypeOK, Confined, Forest
      <4>2. QED
        BY <1>7, <4>1
    <3>2. CASE e = <<t, r>>
      BY <1>2, <1>7, <3>2
    <3>3. QED
      BY <1>5, <3>1, <3>2
  <2>2. QED
    BY <2>1 DEF Confined
<1>9. QED
  BY <1>6, <1>8 DEF Forest

\* Only an unchecked step can break a forest.
LEMMA ForestStep ==
  ASSUME TypeOK, Forest, [Next]_vars
  PROVE  Forest' \/ Unchecked
<1>1. ASSUME NEW n \in Nodes, NEW p \in Nodes \cup {NoParent},
             NEW b \in Branches \cup {Main}, CreateNode(n, p, b)
      PROVE  Forest'
  <2>1. CASE p = NoParent
    BY <1>1, <2>1, LooseNodeForest DEF CreateNode
  <2>2. CASE p # NoParent
    BY <1>1, <2>2, NewNodeForest DEF CreateNode, AddChild
  <2>3. QED
    BY <2>1, <2>2
<1>2. ASSUME NEW n \in Nodes, NEW p \in Nodes \cup {NoParent},
             NEW b \in Branches \cup {Main}, AgentCreateNode(n, p, b)
      PROVE  Forest' \/ Crosses
  <2>1. CASE p = NoParent
    BY <1>2, <2>1, LooseNodeForest DEF AgentCreateNode
  <2>2. CASE p # NoParent
    <3>1. /\ p \in live /\ n \notin live /\ child' = child \cup {<<p, n>>}
          /\ home' = [home EXCEPT ![n] = b] /\ UNCHANGED doubled
      BY <1>2, <2>2 DEF AgentCreateNode
    <3>2. CASE home[p] = b
      BY <3>1, <3>2, NewNodeForest
    <3>3. CASE home[p] # b
      <4>1. p # n /\ p \in Nodes /\ <<p, n>> \in child' \ child
        BY <3>1, FreshNode DEF TypeOK
      <4>2. home'[p] = home[p] /\ home'[n] = b
        BY <3>1, <4>1 DEF TypeOK
      <4>3. QED
        BY <3>3, <4>1, <4>2 DEF Crosses
    <3>4. QED
      BY <3>2, <3>3
  <2>3. QED
    BY <2>1, <2>2
<1>3. ASSUME NEW n \in Nodes, NEW p \in Nodes, ApproveCreateChild(n, p)
      PROVE  Forest'
  BY <1>3, NewNodeForest DEF ApproveCreateChild, AddChild
<1>4. ASSUME NEW n \in Nodes, NEW p \in Nodes, MoveNode(n, p)
      PROVE  Forest' \/ Crosses \/ MovedIntoItself
  <2>1. CASE p = n
    BY <1>4, <2>1 DEF MovedIntoItself
  <2>2. CASE p # n
    BY <1>4, <2>2, MoveForest DEF MoveNode
  <2>3. QED
    BY <2>1, <2>2
<1>5. ASSUME NEW n \in Nodes, NEW p \in Nodes, ReparentNode(n, p)
      PROVE  Forest' \/ Crosses
  BY <1>5, MoveForest DEF ReparentNode
<1>6. ASSUME UNCHANGED <<home, child, doubled>>
      PROVE  Forest'
  BY <1>6 DEF Forest, Confined, SingleParent, Acyclic, Parents
<1>7. ASSUME NEW p \in Nodes, NEW c \in Nodes, EdgeStep(p, c)
      PROVE  Drawn
  BY <1>7 DEF Drawn
<1>8. QED
  BY <1>1, <1>2, <1>3, <1>4, <1>5, <1>6, <1>7, DeleteForest, CopyForest, MergeForest
     DEF Next, NodeStep, BranchStep, Promote, ArchiveBranch, Unchecked, vars

\* The action that ForestIsKept allows.
ForestKept == Forest => Forest' \/ Unchecked

\* As long as nobody draws a child_of edge by hand, puts a node below a node of
\* another branch or moves one into itself, the containment relation of a
\* project that is a forest stays one.
THEOREM TreeStaysForest == Spec => ForestIsKept
<1>1. TypeOK /\ [Next]_vars => [ForestKept]_vars
  BY ForestStep DEF ForestKept
<1>2. Spec => [][ForestKept]_vars
  BY <1>1, TreeTypes, PTL DEF Spec
<1>3. QED
  BY <1>2 DEF ForestKept, ForestIsKept

-----------------------------------------------------------------------------
(* What a grant shows. *)

\* Every node of a subtree but its top has a parent in the subtree.
LEMMA ParentInside ==
  ASSUME TypeOK, NEW n \in Nodes, NEW x \in Subtree(n), x # n
  PROVE  \E p \in Subtree(n) : <<p, x>> \in child
<1>1. SUFFICES ASSUME \A p \in Subtree(n) : <<p, x>> \notin child
               PROVE  FALSE
  OBVIOUS
<1>2. PICK C : C = Subtree(n) \ {x}
  OBVIOUS
<1>3. C \in SUBSET Nodes /\ n \in C
  BY <1>2, SubtreeClosed
<1>4. ASSUME NEW e \in child, e[1] \in C
      PROVE  e[2] \in C
  <2>1. e = <<e[1], e[2]>>
    BY DEF TypeOK
  <2>2. e[2] \in Subtree(n)
    BY <1>2, <1>4, SubtreeClosed DEF Closed
  <2>3. e[2] # x
    BY <1>1, <1>2, <1>4, <2>1
  <2>4. QED
    BY <1>2, <2>2, <2>3
<1>5. Subtree(n) \subseteq C
  BY <1>3, <1>4, SubtreeLeast DEF Closed
<1>6. QED
  BY <1>2, <1>5

\* In a forest no member of a subtree is a parent of its top.
LEMMA TopHasNoParentBelow ==
  ASSUME TypeOK, Forest, NEW n \in Nodes
  PROVE  \A p \in Subtree(n) : <<p, n>> \notin child
<1>1. Subtree(n) \in SUBSET Nodes /\ n \in Subtree(n)
  BY SubtreeClosed
<1>2. PICK x \in Subtree(n) : \A p \in Subtree(n) : <<p, x>> \notin child
  BY <1>1 DEF Forest, Acyclic
<1>3. x = n
  BY <1>2, ParentInside
<1>4. QED
  BY <1>2, <1>3

\* In a forest whose trees stay on their branch every subtree passes the check.
LEMMA ForestValidates ==
  ASSUME TypeOK, Forest, NEW n \in Nodes
  PROVE  OneBranchTree(n)
<1>1. PICK S : S = Subtree(n)
  OBVIOUS
<1>2. S \subseteq Nodes
  BY <1>1, SubtreeClosed
<1>3. \A x \in S : home[x] = home[n]
  <2>1. PICK C \in SUBSET Nodes : C = {x \in Nodes : home[x] = home[n]}
    OBVIOUS
  <2>2. Closed(C)
    BY <2>1 DEF Closed, Confined, Forest, TypeOK
  <2>3. QED
    BY <1>1, <2>1, <2>2, SubtreeLeast
<1>4. \A x \in S : \A p \in Parents(x) : home[p] = home[n]
  <2>1. SUFFICES ASSUME NEW x \in S, NEW p \in Nodes, <<p, x>> \in child
                 PROVE  home[p] = home[n]
    BY DEF Parents
  <2>2. home[p] = home[x]
    BY <2>1 DEF Confined, Forest
  <2>3. QED
    BY <1>3, <2>2
<1>5. \A x \in Nodes : \A p, q \in Parents(x) : p = q
  <2>1. SUFFICES ASSUME NEW x \in Nodes, NEW p \in Nodes, NEW q \in Nodes,
                        <<p, x>> \in child, <<q, x>> \in child
                 PROVE  p = q
    BY DEF Parents
  <2>2. <<p, x>> = <<q, x>>
    BY <2>1 DEF SingleParent, Forest
  <2>3. QED
    BY <2>2
<1>6. ASSUME NEW x \in S \ {n}
      PROVE  \E p \in S : Parents(x) = {p}
  <2>1. PICK p \in S : <<p, x>> \in child
    BY <1>1, ParentInside
  <2>2. p \in Parents(x) /\ x \in Nodes
    BY <1>2, <2>1 DEF Parents
  <2>3. QED
    BY <1>5, <2>2
<1>7. Parents(n) \cap S = {}
  BY <1>1, TopHasNoParentBelow DEF Parents
<1>8. \A x \in S : HasOneParentAtMost(x)
  BY <1>2, <1>5 DEF HasOneParentAtMost, SingleParent, Forest
<1>9. QED
  BY <1>1, <1>3, <1>4, <1>6, <1>7, <1>8 DEF OneBranchTree

\* In a forest no node is below itself.
LEMMA ForestContext ==
  ASSUME TypeOK, Forest, NEW x \in Nodes
  PROVE  x \notin Descendants(x)
<1>1. SUFFICES ASSUME NEW c \in Children(x), x \in Subtree(c)
               PROVE  FALSE
  BY DEF Descendants
<1>2. c \in Nodes /\ <<x, c>> \in child
  BY DEF Children
<1>3. QED
  BY <1>1, <1>2, TopHasNoParentBelow

\* In a forest the scope of every grant passes validated_scoped_graph, and the
\* context read ends.
LEMMA ForestReadable ==
  ASSUME TypeOK, Forest, ClosedBranchIsEmpty
  PROVE  Readable
<1>1. \A n \in live : n \in Nodes /\ OneBranchTree(n)
  BY ForestValidates DEF TypeOK
<1>2. \A n \in live : home[n] # Main => branch[home[n]] # "none"
  BY DEF ClosedBranchIsEmpty, OnBranch, TypeOK
<1>3. \A n \in live : AllowedNodes("node", n) = {n}
  BY <1>1, <1>2 DEF AllowedNodes, ValidatedScope
<1>4. \A n \in live : Parents(n) = {} => AllowedNodes("branch", n) = Subtree(n)
  <2>1. live \in SUBSET Nodes /\ Closed(live)
    BY DEF Closed, TypeOK
  <2>2. \A n \in live : Subtree(n) \subseteq live
    BY <2>1, SubtreeLeast
  <2>3. QED
    BY <1>1, <1>2, <2>2 DEF AllowedNodes, ValidatedScope
<1>5. \A n : ContextEnds(n)
  BY ForestContext DEF ContextEnds
<1>6. QED
  BY <1>3, <1>4, <1>5 DEF Readable

\* The action that GrantsStayReadable allows.
ReadableKept == Forest => Readable' \/ Unchecked

\* No checked edit of a forest makes the scope of a grant malformed or a context
\* read endless (agent_port/service.py validated_scoped_graph,
\* agent_port/routes.py context).
THEOREM GrantsReadable == Spec => GrantsStayReadable
<1>1. TypeOK /\ Forest /\ ClosedBranchIsEmpty => Readable
  BY ForestReadable
<1>2. TypeOK' /\ Forest' /\ ClosedBranchIsEmpty' => Readable'
  BY <1>1, PTL
<1>3. TypeOK /\ TypeOK' /\ ClosedBranchIsEmpty' /\ [Next]_vars => [ReadableKept]_vars
  BY <1>2, ForestStep DEF ReadableKept
<1>4. Spec => [][ReadableKept]_vars
  BY <1>3, TreeTypes, ClosedBranches, PTL DEF Spec
<1>5. QED
  BY <1>4 DEF ReadableKept, GrantsStayReadable
=============================================================================

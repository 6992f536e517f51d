------------------------------ MODULE DriveTree ------------------------------
(***************************************************************************)
(* The folder tree the Google Drive plugin keeps: which of the operator's  *)
(* files lie under the configured root, and how one batch of the           *)
(* account-wide change feed is applied to it (plugins/gdrive/changepoll.go *)
(* and match.go).  Pure operators, no state.                               *)
(*                                                                         *)
(* A tree is a function from every Drive id to the parent recorded for it, *)
(* NoNode standing for "the map holds no entry".  Names, MIME types and    *)
(* links ride along unchanged in the code and are left out.                *)
(***************************************************************************)
EXTENDS Integers, FiniteSets, FiniteSetsExt, Folds

CONSTANTS
  Docs,      \* ids of non-folder files
  Dirs,      \* ids of folders other than a configured root
  Roots,     \* ids an operator may configure as folder_id
  NoNode,    \* no entry in the map
  Outside,   \* a folder of the operator's Drive that is under no root
  Gone       \* removed, trashed, unreadable or parentless

Nodes   == Docs \union Dirs
Parents == Dirs \union Roots \union {Outside, Gone}

ASSUME TreeAssumption ==
  /\ IsFiniteSet(Nodes)
  /\ Docs \intersect Dirs = {}
  /\ Roots \intersect Nodes = {}
  /\ NoNode \notin Nodes \union Roots \union {Outside, Gone}
  /\ Outside \notin Nodes \union Roots \union {Gone}
  /\ Gone \notin Nodes \union Roots

Trees     == [Nodes -> Nodes \union Roots \union {NoNode}]
EmptyTree == [n \in Nodes |-> NoNode]

-----------------------------------------------------------------------------
(* Ancestry *)

\* S holds every node whose parent is top or a member of S.
ClosedBelow(tree, top, S) ==
  \A n \in Nodes : tree[n] = top \/ tree[n] \in S => n \in S

\* The nodes whose chain of parents ends at top: the least set closed below
\* it.  An absent entry breaks a chain and a cycle never reaches top, exactly
\* the walks that reachesRoot's bounded loop answers false for.
Below(tree, top) ==
  {n \in Nodes : \A S \in SUBSET Nodes : ClosedBelow(tree, top, S) => n \in S}

ReachesRoot(tree, parent, root) == parent = root \/ parent \in Below(tree, root)

-----------------------------------------------------------------------------
(* Applying the change feed *)

\* A change names a file and where it now is: Gone (removed, no file, trashed,
\* no parents), or its first parent.  at is its place in the feed; a batch is
\* a set of changes.
Changes == [at : Nat, id : Nodes, parent : Parents]

\* Mutant: a trashed or removed file keeps its entry.
ApplyChangeKeepGone(tree, root, ch) ==
  IF ch.parent # root /\ (ch.parent \notin Dirs \/ tree[ch.parent] = NoNode)
    THEN [tree |-> tree, resolved |-> ch.parent = Gone]
    ELSE [tree |-> [tree EXCEPT ![ch.id] =
                      IF ReachesRoot(tree, ch.parent, root) THEN ch.parent
                                                            ELSE NoNode],
          resolved |-> TRUE]

Known(tree, parent) == parent \in Dirs /\ tree[parent] # NoNode

ApplyChange(tree, root, ch) ==
  CASE ch.parent = Gone ->
         [tree |-> [tree EXCEPT ![ch.id] = NoNode], resolved |-> TRUE]
    [] ch.parent # Gone /\ ch.parent # root /\ ~Known(tree, ch.parent) ->
         [tree |-> tree, resolved |-> FALSE]
    [] OTHER ->
         [tree |-> [tree EXCEPT ![ch.id] =
                      IF ReachesRoot(tree, ch.parent, root) THEN ch.parent
                                                            ELSE NoNode],
          resolved |-> TRUE]

Latest(batch) == CHOOSE ch \in batch : \A d \in batch : d.at <= ch.at

\* Folds op over a batch, earliest change first.
InFeedOrder(op(_, _), base, batch) ==
  MapThenFoldSet(LAMBDA ch, acc : op(acc, ch), base, LAMBDA ch : ch, Latest, batch)

\* One pass over the pending changes: what it resolves takes effect at once,
\* the rest is deferred to the next pass.
Pass(root, st) ==
  LET step(acc, ch) ==
        LET r == ApplyChange(acc.tree, root, ch)
        IN  [tree |-> r.tree,
             pending |-> IF r.resolved THEN acc.pending
                                       ELSE acc.pending \union {ch}]
  IN  InFeedOrder(step, [tree |-> st.tree, pending |-> {}], st.pending)

\* Passes until one resolves nothing.  Every other pass resolves a change, so
\* as many passes as changes reach the fixpoint, where further passes do
\* nothing.  What is then still pending is denied.
ApplyChangesToFixpoint(tree, root, batch) ==
  LET settled == InFeedOrder(LAMBDA st, ch : Pass(root, st),
                             [tree |-> tree, pending |-> batch], batch)
      denied  == {ch.id : ch \in settled.pending}
  IN  [n \in Nodes |-> IF n \in denied THEN NoNode ELSE settled.tree[n]]

\* Mutant: the prune never runs.
NoPrune(tree, root) == tree

\* Keeps what reaches the root.  Reachability is decided on the tree as it
\* was, before anything is deleted.
PruneUnreachable(tree, root) ==
  LET kept == Below(tree, root)
  IN  [n \in Nodes |-> IF n \in kept THEN tree[n] ELSE NoNode]

ApplyChanges(tree, root, batch) ==
  PruneUnreachable(ApplyChangesToFixpoint(tree, root, batch), root)

-----------------------------------------------------------------------------
(* What the tree is for *)

\* Every entry's chain of parents ends at the root.
Scoped(tree, root) == \A n \in Nodes : tree[n] # NoNode => n \in Below(tree, root)

\* The files Match emits for a source that wants everything under the root:
\* no folder, and nothing whose chain does not reach the root.
MatchItems(tree, root) == Docs \intersect Below(tree, root)
=============================================================================

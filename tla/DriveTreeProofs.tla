---------------------------- MODULE DriveTreeProofs ----------------------------
(***************************************************************************)
(* What ancestry, the prune and the change feed guarantee, for every tree  *)
(* and every batch of changes.  Below is a least set, so membership in it  *)
(* is shown by exhibiting closed sets.  The folds of applyChanges are over *)
(* finite sets: a smallest set of changes that went wrong would have a     *)
(* smaller one.  A delta then computes what a walk would (FeedCatchesUp).  *)
(***************************************************************************)
EXTENDS DriveTree, FiniteSetTheorems, WellFoundedInduction, TLAPS

\* Only files and folders are below anything, and Below is itself closed: a
\* child of something below top is below top (reachesRoot, changepoll.go).
LEMMA BelowClosed ==
  ASSUME NEW tree, NEW top
  PROVE  /\ Below(tree, top) \subseteq Nodes
         /\ ClosedBelow(tree, top, Below(tree, top))
BY DEF Below, ClosedBelow

\* What is below top hangs directly from it or from something that is.
LEMMA BelowHasParent ==
  ASSUME NEW tree, NEW top, NEW n \in Below(tree, top)
  PROVE  tree[n] = top \/ tree[n] \in Below(tree, top)
<1> DEFINE S == Below(tree, top) \ {n}
<1>1. SUFFICES ASSUME tree[n] # top, tree[n] \notin Below(tree, top)
               PROVE  FALSE
  OBVIOUS
<1>2. S \in SUBSET Nodes
  BY BelowClosed
<1>3. ClosedBelow(tree, top, S)
  BY <1>1, BelowClosed DEF ClosedBelow
<1>4. n \in S
  BY <1>2, <1>3 DEF Below
<1>5. QED BY <1>4

-----------------------------------------------------------------------------

\* What is kept has the parent it had, and the result is a tree again.
LEMMA PruneTyped ==
  ASSUME NEW tree, NEW root \in Roots
  PROVE  PruneUnreachable(tree, root) \in Trees
<1>1. \A n \in Below(tree, root) : tree[n] \in Nodes \union Roots
  BY BelowHasParent, BelowClosed
<1>2. QED BY <1>1 DEF PruneUnreachable, Trees

\* Default deny: after pruneUnreachable no entry is left whose chain of
\* parents does not end at the root, whatever the batch did to the tree
\* before.  (Given a set closed for the pruned tree, adding everything the
\* prune dropped closes it for the tree as it was.)
THEOREM PruneScoped ==
  ASSUME NEW tree, NEW root \in Roots
  PROVE  Scoped(PruneUnreachable(tree, root), root)
<1> DEFINE kept   == Below(tree, root)
           pruned == PruneUnreachable(tree, root)
<1>1. SUFFICES ASSUME NEW n \in Nodes, pruned[n] # NoNode,
                      NEW S \in SUBSET Nodes, ClosedBelow(pruned, root, S)
               PROVE  n \in S
  BY DEF Scoped, Below
<1>2. n \in kept
  BY <1>1 DEF PruneUnreachable
<1> DEFINE T == S \union (Nodes \ kept)
<1>3. ClosedBelow(tree, root, T)
  <2>1. SUFFICES ASSUME NEW m \in Nodes, m \in kept,
                        tree[m] = root \/ tree[m] \in T
                 PROVE  m \in S
    BY DEF ClosedBelow
  <2>2. pruned[m] = tree[m]
    BY <2>1 DEF PruneUnreachable
  <2>3. tree[m] = root \/ tree[m] \in kept
    BY <2>1, BelowHasParent
  <2>4. pruned[m] = root \/ pruned[m] \in S
    BY <2>1, <2>2, <2>3
  <2>5. QED BY <1>1, <2>1, <2>4 DEF ClosedBelow
<1>4. n \in T
  <2>1. T \in SUBSET Nodes
    OBVIOUS
  <2>2. QED BY <1>2, <1>3, <2>1 DEF Below
<1>5. QED BY <1>2, <1>4

\* Whatever batch is applied to whatever tree, the result is a tree and all
\* of it is in scope (applyChanges, changepoll.go).
THEOREM ApplyChangesScoped ==
  ASSUME NEW tree, NEW root \in Roots, NEW batch
  PROVE  /\ ApplyChanges(tree, root, batch) \in Trees
         /\ Scoped(ApplyChanges(tree, root, batch), root)
BY PruneTyped, PruneScoped DEF ApplyChanges

-----------------------------------------------------------------------------
(* Functions over the subsets of a finite set: there is one for every      *)
(* equation that gives a set's value from that of the set without one      *)
(* member, and what holds of {} and is handed on holds of S                *)

\* G holds of {}, and of every other subset of S that has a member x such
\* that it holds if it holds without x.
Inductive(G, S) ==
  /\ {} \in G
  /\ \A s \in (SUBSET S) \ {{}} : \E x \in s : s \ {x} \in G => s \in G

\* What is inductive holds of every subset of a finite set: a smallest one it
\* did not hold of would have a smaller one.
LEMMA ShrinkInduction ==
  ASSUME NEW S, IsFiniteSet(S), NEW G, Inductive(G, S)
  PROVE  SUBSET S \subseteq G
<1> DEFINE B == {s \in SUBSET S : s \notin G}
<1>1. SUFFICES ASSUME B # {} PROVE FALSE
  OBVIOUS
<1>2. B \subseteq FiniteSubsetsOf(S)
  BY FS_Subset DEF FiniteSubsetsOf
<1>3. PICK b \in B : \A s \in B : <<s, b>> \notin StrictSubsetOrdering(S)
  BY <1>1, <1>2, FS_StrictSubsetOrderingWellFounded, WFMin
<1>4. b \in (SUBSET S) \ {{}}
  BY DEF Inductive
<1>5. PICK x \in b : b \ {x} \in G => b \in G
  BY <1>4 DEF Inductive
<1>6. <<b \ {x}, b>> \in StrictSubsetOrdering(S)
  BY <1>4 DEF StrictSubsetOrdering
<1>7. b \ {x} \notin B
  BY <1>3, <1>6
<1>8. QED BY <1>4, <1>5, <1>7

\* What a fold over S in V is made of: where it starts, the member it takes
\* next out of each set, and what that member does to the value so far.
FoldInput(S, V, base, pick, step) ==
  /\ IsFiniteSet(S) /\ base \in V
  /\ \A s \in (SUBSET S) \ {{}} : pick[s] \in s
  /\ step \in [V \X S -> V]

\* f is that fold, for every subset of S.
IsFold(f, S, base, pick, step) ==
  /\ f[{}] = base
  /\ \A s \in (SUBSET S) \ {{}} : f[s] = step[<<f[s \ {pick[s]}], pick[s]>>]

\* A part of a fold: a function on some subsets of S that folds each one.
PartFold(g, R, S, base, pick, step) ==
  \A s \in R : \/ s = {} /\ g[s] = base
               \/ /\ s \in (SUBSET S) \ {{}} /\ s \ {pick[s]} \in R
                  /\ g[s] = step[<<g[s \ {pick[s]}], pick[s]>>]

\* Two parts of one fold agree wherever both are defined.
LEMMA PartFoldsAgree ==
  ASSUME NEW S, IsFiniteSet(S), NEW base, NEW step,
         NEW pick, \A s \in (SUBSET S) \ {{}} : pick[s] \in s,
         NEW Q, NEW R, NEW g, NEW h,
         PartFold(g, Q, S, base, pick, step), PartFold(h, R, S, base, pick, step)
  PROVE  \A s \in SUBSET S : s \in Q /\ s \in R => g[s] = h[s]
<1> DEFINE G == {s \in SUBSET S : s \in Q /\ s \in R => g[s] = h[s]}
<1>1. {} \in G
  BY DEF PartFold
<1>2. \A s \in (SUBSET S) \ {{}} : pick[s] \in s /\ (s \ {pick[s]} \in G => s \in G)
  BY DEF PartFold
<1>3. SUBSET S \subseteq G
  <2> HIDE DEF G
  <2>1. Inductive(G, S)
    BY <1>1, <1>2 DEF Inductive
  <2>2. QED BY <2>1, ShrinkInduction
<1>4. QED BY <1>3

\* Every subset of S is folded by some part of the fold, ...
LEMMA PartFoldExists ==
  ASSUME NEW S, NEW V, NEW base, NEW pick, NEW step,
         FoldInput(S, V, base, pick, step)
  PROVE  \A s \in SUBSET S : \E R \in SUBSET SUBSET S : \E g \in [R -> V] :
            s \in R /\ PartFold(g, R, S, base, pick, step)
<1> USE DEF FoldInput
<1> DEFINE G == {s \in SUBSET S : \E R \in SUBSET SUBSET S : \E g \in [R -> V] :
                    s \in R /\ PartFold(g, R, S, base, pick, step)}
<1>1. {} \in G
  <2>1. [s \in {{}} |-> base] \in [{{}} -> V]
    OBVIOUS
  <2>2. PartFold([s \in {{}} |-> base], {{}}, S, base, pick, step)
    BY DEF PartFold
  <2>3. {{}} \in SUBSET SUBSET S
    OBVIOUS
  <2>4. QED BY <2>1, <2>2, <2>3
<1>2. ASSUME NEW s \in (SUBSET S) \ {{}}, s \ {pick[s]} \in G
      PROVE  s \in G
  <2>1. PICK R, g : R \in SUBSET SUBSET S /\ g \in [R -> V] /\
           s \ {pick[s]} \in R /\ PartFold(g, R, S, base, pick, step)
    BY <1>2
  <2> DEFINE h == [t \in R \union {s} |->
                     IF t \in R THEN g[t]
                     ELSE step[<<g[s \ {pick[s]}], pick[s]>>]]
  <2>2. pick[s] \in S /\ g[s \ {pick[s]}] \in V
    BY <2>1
  <2>3. h \in [R \union {s} -> V]
    BY <2>1, <2>2
  <2>4. PartFold(h, R \union {s}, S, base, pick, step)
    BY <2>1 DEF PartFold
  <2>5. R \union {s} \in SUBSET SUBSET S
    BY <2>1
  <2>6. QED
    <3> HIDE DEF h
    <3>1. QED BY <2>3, <2>4, <2>5
<1>3. \A s \in (SUBSET S) \ {{}} : pick[s] \in s /\ (s \ {pick[s]} \in G => s \in G)
  <2> HIDE DEF G
  <2>1. QED BY <1>2
<1>4. SUBSET S \subseteq G
  <2> HIDE DEF G
  <2>1. Inductive(G, S)
    BY <1>1, <1>3 DEF Inductive
  <2>2. QED BY <2>1, ShrinkInduction
<1>5. QED BY <1>4

\* ... so there is the fold itself: the recursive functions of DriveTree, which
\* TLA+ defines by CHOOSE, are what their equations say.
LEMMA FoldExists ==
  ASSUME NEW S, NEW V, NEW base, NEW pick, NEW step,
         FoldInput(S, V, base, pick, step)
  PROVE  \E f \in [SUBSET S -> V] : IsFold(f, S, base, pick, step)
<1>0. \A s \in SUBSET S : \E R \in SUBSET SUBSET S : \E g \in [R -> V] :
         s \in R /\ PartFold(g, R, S, base, pick, step)
  BY PartFoldExists
<1> DEFINE Is(s, v) == \E R \in SUBSET SUBSET S : \E g \in [R -> V] :
                         s \in R /\ PartFold(g, R, S, base, pick, step) /\ v = g[s]
           f == [s \in SUBSET S |-> CHOOSE v \in V : Is(s, v)]
<1> USE DEF FoldInput
<1>1. ASSUME NEW s \in SUBSET S PROVE \E v \in V : Is(s, v)
  <2>1. PICK R, g : R \in SUBSET SUBSET S /\ g \in [R -> V] /\
           s \in R /\ PartFold(g, R, S, base, pick, step)
    BY <1>0
  <2>2. g[s] \in V /\ Is(s, g[s])
    BY <2>1
  <2>3. QED BY <2>2
<1>2. \A s \in SUBSET S : f[s] \in V /\ Is(s, f[s])
  BY <1>1
<1>3. \A s \in SUBSET S : \A v, w : Is(s, v) /\ Is(s, w) => v = w
  BY PartFoldsAgree
<1>4. Is({}, base)
  <2>1. PICK R, g : R \in SUBSET SUBSET S /\ g \in [R -> V] /\
           {} \in R /\ PartFold(g, R, S, base, pick, step)
    BY <1>0
  <2>2. g[{}] = base
    BY <2>1 DEF PartFold
  <2>3. QED BY <2>1, <2>2
<1>5. f[{}] = base
  <2> HIDE DEF Is, f
  <2>1. QED BY <1>2, <1>3, <1>4
<1>6. ASSUME NEW s \in (SUBSET S) \ {{}}
      PROVE  f[s] = step[<<f[s \ {pick[s]}], pick[s]>>]
  <2>1. PICK R, g : R \in SUBSET SUBSET S /\ g \in [R -> V] /\
           s \in R /\ PartFold(g, R, S, base, pick, step)
    BY <1>6, <1>0
  <2>2. s \ {pick[s]} \in R /\ g[s] = step[<<g[s \ {pick[s]}], pick[s]>>]
    BY <2>1 DEF PartFold
  <2>3. Is(s, g[s]) /\ Is(s \ {pick[s]}, g[s \ {pick[s]}])
    BY <2>1, <2>2
  <2>4. f[s] = g[s] /\ f[s \ {pick[s]}] = g[s \ {pick[s]}]
    <3> HIDE DEF Is, f
    <3>1. QED BY <2>3, <1>2, <1>3
  <2>5. QED BY <2>2, <2>4
<1>7. f \in [SUBSET S -> V]
  <2> HIDE DEF Is
  <2>1. QED BY <1>2
<1>8. QED
  <2> HIDE DEF f
  <2>1. IsFold(f, S, base, pick, step)
    BY <1>5, <1>6 DEF IsFold
  <2>2. QED BY <2>1, <1>7

\* What one change does to a tree and to what is deferred so far.
Resolve(root, acc, ch) ==
  LET r == ApplyChange(acc.tree, root, ch)
  IN  [tree |-> r.tree,
       pending |-> IF r.resolved THEN acc.pending ELSE acc.pending \union {ch}]

\* A tree and the changes of a batch still deferred (changepoll.go's pending).
Progress(batch) == [tree : Trees, pending : SUBSET batch]

\* A finite set has a member whose key is the greatest.
LEMMA HasTop ==
  ASSUME NEW S, IsFiniteSet(S), S # {}, NEW key \in [S -> Int]
  PROVE  \E x \in S : \A y \in S : key[y] <= key[x]
<1> DEFINE G == {s \in SUBSET S : s = {} \/ \E x \in s : \A y \in s : key[y] <= key[x]}
<1>1. {} \in G
  OBVIOUS
<1>2. ASSUME NEW s \in (SUBSET S) \ {{}}, NEW x \in s, s \ {x} \in G
      PROVE  s \in G
  <2>1. key[x] \in Int /\ key[x] <= key[x]
    OBVIOUS
  <2>2. CASE s \ {x} = {}
    <3>1. s = {x}
      BY <2>2
    <3>2. QED BY <2>1, <3>1
  <2>3. CASE s \ {x} # {}
    <3>1. PICK z \in s \ {x} : \A y \in s \ {x} : key[y] <= key[z]
      BY <1>2, <2>3
    <3>2. CASE key[x] <= key[z]
      <4>1. \A y \in s : key[y] <= key[z]
        BY <3>1, <3>2
      <4>2. QED BY <4>1
    <3>3. CASE ~(key[x] <= key[z])
      <4>1. \A y \in s : key[y] \in Int
        OBVIOUS
      <4>2. \A y \in s : key[y] <= key[x]
        BY <2>1, <3>1, <3>3, <4>1
      <4>3. QED BY <4>2
    <3>4. QED BY <3>2, <3>3
  <2>4. QED BY <2>2, <2>3
<1>3. ASSUME NEW s \in (SUBSET S) \ {{}}
      PROVE  \E x \in s : s \ {x} \in G => s \in G
  <2>1. PICK x : x \in s
    OBVIOUS
  <2>2. QED BY <1>2, <2>1
<1> HIDE DEF G
<1>4. Inductive(G, S)
  BY <1>1, <1>3 DEF Inductive
<1>5. S \in G
  BY <1>4, ShrinkInduction
<1>6. QED BY <1>5 DEF G

\* A batch has a latest change.
LEMMA LatestIn ==
  ASSUME NEW batch \in SUBSET Changes, IsFiniteSet(batch), batch # {}
  PROVE  Latest(batch) \in batch
<1> DEFINE key == [ch \in batch |-> ch.at]
<1>1. key \in [batch -> Int]
  BY DEF Changes
<1>2. \E ch \in batch : \A d \in batch : key[d] <= key[ch]
  <2> HIDE DEF key
  <2>1. QED BY <1>1, HasTop
<1>3. \E ch \in batch : \A d \in batch : d.at <= ch.at
  BY <1>2
<1>4. QED BY <1>3 DEF Latest

\* One change leaves a tree, and may defer only itself.
LEMMA ResolveTyped ==
  ASSUME NEW root \in Roots, NEW batch \in SUBSET Changes,
         NEW acc \in Progress(batch), NEW ch \in batch
  PROVE  Resolve(root, acc, ch) \in Progress(batch)
<1>1. acc.tree \in Trees /\ acc.pending \in SUBSET batch
  BY DEF Progress
<1>2. ch.id \in Nodes /\ ch.parent \in Parents
  BY DEF Changes
<1>3. ApplyChange(acc.tree, root, ch).tree \in Trees
  <2>1. ReachesRoot(acc.tree, ch.parent, root) => ch.parent \in Nodes \union Roots
    BY BelowClosed DEF ReachesRoot
  <2>2. QED BY <1>1, <1>2, <2>1 DEF ApplyChange, Trees
<1>4. QED BY <1>1, <1>3 DEF Resolve, Progress

\* One pass of applyChangesToFixpoint really applies the pending changes one
\* after the other, oldest first, and keeps those that resolve nothing.
LEMMA PassIsFold ==
  ASSUME NEW root \in Roots, NEW batch \in SUBSET Changes, IsFiniteSet(batch),
         NEW st \in Progress(batch)
  PROVE  \E f \in [SUBSET st.pending -> Progress(st.pending)] :
            /\ f[{}] = [tree |-> st.tree, pending |-> {}]
            /\ \A s \in (SUBSET st.pending) \ {{}} :
                 /\ Latest(s) \in s
                 /\ f[s] = Resolve(root, f[s \ {Latest(s)}], Latest(s))
            /\ Pass(root, st) = f[st.pending]
<1> DEFINE P    == st.pending
           V    == Progress(P)
           base == [tree |-> st.tree, pending |-> {}]
           pick == [s \in (SUBSET P) \ {{}} |-> Latest(s)]
           step == [a \in V \X P |-> Resolve(root, a[1], a[2])]
           Eqn(it) == [s \in SUBSET P |->
                         IF s = {} THEN base
                         ELSE Resolve(root, it[s \ {Latest(s)}], Latest(s))]
<1>1. P \in SUBSET Changes /\ IsFiniteSet(P) /\ base \in V
  BY FS_Subset DEF Progress
<1>2. ASSUME NEW s \in (SUBSET P) \ {{}} PROVE Latest(s) \in s
  <2>1. s \in SUBSET Changes /\ IsFiniteSet(s) /\ s # {}
    BY <1>1, FS_Subset
  <2>2. QED BY <2>1, LatestIn
<1>3. step \in [V \X P -> V]
  <2>1. \A acc \in V, ch \in P : Resolve(root, acc, ch) \in V
    BY <1>1, ResolveTyped
  <2>2. QED BY <2>1
<1>4. PICK f \in [SUBSET P -> V] : IsFold(f, P, base, pick, step)
  <2> HIDE DEF V, base, step, P
  <2>1. \A s \in (SUBSET P) \ {{}} : pick[s] \in s
    BY <1>2
  <2> HIDE DEF pick
  <2>2. FoldInput(P, V, base, pick, step)
    BY <1>1, <1>3, <2>1 DEF FoldInput
  <2>3. QED BY <2>2, FoldExists
<1>5. \A s \in (SUBSET P) \ {{}} :
         f[s] = Resolve(root, f[s \ {Latest(s)}], Latest(s))
  BY <1>2, <1>4 DEF IsFold
<1>6. f = Eqn(f)
  <2> HIDE DEF V, base, P
  <2>1. \A s \in SUBSET P :
           f[s] = IF s = {} THEN base ELSE Resolve(root, f[s \ {Latest(s)}], Latest(s))
    BY <1>4, <1>5 DEF IsFold
  <2>2. QED BY <1>4, <2>1
<1>7. Pass(root, st) = (CHOOSE it : it = Eqn(it))[P]
  BY DEF Pass, InFeedOrder, MapThenFoldSet, Resolve
<1> DEFINE it == CHOOSE it : it = Eqn(it)
<1>8. it = Eqn(it)
  BY <1>6
<1> HIDE DEF it
<1>9. /\ it[{}] = base
      /\ \A s \in (SUBSET P) \ {{}} :
           it[s] = Resolve(root, it[s \ {Latest(s)}], Latest(s))
  <2> HIDE DEF base, P
  <2>1. \A s \in SUBSET P :
           it[s] = IF s = {} THEN base
                   ELSE Resolve(root, it[s \ {Latest(s)}], Latest(s))
    BY <1>8
  <2>2. QED BY <2>1
<1>10. \A s \in SUBSET P : it[s] \in V
  <2> DEFINE G == {s \in SUBSET P : it[s] \in V}
  <2>1. {} \in G
    BY <1>1, <1>9
  <2>2. \A s \in (SUBSET P) \ {{}} : Latest(s) \in s /\ (s \ {Latest(s)} \in G => s \in G)
    BY <1>1, <1>2, <1>9, ResolveTyped
  <2>3. SUBSET P \subseteq G
    <3> HIDE DEF G, P
    <3>1. Inductive(G, P)
      BY <2>1, <2>2 DEF Inductive
    <3>2. QED BY <1>1, <3>1, ShrinkInduction
  <2>4. QED BY <2>3
<1>11. it \in [SUBSET P -> V]
  <2> HIDE DEF V, P, base
  <2>1. QED BY <1>8, <1>10
<1>12. QED
  <2> HIDE DEF Eqn
  <2>1. it \in [SUBSET st.pending -> Progress(st.pending)]
    BY <1>11
  <2>2. QED BY <2>1, <1>2, <1>7, <1>9 DEF it

-----------------------------------------------------------------------------
(* A tree that agrees with Drive *)

\* The files a batch of changes is about.
Ids(batch) == {ch.id : ch \in batch}

\* The folders really below the root are recorded where they are or not at
\* all, and none without the folder it is in.  That holds for the folders a
\* batch names too: a folder still recorded where it was before it moved is
\* excluded, and must be, for what is resolved against it can be lost (the run
\* drive_moved).
FoldersHold(tree, here, root) ==
  \A p \in Dirs \intersect Below(here, root) :
    /\ tree[p] \in {NoNode, here[p]}
    /\ tree[p] # NoNode => here[p] = root \/ tree[here[p]] # NoNode

\* But for the nodes of C, tree records exactly what is really below the root;
\* an entry of anything else is where that really is, only not below the root.
Agrees(tree, here, root, C) ==
  /\ \A n \in Nodes \ C : /\ tree[n] \in {NoNode, here[n]}
                          /\ n \in Below(here, root) => tree[n] = here[n]
  /\ FoldersHold(tree, here, root)

\* A batch that says of each file it names where it is or that it is gone, and
\* of a file below the root where it is (changes.list with the fields parents
\* and trashed).
Tells(batch, here, root) ==
  \A ch \in batch : /\ ch.parent \in {Gone, here[ch.id]}
                    /\ ch.id \in Below(here, root) => ch.parent = here[ch.id]

\* To except more nodes is to say less.
LEMMA AgreesMore ==
  ASSUME NEW tree, NEW here, NEW root, NEW C, NEW D,
         Agrees(tree, here, root, C), C \subseteq D
  PROVE  Agrees(tree, here, root, D)
BY DEF Agrees, FoldersHold

\* What is really below the root is in the root or in a folder below the root.
LEMMA HereParent ==
  ASSUME NEW here \in [Nodes -> Parents], NEW root \in Roots,
         NEW n \in Below(here, root)
  PROVE  /\ n \in Nodes /\ here[n] \notin {NoNode, Gone}
         /\ here[n] = root \/ (here[n] # root /\ here[n] \in Dirs \intersect Below(here, root))
<1>1. n \in Nodes
  BY BelowClosed
<1>2. here[n] = root \/ here[n] \in Below(here, root)
  BY BelowHasParent
<1>3. here[n] \in Below(here, root) => here[n] \in Nodes
  BY BelowClosed
<1>4. here[n] \in Parents
  BY <1>1
<1>5. here[n] \in Nodes => here[n] \in Dirs
  BY <1>4, TreeAssumption DEF Parents, Nodes
<1>6. here[n] # NoNode /\ here[n] # Gone
  BY <1>2, <1>3, TreeAssumption
<1>7. QED BY <1>1, <1>2, <1>3, <1>5, <1>6, TreeAssumption

\* A recorded folder that is really below the root is below it in the tree as
\* well, since its ancestors are recorded too: reachesRoot answers true.
LEMMA KnownReaches ==
  ASSUME NEW tree, NEW here \in [Nodes -> Parents], NEW root \in Roots, NEW C,
         Agrees(tree, here, root, C),
         NEW p \in Dirs \intersect Below(here, root), tree[p] # NoNode
  PROVE  p \in Below(tree, root)
<1> DEFINE known == {q \in Dirs \intersect Below(here, root) : tree[q] # NoNode}
<1>1. SUFFICES ASSUME NEW S \in SUBSET Nodes, ClosedBelow(tree, root, S)
               PROVE  p \in S
  BY BelowClosed DEF Below
<1> DEFINE T == S \union (Nodes \ known)
<1>2. ClosedBelow(here, root, T)
  <2>1. SUFFICES ASSUME NEW m \in known, here[m] = root \/ here[m] \in T
                 PROVE  m \in S
    BY DEF ClosedBelow
  <2>2. tree[m] = here[m] /\ (here[m] = root \/ tree[here[m]] # NoNode)
    BY DEF Agrees, FoldersHold
  <2>3. here[m] = root \/ here[m] \in known
    BY <2>2, HereParent
  <2>4. here[m] = root \/ here[m] \in S
    BY <2>1, <2>3
  <2>5. m \in Nodes
    BY BelowClosed
  <2>6. QED BY <1>1, <2>2, <2>4, <2>5 DEF ClosedBelow
<1>3. T \in SUBSET Nodes
  OBVIOUS
<1>4. p \in T
  BY <1>2, <1>3 DEF Below
<1>5. QED BY <1>4

\* A change that is resolved leaves its file as Drive has it, and one that is
\* deferred leaves the tree alone.
ChangeKeeps(tree, here, root, C, ch) ==
  LET r == ApplyChange(tree, root, ch)
  IN  /\ r.resolved \in BOOLEAN
      /\ r.resolved => Agrees(r.tree, here, root, C \ {ch.id})
      /\ ~r.resolved => r.tree = tree

\* applyChange does that to any tree that agrees with Drive but for the files
\* still to be told of.
LEMMA ChangeAgrees ==
  ASSUME NEW tree \in Trees, NEW here \in [Nodes -> Parents], NEW root \in Roots,
         NEW C, Agrees(tree, here, root, C),
         NEW ch \in Changes, Tells({ch}, here, root)
  PROVE  ChangeKeeps(tree, here, root, C, ch)
<1> DEFINE r == ApplyChange(tree, root, ch)
           U == Below(here, root)
<1>1. /\ ch.id \in Nodes /\ ch.parent \in Parents
      /\ ch.parent \in {Gone, here[ch.id]}
      /\ ch.id \in U => ch.parent = here[ch.id]
  BY DEF Changes, Tells
<1>2. ~(ch.parent = Gone) /\ ch.parent # root /\ ~Known(tree, ch.parent) =>
        r.resolved = FALSE /\ r.tree = tree
  BY DEF ApplyChange
<1>3. ASSUME ch.parent = Gone \/ ch.parent = root \/ Known(tree, ch.parent)
      PROVE  r.resolved = TRUE /\ Agrees(r.tree, here, root, C \ {ch.id})
  <2> DEFINE v == IF ch.parent = Gone THEN NoNode
                  ELSE IF ReachesRoot(tree, ch.parent, root) THEN ch.parent ELSE NoNode
  <2>1. r.resolved = TRUE /\ r.tree = [tree EXCEPT ![ch.id] = v]
    BY <1>3, TreeAssumption DEF ApplyChange
  <2>2. v \in {NoNode, here[ch.id]}
    BY <1>1
  <2>3. ch.id \in U => v = here[ch.id] /\ (here[ch.id] = root \/ tree[here[ch.id]] # NoNode)
    <3>1. SUFFICES ASSUME ch.id \in U
                   PROVE  v = here[ch.id] /\ (here[ch.id] = root \/ tree[here[ch.id]] # NoNode)
      OBVIOUS
    <3>2. ch.parent = here[ch.id] /\ here[ch.id] # Gone
      BY <1>1, <3>1, HereParent
    <3>3. CASE here[ch.id] = root
      BY <3>2, <3>3 DEF ReachesRoot
    <3>4. CASE here[ch.id] # root
      <4>1. Known(tree, here[ch.id]) /\ here[ch.id] \in Dirs \intersect U
        BY <1>3, <3>1, <3>2, <3>4, HereParent
      <4>2. here[ch.id] \in Below(tree, root)
        BY <4>1, KnownReaches DEF Known
      <4>3. QED BY <3>2, <4>1, <4>2 DEF ReachesRoot, Known
    <3>5. QED BY <3>3, <3>4
  <2> HIDE DEF v, r
  <2>4. r.tree[ch.id] = v /\ \A n \in Nodes \ {ch.id} : r.tree[n] = tree[n]
    BY <1>1, <2>1 DEF Trees
  <2>5. ASSUME NEW n \in Nodes \ (C \ {ch.id})
        PROVE  r.tree[n] \in {NoNode, here[n]} /\ (n \in U => r.tree[n] = here[n])
    BY <2>2, <2>3, <2>4 DEF Agrees, FoldersHold
  <2>6. ASSUME NEW p \in Dirs \intersect U
        PROVE  /\ r.tree[p] \in {NoNode, here[p]}
               /\ r.tree[p] # NoNode => here[p] = root \/ r.tree[here[p]] # NoNode
    <3>1. p \in Nodes /\ here[p] # NoNode
          /\ (here[p] = root \/ (here[p] # root /\ here[p] \in Dirs \intersect U))
      BY HereParent
    <3>2. r.tree[p] \in {NoNode, here[p]}
      BY <2>2, <2>4, <3>1 DEF Agrees, FoldersHold
    <3>3. ASSUME r.tree[p] # NoNode, here[p] # root
          PROVE  r.tree[here[p]] # NoNode
      <4>1. here[p] \in Nodes /\ here[p] \in U
        BY <3>1, <3>3 DEF Nodes
      <4>2. tree[here[p]] # NoNode
        <5>1. CASE p = ch.id
          BY <5>1, <2>3, <3>3
        <5>2. CASE p # ch.id
          BY <5>2, <2>4, <3>1, <3>3 DEF Agrees, FoldersHold
        <5>3. QED BY <5>1, <5>2
      <4>3. CASE here[p] = ch.id
        <5>1. here[ch.id] # NoNode
          BY <4>1, <4>3, HereParent
        <5>2. QED BY <5>1, <4>1, <4>3, <2>3, <2>4
      <4>4. CASE here[p] # ch.id
        BY <4>1, <4>2, <4>4, <2>4
      <4>5. QED BY <4>3, <4>4
    <3>4. QED BY <3>2, <3>3
  <2>7. QED BY <2>1, <2>5, <2>6 DEF Agrees, FoldersHold
<1>4. QED
  <2> HIDE DEF r
  <2>1. QED BY <1>2, <1>3 DEF r, ChangeKeeps

\* A pass has nothing left that it could resolve.
Stuck(root, st) == \A ch \in st.pending : ~ApplyChange(st.tree, root, ch).resolved

\* A pass settles what it resolves, and once a pass resolves nothing neither
\* does any later one.
PassKeeps(here, root, st) ==
  LET next == Pass(root, st)
  IN  /\ next \in Progress(st.pending)
      /\ Agrees(next.tree, here, root, Ids(next.pending))
      /\ next.pending = st.pending => Stuck(root, next)
      /\ Stuck(root, st) => next = st

\* Pass does that, whatever the order of the changes in the batch.
LEMMA PassAgrees ==
  ASSUME NEW here \in [Nodes -> Parents], NEW root \in Roots,
         NEW batch \in SUBSET Changes, IsFiniteSet(batch), Tells(batch, here, root),
         NEW st \in Progress(batch), Agrees(st.tree, here, root, Ids(st.pending))
  PROVE  PassKeeps(here, root, st)
<1> DEFINE P == st.pending
<1>1. PICK f \in [SUBSET P -> Progress(P)] :
            /\ f[{}] = [tree |-> st.tree, pending |-> {}]
            /\ \A s \in (SUBSET P) \ {{}} :
                 /\ Latest(s) \in s
                 /\ f[s] = Resolve(root, f[s \ {Latest(s)}], Latest(s))
            /\ Pass(root, st) = f[P]
  BY PassIsFold
<1>2. /\ P \in SUBSET Changes /\ IsFiniteSet(P) /\ Tells(P, here, root)
      /\ st.tree \in Trees
  BY FS_Subset DEF Progress, Tells
<1> DEFINE Kept(s) == Agrees(f[s].tree, here, root, Ids(f[s].pending \union (P \ s)))
           Idles(s) == f[s].pending = s =>
                         /\ f[s].tree = st.tree
                         /\ \A ch \in s : ~ApplyChange(st.tree, root, ch).resolved
           Rests(s) == Stuck(root, st) => f[s].tree = st.tree /\ f[s].pending = s
           Bound(s) == f[s].pending \subseteq s
           G == {s \in SUBSET P : Kept(s) /\ Idles(s) /\ Rests(s) /\ Bound(s)}
<1>3. {} \in G
  <2>1. f[{}].tree = st.tree /\ f[{}].pending = {}
    BY <1>1
  <2>2. f[{}].pending \union (P \ {}) = P
    BY <2>1
  <2>3. QED BY <2>1, <2>2
<1>4. ASSUME NEW s \in (SUBSET P) \ {{}}, s \ {Latest(s)} \in G
      PROVE  s \in G
  <2> DEFINE x == Latest(s)
             s0 == s \ {x}
             a == f[s0]
             r == ApplyChange(a.tree, root, x)
             C == Ids(a.pending \union (P \ s0))
  <2>1. x \in s /\ x \in P /\ s0 \in SUBSET P
    BY <1>1
  <2>2. Kept(s0) /\ Idles(s0) /\ Rests(s0) /\ Bound(s0)
    BY <1>4
  <2>3. a.tree \in Trees
    BY <1>1, <2>1 DEF Progress
  <2>4. /\ r.resolved \in BOOLEAN
        /\ r.resolved => Agrees(r.tree, here, root, C \ {x.id})
        /\ ~r.resolved => r.tree = a.tree
    <3>1. Agrees(a.tree, here, root, C)
      BY <2>2
    <3>2. x \in Changes /\ Tells({x}, here, root)
      BY <1>2, <2>1 DEF Tells
    <3> HIDE DEF x, a, C, P
    <3>3. ChangeKeeps(a.tree, here, root, C, x)
      BY <2>3, <3>1, <3>2, ChangeAgrees
    <3>4. QED BY <3>3 DEF ChangeKeeps
  <2>5. f[s] = [tree |-> r.tree,
                pending |-> IF r.resolved THEN a.pending ELSE a.pending \union {x}]
    BY <1>1 DEF Resolve
  <2>6. f[s].tree = r.tree
        /\ (r.resolved => f[s].pending = a.pending)
        /\ (~r.resolved => f[s].pending = a.pending \union {x})
    <3> HIDE DEF x, a, r
    <3>1. QED BY <2>5
  <2> HIDE DEF x, a, r
  <2>7. Kept(s)
    <3>1. CASE r.resolved
      <4>1. C \ {x.id} \subseteq Ids(f[s].pending \union (P \ s))
        BY <2>1, <2>6, <3>1 DEF Ids
      <4>2. QED
        <5> HIDE DEF C
        <5>1. QED BY <2>4, <2>6, <3>1, <4>1, AgreesMore
    <3>2. CASE ~r.resolved
      <4>1. C \subseteq Ids(f[s].pending \union (P \ s))
        BY <2>1, <2>6, <3>2 DEF Ids
      <4>2. Agrees(f[s].tree, here, root, C)
        BY <2>2, <2>4, <2>6, <3>2 DEF a
      <4>3. QED
        <5> HIDE DEF C
        <5>1. QED BY <4>1, <4>2, AgreesMore
    <3>3. QED BY <3>1, <3>2
  <2>8. Bound(s)
    BY <2>1, <2>2, <2>4, <2>6 DEF a
  <2>9. Idles(s)
    <3>1. SUFFICES ASSUME f[s].pending = s
                   PROVE  /\ f[s].tree = st.tree
                          /\ \A ch \in s : ~ApplyChange(st.tree, root, ch).resolved
      OBVIOUS
    <3>2. a.pending \subseteq s0
      BY <2>2 DEF a
    <3>3. ~r.resolved
      BY <2>1, <2>6, <3>1, <3>2
    <3>4. a.pending = s0
      BY <2>1, <2>6, <3>1, <3>2, <3>3
    <3>5. a.tree = st.tree /\ \A ch \in s0 : ~ApplyChange(st.tree, root, ch).resolved
      BY <2>2, <3>4 DEF a
    <3>6. f[s].tree = st.tree
      BY <2>4, <2>6, <3>3, <3>5
    <3>7. ~ApplyChange(st.tree, root, x).resolved
      BY <3>3, <3>5 DEF r
    <3>8. QED BY <3>5, <3>6, <3>7
  <2>10. Rests(s)
    <3>1. SUFFICES ASSUME Stuck(root, st)
                   PROVE  f[s].tree = st.tree /\ f[s].pending = s
      OBVIOUS
    <3>2. a.tree = st.tree /\ a.pending = s0
      BY <2>2, <3>1 DEF a
    <3>3. ~r.resolved
      BY <2>1, <3>1, <3>2 DEF r, Stuck
    <3>4. QED BY <2>1, <2>4, <2>6, <3>2, <3>3
  <2>11. QED BY <2>7, <2>8, <2>9, <2>10
<1>5. Inductive(G, P)
  <2>1. \A s \in (SUBSET P) \ {{}} : Latest(s) \in s /\ (s \ {Latest(s)} \in G => s \in G)
    <3> HIDE DEF G
    <3>1. QED BY <1>1, <1>4
  <2> HIDE DEF G
  <2>2. QED BY <1>3, <2>1 DEF Inductive
<1>6. P \in G
  <2> HIDE DEF G
  <2>1. QED BY <1>2, <1>5, ShrinkInduction
<1>7. f[P] \in Progress(P) /\ f[P].pending \subseteq P
  BY <1>1, <1>6
<1>8. Agrees(f[P].tree, here, root, Ids(f[P].pending))
  <2>1. f[P].pending \union (P \ P) = f[P].pending
    OBVIOUS
  <2>2. QED BY <1>6, <2>1
<1>9. f[P].pending = P => Stuck(root, f[P])
  BY <1>6 DEF Stuck
<1>10. Stuck(root, st) => f[P] = st
  <2>1. f[P] = [tree |-> f[P].tree, pending |-> f[P].pending]
        /\ st = [tree |-> st.tree, pending |-> st.pending]
    BY <1>7 DEF Progress
  <2>2. QED BY <1>6, <2>1
<1>11. QED BY <1>1, <1>7, <1>8, <1>9, <1>10 DEF PassKeeps

\* A pass leaves a tree, and defers none but changes that were pending.
LEMMA PassTyped ==
  ASSUME NEW root \in Roots, NEW batch \in SUBSET Changes, IsFiniteSet(batch),
         NEW st \in Progress(batch)
  PROVE  Pass(root, st) \in Progress(batch)
<1>1. PICK f \in [SUBSET st.pending -> Progress(st.pending)] :
         Pass(root, st) = f[st.pending]
  BY PassIsFold
<1>2. Pass(root, st) \in Progress(st.pending)
  BY <1>1
<1>3. QED BY <1>2 DEF Progress

\* The passes of applyChangesToFixpoint, one for every change of the batch, and
\* what is still unresolved dropped from the tree at the end.
FixpointFold(f, tree, root, batch) ==
  /\ f[{}] = [tree |-> tree, pending |-> batch]
  /\ \A s \in (SUBSET batch) \ {{}} :
       Latest(s) \in s /\ f[s] = Pass(root, f[s \ {Latest(s)}])
  /\ ApplyChangesToFixpoint(tree, root, batch) =
       [n \in Nodes |-> IF n \in Ids(f[batch].pending) THEN NoNode
                        ELSE f[batch].tree[n]]

\* applyChangesToFixpoint is that fold of passes.
LEMMA FixpointIsFold ==
  ASSUME NEW root \in Roots, NEW batch \in SUBSET Changes, IsFiniteSet(batch),
         NEW tree \in Trees
  PROVE  \E f \in [SUBSET batch -> Progress(batch)] : FixpointFold(f, tree, root, batch)
<1> DEFINE V    == Progress(batch)
           base == [tree |-> tree, pending |-> batch]
           pick == [s \in (SUBSET batch) \ {{}} |-> Latest(s)]
           step == [a \in V \X batch |-> Pass(root, a[1])]
           Eqn(it) == [s \in SUBSET batch |->
                         IF s = {} THEN base ELSE Pass(root, it[s \ {Latest(s)}])]
<1>1. base \in V
  BY DEF Progress
<1>2. ASSUME NEW s \in (SUBSET batch) \ {{}} PROVE Latest(s) \in s
  <2>1. s \in SUBSET Changes /\ IsFiniteSet(s) /\ s # {}
    BY FS_Subset
  <2>2. QED BY <2>1, LatestIn
<1>3. step \in [V \X batch -> V]
  <2>1. \A st \in V : Pass(root, st) \in V
    BY PassTyped
  <2>2. QED BY <2>1
<1>4. PICK f \in [SUBSET batch -> V] : IsFold(f, batch, base, pick, step)
  <2> HIDE DEF V, base, step
  <2>1. \A s \in (SUBSET batch) \ {{}} : pick[s] \in s
    BY <1>2
  <2> HIDE DEF pick
  <2>2. FoldInput(batch, V, base, pick, step)
    BY <1>1, <1>3, <2>1 DEF FoldInput
  <2>3. QED BY <2>2, FoldExists
<1>5. \A s \in (SUBSET batch) \ {{}} : f[s] = Pass(root, f[s \ {Latest(s)}])
  BY <1>2, <1>4 DEF IsFold
<1>6. f = Eqn(f)
  <2> HIDE DEF V, base
  <2>1. \A s \in SUBSET batch :
           f[s] = IF s = {} THEN base ELSE Pass(root, f[s \ {Latest(s)}])
    BY <1>4, <1>5 DEF IsFold
  <2>2. QED BY <1>4, <2>1
<1> DEFINE it == CHOOSE it : it = Eqn(it)
<1>7. ApplyChangesToFixpoint(tree, root, batch) =
        [n \in Nodes |-> IF n \in Ids(it[batch].pending) THEN NoNode
                         ELSE it[batch].tree[n]]
  BY DEF ApplyChangesToFixpoint, InFeedOrder, MapThenFoldSet, Ids
<1>8. it = Eqn(it)
  BY <1>6
<1> HIDE DEF it
<1>9. /\ it[{}] = base
      /\ \A s \in (SUBSET batch) \ {{}} : it[s] = Pass(root, it[s \ {Latest(s)}])
  <2> HIDE DEF base
  <2>1. \A s \in SUBSET batch :
           it[s] = IF s = {} THEN base ELSE Pass(root, it[s \ {Latest(s)}])
    BY <1>8
  <2>2. QED BY <2>1
<1>10. \A s \in SUBSET batch : it[s] \in V
  <2> DEFINE G == {s \in SUBSET batch : it[s] \in V}
  <2>1. {} \in G
    BY <1>1, <1>9
  <2>2. \A s \in (SUBSET batch) \ {{}} : Latest(s) \in s /\ (s \ {Latest(s)} \in G => s \in G)
    <3>1. ASSUME NEW s \in (SUBSET batch) \ {{}}, s \ {Latest(s)} \in G PROVE s \in G
      <4>1. it[s \ {Latest(s)}] \in V
        BY <3>1
      <4>2. it[s] \in V
        BY <1>9, <4>1, PassTyped
      <4>3. QED BY <4>2
    <3> HIDE DEF G
    <3>2. QED BY <1>2, <3>1
  <2> HIDE DEF G
  <2>3. Inductive(G, batch)
    BY <2>1, <2>2 DEF Inductive
  <2>4. SUBSET batch \subseteq G
    BY <2>3, ShrinkInduction
  <2>5. QED BY <2>4 DEF G
<1>11. it \in [SUBSET batch -> V]
  <2> HIDE DEF V, base
  <2>1. QED BY <1>8, <1>10
<1>12. QED BY <1>2, <1>7, <1>9, <1>11 DEF FixpointFold

\* What is settled: every change that can be resolved has been, and the tree
\* agrees with Drive but for what is left.
THEOREM FixpointSettles ==
  ASSUME NEW here \in [Nodes -> Parents], NEW root \in Roots,
         NEW batch \in SUBSET Changes, IsFiniteSet(batch), Tells(batch, here, root),
         NEW tree \in Trees, Agrees(tree, here, root, Ids(batch))
  PROVE  \E st \in Progress(batch) :
            /\ Agrees(st.tree, here, root, Ids(st.pending)) /\ Stuck(root, st)
            /\ ApplyChangesToFixpoint(tree, root, batch) =
                 [n \in Nodes |-> IF n \in Ids(st.pending) THEN NoNode
                                  ELSE st.tree[n]]
<1>0. PICK f \in [SUBSET batch -> Progress(batch)] : FixpointFold(f, tree, root, batch)
  BY FixpointIsFold
<1>1. /\ f[{}] = [tree |-> tree, pending |-> batch]
            /\ \A s \in (SUBSET batch) \ {{}} :
                 Latest(s) \in s /\ f[s] = Pass(root, f[s \ {Latest(s)}])
            /\ ApplyChangesToFixpoint(tree, root, batch) =
                 [n \in Nodes |-> IF n \in Ids(f[batch].pending) THEN NoNode
                                  ELSE f[batch].tree[n]]
  BY <1>0 DEF FixpointFold
<1> DEFINE Kept(s)  == Agrees(f[s].tree, here, root, Ids(f[s].pending))
           Fewer(s) == Cardinality(f[s].pending) + Cardinality(s) <= Cardinality(batch)
           G == {s \in SUBSET batch : Kept(s) /\ (Stuck(root, f[s]) \/ Fewer(s))}
<1>2. {} \in G
  <2>1. f[{}].tree = tree /\ f[{}].pending = batch
    BY <1>1
  <2>2. Cardinality(batch) + Cardinality({}) <= Cardinality(batch)
    BY FS_EmptySet, FS_CardinalityType
  <2>3. QED BY <2>1, <2>2
<1>3. ASSUME NEW s \in (SUBSET batch) \ {{}}, s \ {Latest(s)} \in G
      PROVE  s \in G
  <2> DEFINE x == Latest(s)
             s0 == s \ {x}
             st == f[s0]
             next == Pass(root, st)
  <2>1. x \in s /\ s0 \in SUBSET batch /\ f[s] = next /\ st \in Progress(batch)
    BY <1>1
  <2>2. Kept(s0) /\ (Stuck(root, st) \/ Fewer(s0))
    BY <1>3
  <2>3. Agrees(st.tree, here, root, Ids(st.pending))
    BY <2>2
  <2>4. PassKeeps(here, root, st)
    <3> HIDE DEF st
    <3>1. QED BY <2>1, <2>3, PassAgrees
  <2> HIDE DEF x, st
  <2>5. /\ next \in Progress(st.pending)
        /\ Agrees(next.tree, here, root, Ids(next.pending))
        /\ next.pending = st.pending => Stuck(root, next)
        /\ Stuck(root, st) => next = st
    BY <2>4 DEF PassKeeps
  <2> HIDE DEF next
  <2>6. CASE Stuck(root, st) \/ next.pending = st.pending
    BY <2>1, <2>5, <2>6
  <2>7. CASE ~Stuck(root, st) /\ next.pending # st.pending
    <3>1. next.pending \subseteq st.pending /\ st.pending \subseteq batch
      BY <2>1, <2>5 DEF Progress
    <3>2. IsFiniteSet(st.pending) /\ IsFiniteSet(next.pending) /\ IsFiniteSet(s)
      BY <3>1, FS_Subset
    <3>3. /\ Cardinality(next.pending) <= Cardinality(st.pending)
          /\ Cardinality(next.pending) # Cardinality(st.pending)
      BY <3>1, <3>2, <2>7, FS_Subset
    <3>4. Cardinality(s0) = Cardinality(s) - 1
      BY <2>1, <3>2, FS_RemoveElement
    <3>5. Cardinality(st.pending) + Cardinality(s0) <= Cardinality(batch)
      BY <2>2, <2>7 DEF st
    <3>6. /\ Cardinality(next.pending) \in Nat /\ Cardinality(st.pending) \in Nat
          /\ Cardinality(s) \in Nat /\ Cardinality(batch) \in Nat
      BY <3>2, FS_CardinalityType
    <3>7. Cardinality(next.pending) + Cardinality(s) <= Cardinality(batch)
      BY <3>3, <3>4, <3>5, <3>6
    <3>8. QED BY <2>1, <2>5, <3>7
  <2>8. QED BY <2>6, <2>7
<1>4. Inductive(G, batch)
  <2>1. \A s \in (SUBSET batch) \ {{}} : Latest(s) \in s /\ (s \ {Latest(s)} \in G => s \in G)
    <3> HIDE DEF G
    <3>1. QED BY <1>1, <1>3
  <2> HIDE DEF G
  <2>2. QED BY <1>2, <2>1 DEF Inductive
<1>5. batch \in G
  <2> HIDE DEF G
  <2>1. QED BY <1>4, ShrinkInduction
<1>6. Stuck(root, f[batch])
  <2>1. CASE Fewer(batch)
    <3>1. f[batch].pending \subseteq batch
      BY <1>1 DEF Progress
    <3>2. IsFiniteSet(f[batch].pending) /\ Cardinality(f[batch].pending) \in Nat
          /\ Cardinality(batch) \in Nat
      BY <3>1, FS_Subset, FS_CardinalityType
    <3>3. Cardinality(f[batch].pending) = 0
      BY <2>1, <3>2
    <3>4. f[batch].pending = {}
      BY <3>2, <3>3, FS_EmptySet
    <3>5. QED BY <3>4 DEF Stuck
  <2>2. QED BY <1>5, <2>1
<1>7. QED
  <2> DEFINE st == f[batch]
  <2>1. st \in Progress(batch)
    BY <1>1
  <2>2. Agrees(st.tree, here, root, Ids(st.pending)) /\ Stuck(root, st)
    BY <1>5, <1>6
  <2>3. ApplyChangesToFixpoint(tree, root, batch) =
          [n \in Nodes |-> IF n \in Ids(st.pending) THEN NoNode ELSE st.tree[n]]
    BY <1>0 DEF FixpointFold
  <2> HIDE DEF st
  <2>4. QED BY <2>1, <2>2, <2>3

\* The tree below the root, as Drive has it.
Really(here, root) ==
  [n \in Nodes |-> IF n \in Below(here, root) THEN here[n] ELSE NoNode]

\* A tree that agrees with Drive, pruned, is Drive's own below the root.
LEMMA PruneIsReal ==
  ASSUME NEW here \in [Nodes -> Parents], NEW root \in Roots,
         NEW tree \in [Nodes -> Parents \union {NoNode}],
         Agrees(tree, here, root, {})
  PROVE  PruneUnreachable(tree, root) = Really(here, root)
<1> DEFINE U == Below(here, root)
<1>1. \A n \in Nodes : tree[n] \in {NoNode, here[n]} /\ (n \in U => tree[n] = here[n])
  BY DEF Agrees, FoldersHold
<1>2. Below(tree, root) \subseteq U
  <2>1. SUFFICES ASSUME NEW n \in Below(tree, root),
                        NEW S \in SUBSET Nodes, ClosedBelow(here, root, S)
                 PROVE  n \in S
    BY BelowClosed DEF Below
  <2>2. ClosedBelow(tree, root, S)
    BY <2>1, <1>1, TreeAssumption DEF ClosedBelow
  <2>3. QED BY <2>2 DEF Below
<1>3. U \subseteq Below(tree, root)
  <2>1. SUFFICES ASSUME NEW n \in U,
                        NEW S \in SUBSET Nodes, ClosedBelow(tree, root, S)
                 PROVE  n \in S
    BY BelowClosed DEF Below
  <2> DEFINE T == S \union (Nodes \ U)
  <2>2. ClosedBelow(here, root, T)
    <3>1. SUFFICES ASSUME NEW m \in U, here[m] = root \/ here[m] \in T
                   PROVE  m \in S
      BY DEF ClosedBelow
    <3>2. m \in Nodes /\ tree[m] = here[m] /\ (here[m] = root \/ here[m] \in U)
      BY <1>1, HereParent
    <3>3. QED BY <2>1, <3>1, <3>2 DEF ClosedBelow
  <2>3. T \in SUBSET Nodes /\ n \in Nodes
    BY BelowClosed
  <2>4. QED BY <2>1, <2>2, <2>3 DEF Below
<1>4. Below(tree, root) = U
  BY <1>2, <1>3
<1>5. QED BY <1>1, <1>4 DEF PruneUnreachable, Really

\* The delta computes what a walk would: from a tree that agrees with Drive but
\* for the files of the batch, and a batch that says of each of them where it
\* is, applyChanges makes exactly what Drive has below the root, in whatever
\* order the changes come, children before their folders included.  By
\* FoldersHold no folder of the batch may still be recorded at an old place.
THEOREM FeedCatchesUp ==
  ASSUME NEW here \in [Nodes -> Parents], NEW root \in Roots,
         NEW batch \in SUBSET Changes, IsFiniteSet(batch), Tells(batch, here, root),
         NEW tree \in Trees, Agrees(tree, here, root, Ids(batch))
  PROVE  ApplyChanges(tree, root, batch) = Really(here, root)
<1> DEFINE U == Below(here, root)
<1>1. PICK st \in Progress(batch) :
         /\ Agrees(st.tree, here, root, Ids(st.pending)) /\ Stuck(root, st)
         /\ ApplyChangesToFixpoint(tree, root, batch) =
              [n \in Nodes |-> IF n \in Ids(st.pending) THEN NoNode ELSE st.tree[n]]
  BY FixpointSettles
<1> DEFINE D == Ids(st.pending)
           final == [n \in Nodes |-> IF n \in D THEN NoNode ELSE st.tree[n]]
           S == U \ D
<1>2. ClosedBelow(here, root, S)
  <2>1. SUFFICES ASSUME NEW n \in Nodes, here[n] = root \/ here[n] \in S, n \in D
                 PROVE  FALSE
    BY BelowClosed DEF ClosedBelow
  <2>2. n \in U
    BY <2>1, BelowClosed DEF ClosedBelow
  <2>3. PICK ch \in st.pending : ch.id = n
    BY <2>1 DEF Ids
  <2>4. ch \in batch
    BY DEF Progress
  <2>5. ch.parent = here[n] /\ here[n] # Gone
    BY <2>2, <2>3, <2>4, HereParent DEF Tells
  <2>6. ~ApplyChange(st.tree, root, ch).resolved
    BY <1>1 DEF Stuck
  <2>7. here[n] # root /\ ~Known(st.tree, here[n])
    BY <2>5, <2>6 DEF ApplyChange
  <2>8. here[n] \in U \ D /\ here[n] \in Dirs
    BY <2>1, <2>2, <2>7, HereParent
  <2>9. st.tree[here[n]] = here[here[n]] /\ here[here[n]] # NoNode
    BY <1>1, <2>8, HereParent DEF Agrees, FoldersHold
  <2>10. QED BY <2>7, <2>8, <2>9 DEF Known
<1>3. U \subseteq S
  <2>1. S \in SUBSET Nodes
    BY BelowClosed
  <2>2. QED BY <1>2, <2>1 DEF Below
<1>4. st.tree \in Trees
  BY DEF Progress
<1>5. final \in [Nodes -> Parents \union {NoNode}]
  <2>1. \A n \in Nodes : n \notin D => st.tree[n] \in {NoNode, here[n]}
    BY <1>1 DEF Agrees, FoldersHold
  <2> HIDE DEF D
  <2>2. QED BY <2>1
<1>6. Agrees(final, here, root, {})
  <2>1. ASSUME NEW n \in Nodes
        PROVE  final[n] \in {NoNode, here[n]} /\ (n \in U => final[n] = here[n])
    BY <1>1, <1>3 DEF Agrees, FoldersHold
  <2>2. ASSUME NEW p \in Dirs \intersect U
        PROVE  here[p] = root \/ final[here[p]] # NoNode
    <3>1. CASE here[p] # root
      <4>1. here[p] \in U /\ here[p] \in Nodes
        BY <3>1, HereParent
      <4>2. QED BY <4>1, <2>1, HereParent
    <3>2. QED BY <3>1
  <2>3. QED
    <3> HIDE DEF final
    <3>1. Dirs \subseteq Nodes
      BY DEF Nodes
    <3>2. QED BY <2>1, <2>2, <3>1 DEF Agrees, FoldersHold
<1>7. PruneUnreachable(final, root) = Really(here, root)
  <2> HIDE DEF final
  <2>1. QED BY <1>5, <1>6, PruneIsReal
<1>8. QED BY <1>1, <1>7 DEF ApplyChanges
=============================================================================

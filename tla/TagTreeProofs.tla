--------------------------- MODULE TagTreeProofs ---------------------------
(***************************************************************************)
(* What stat_log computes from a program's tags: the order in which a      *)
(* command visits them, the layout of shared memory, the addresses of the  *)
(* elements of arrays, and what a name on the command line stands for.     *)
(***************************************************************************)
EXTENDS TagTree, DataLemmas

----------------------------------------------------------------------------
(* Trees *)

\* How far below a tag the deepest tags can be.
Height(t) == MaxDepth - depth[t]

LEMMA HeightOfChild ==
  ASSUME NEW t \in Tags, NEW i \in DOMAIN children[t]
  PROVE  /\ children[t] \in Seq(Tags) /\ children[t][i] \in Tags
         /\ Height(t) \in 0 .. MaxDepth /\ Height(children[t][i]) = Height(t) - 1
  <1>1. children[t] \in Seq(Tags) /\ children[t][i] \in Tags
    BY TreeAssumption
  <1>2. depth[children[t][i]] = depth[t] + 1
    BY TreeAssumption
  <1>3. depth[t] \in 0 .. MaxDepth /\ MaxDepth \in Nat
    BY TreeAssumption
  <1> QED
    BY <1>1, <1>2, <1>3 DEF Height

LEMMA HeightType ==
  ASSUME NEW t \in Tags
  PROVE  Height(t) \in 0 .. MaxDepth
  <1>1. depth[t] \in 0 .. MaxDepth /\ MaxDepth \in Nat
    BY TreeAssumption
  <1> QED
    BY <1>1 DEF Height

\* Induction from the leaves up.
LEMMA TreeInduction ==
  ASSUME NEW S,
         \A t \in Tags : (\A i \in DOMAIN children[t] : children[t][i] \in S) => t \in S
  PROVE  Tags \subseteq S
  <1> DEFINE K == {k \in Nat : \A t \in Tags : Height(t) < k => t \in S}
  <1>1. \A t \in Tags : Height(t) \in 0 .. MaxDepth
    BY HeightType
  <1>2. 0 \in K
    BY <1>1
  <1>3. ASSUME NEW k \in Nat, k \in K
        PROVE  k + 1 \in K
    <2> SUFFICES ASSUME NEW t \in Tags, Height(t) < k + 1 PROVE t \in S
      OBVIOUS
    <2>1. ASSUME NEW i \in DOMAIN children[t]
          PROVE  children[t][i] \in S
      <3>1. children[t][i] \in Tags /\ Height(children[t][i]) = Height(t) - 1
        BY HeightOfChild
      <3>2. Height(children[t][i]) < k
        BY <1>1, <3>1
      <3> QED
        BY <1>3, <3>1, <3>2
    <2> QED
      BY <2>1
  <1> HIDE DEF K
  <1>4. Nat \subseteq K
    BY <1>2, <1>3, NatSetInduction
  <1>5. MaxDepth + 1 \in K /\ MaxDepth \in Nat
    BY <1>4, TreeAssumption
  <1> QED
    BY <1>1, <1>5 DEF K

\* Induction from the roots down.
LEMMA RootInduction ==
  ASSUME NEW S, StatTagTree \in S, LogTagTree \in S,
         \A t \in Tags : t \in S => \A i \in DOMAIN children[t] : children[t][i] \in S
  PROVE  Tags \subseteq S
  <1> DEFINE K == {k \in Nat : \A t \in Tags : depth[t] < k => t \in S}
  <1>1. MaxDepth \in Nat /\ \A t \in Tags : depth[t] \in 0 .. MaxDepth
    BY TreeAssumption
  <1>2. 0 \in K
    BY <1>1
  <1>3. ASSUME NEW k \in Nat, k \in K
        PROVE  k + 1 \in K
    <2> SUFFICES ASSUME NEW t \in Tags, depth[t] < k + 1, t \notin {StatTagTree, LogTagTree}
                 PROVE  t \in S
      OBVIOUS
    <2>1. PICK p \in Tags : \E i \in DOMAIN children[p] : children[p][i] = t
      BY TreeAssumption
    <2>2. depth[t] = depth[p] + 1
      BY <2>1, TreeAssumption
    <2>3. p \in S
      BY <1>1, <1>3, <2>2
    <2> QED
      BY <2>1, <2>3
  <1> HIDE DEF K
  <1>4. Nat \subseteq K
    BY <1>2, <1>3, NatSetInduction
  <1>5. MaxDepth + 1 \in K
    BY <1>1, <1>4
  <1> QED
    BY <1>1, <1>5 DEF K

\* What f is of a tag depends on what it is of the tag's children, in their order.
TreeRecurrence(f, step) ==
  \A t \in Tags : f[t] = step[<<t, [i \in DOMAIN children[t] |-> f[children[t][i]]]>>]

LEMMA TreeRecursion ==
  ASSUME NEW V, NEW v0 \in V, NEW step \in [Tags \X Seq(V) -> V]
  PROVE  \E f \in [Tags -> V] : TreeRecurrence(f, step)
  <1> DEFINE W == [Tags -> V]
             N == MaxDepth + 1
             base == [t \in Tags |-> v0]
             of(g, t) == [i \in DOMAIN children[t] |-> g[children[t][i]]]
             next == [p \in W \X (1 .. N) |-> [t \in Tags |-> step[<<t, of(p[1], t)>>]]]
  <1>1. ASSUME NEW g \in W, NEW t \in Tags
        PROVE  of(g, t) \in Seq(V)
    <2>1. children[t] \in Seq(Tags)
      BY TreeAssumption
    <2>2. DOMAIN children[t] = 1 .. Len(children[t]) /\ Len(children[t]) \in Nat
      BY <2>1
    <2>3. \A i \in DOMAIN children[t] : g[children[t][i]] \in V
      BY <2>1
    <2> QED
      BY <2>2, <2>3
  <1>2. base \in W /\ N \in Nat /\ MaxDepth \in Nat
    BY TreeAssumption
  <1> HIDE DEF of
  <1>3. next \in [W \X (1 .. N) -> W]
    <2>1. ASSUME NEW g \in W
          PROVE  [t \in Tags |-> step[<<t, of(g, t)>>]] \in W
      BY <1>1
    <2> HIDE DEF W
    <2> QED
      BY <2>1
  <1>4. \A g \in W, k \in 1 .. N, t \in Tags : next[<<g, k>>][t] = step[<<t, of(g, t)>>]
    OBVIOUS
  <1> HIDE DEF next, base, W
  <1>5. PICK F \in [0 .. N -> W] : Recurrence(F, N, base, next)
    <2> HIDE DEF N
    <2> QED
      BY <1>2, <1>3, PrimitiveRecursion
  <1>6. ASSUME NEW k \in 1 .. N, NEW t \in Tags
        PROVE  F[k][t] = step[<<t, of(F[k - 1], t)>>]
    <2>1. F[k - 1] \in W
      BY <1>2
    <2>2. F[k] = next[<<F[k - 1], k>>]
      BY <1>5 DEF Recurrence
    <2> QED
      BY <1>4, <2>1, <2>2
  <1> DEFINE S == {t \in Tags : \A k \in 1 .. N : k > Height(t) => F[k][t] = F[N][t]}
  <1>7. ASSUME NEW t \in Tags, \A i \in DOMAIN children[t] : children[t][i] \in S
        PROVE  t \in S /\ F[N][t] = step[<<t, of(F[N], t)>>]
    <2>0. Height(t) \in 0 .. MaxDepth
      BY HeightType
    <2>1. ASSUME NEW k \in 1 .. N, k > Height(t)
          PROVE  of(F[k - 1], t) = of(F[N], t)
      <3>1. ASSUME NEW i \in DOMAIN children[t]
            PROVE  F[k - 1][children[t][i]] = F[N][children[t][i]]
        <4>1. /\ children[t][i] \in Tags /\ Height(children[t][i]) = Height(t) - 1
              /\ Height(children[t][i]) \in 0 .. MaxDepth
          BY HeightOfChild, HeightType
        <4>2. k - 1 \in 1 .. N /\ k - 1 > Height(children[t][i])
          BY <1>2, <2>0, <2>1, <4>1
        <4> QED
          BY <1>7, <4>2
      <3> QED
        BY <3>1 DEF of
    <2>2. ASSUME NEW k \in 1 .. N, k > Height(t)
          PROVE  F[k][t] = step[<<t, of(F[N], t)>>]
      BY <1>6, <2>1, <2>2
    <2>3. N \in 1 .. N /\ N > Height(t)
      BY <1>2, <2>0
    <2>4. F[N][t] = step[<<t, of(F[N], t)>>]
      BY <2>2, <2>3
    <2> QED
      BY <2>2, <2>4
  <1>8. Tags \subseteq S
    <2> HIDE DEF S
    <2> QED
      BY <1>7, TreeInduction
  <1>9. ASSUME NEW t \in Tags
        PROVE  F[N][t] = step[<<t, of(F[N], t)>>]
    <2>1. \A i \in DOMAIN children[t] : children[t][i] \in S
      BY <1>8, TreeAssumption
    <2> HIDE DEF S
    <2> QED
      BY <1>7, <2>1
  <1>10. F[N] \in [Tags -> V]
    <2>1. N \in 0 .. N
      BY <1>2
    <2> QED
      BY <2>1 DEF W
  <1> QED
    BY <1>9, <1>10 DEF TreeRecurrence, of

\* The children's own visits, in the order of the children.
ChildVisits(t) == [i \in DOMAIN children[t] |-> DoCmd(children[t][i])]

\* A command visits a tag and then all below its children, one after the other.
LEMMA DoCmdUnfolds ==
  ASSUME NEW t \in Tags
  PROVE  /\ DoCmd(t) \in Seq(Tags)
         /\ ChildVisits(t) \in Seq(Seq(Tags))
         /\ DoCmd(t) = <<t>> \o FlattenSeq(ChildVisits(t))
  <1> DEFINE V == Seq(Tags)
             step == [p \in Tags \X Seq(V) |-> <<p[1]>> \o FlattenSeq(p[2])]
             go[u \in Tags] ==
               <<u>> \o FlattenSeq([i \in DOMAIN children[u] |-> go[children[u][i]]])
             of(g, u) == [i \in DOMAIN children[u] |-> g[children[u][i]]]
  <1>1. ASSUME NEW u \in Tags
        PROVE  DOMAIN children[u] = 1 .. Len(children[u]) /\ Len(children[u]) \in Nat
    <2>1. children[u] \in Seq(Tags)
      BY TreeAssumption
    <2> QED
      BY <2>1
  <1>2. ASSUME NEW u \in Tags, NEW ss \in Seq(V)
        PROVE  <<u>> \o FlattenSeq(ss) \in V
    <2>1. FlattenSeq(ss) \in Seq(Tags) /\ <<u>> \in Seq(Tags)
      BY FlattenElements
    <2> QED
      BY <2>1
  <1>3. step \in [Tags \X Seq(V) -> V]
    <2> HIDE DEF V
    <2> QED
      BY <1>2
  <1>4. \A u \in Tags, ss \in Seq(V) : step[<<u, ss>>] = <<u>> \o FlattenSeq(ss)
    OBVIOUS
  <1>5. <<>> \in V
    OBVIOUS
  <1> HIDE DEF step, V
  <1>6. PICK f \in [Tags -> V] : TreeRecurrence(f, step)
    BY <1>3, <1>5, TreeRecursion
  <1>7. ASSUME NEW u \in Tags, NEW g, \A v \in Tags : g[v] \in V
        PROVE  of(g, u) \in Seq(V)
    <2>1. \A i \in DOMAIN children[u] : children[u][i] \in Tags
      BY TreeAssumption
    <2> DEFINE n == Len(children[u])
    <2>2. n \in Nat /\ DOMAIN children[u] = 1 .. n
      BY <1>1
    <2> HIDE DEF n
    <2>3. \A i \in 1 .. n : g[children[u][i]] \in V
      BY <1>7, <2>1, <2>2
    <2> QED
      BY <2>2, <2>3
  <1>8. ASSUME NEW u \in Tags
        PROVE  f[u] = <<u>> \o FlattenSeq(of(f, u))
    <2>1. of(f, u) \in Seq(V)
      BY <1>7
    <2> QED
      BY <1>4, <1>6, <2>1 DEF TreeRecurrence
  <1>9. f = [u \in Tags |-> <<u>> \o FlattenSeq(of(f, u))]
    BY <1>8
  <1>10. go = [u \in Tags |-> <<u>> \o FlattenSeq(of(go, u))]
    BY <1>9
  <1>11. DoCmd(t) = go[t] /\ \A u \in Tags : DoCmd(u) = go[u]
    BY DEF DoCmd
  <1> HIDE DEF go
  <1>12. \A u \in Tags : go[u] = <<u>> \o FlattenSeq(of(go, u))
    BY <1>10
  <1>13. \A u \in Tags : go[u] \in V
    <2> DEFINE S == {u \in Tags : go[u] \in V}
    <2>1. ASSUME NEW u \in Tags, \A i \in DOMAIN children[u] : children[u][i] \in S
          PROVE  u \in S
      <3>1. of(go, u) \in Seq(V)
        BY <1>1, <2>1
      <3> HIDE DEF of
      <3> QED
        BY <1>2, <1>12, <3>1
    <2> HIDE DEF S
    <2>2. Tags \subseteq S
      BY <2>1, TreeInduction
    <2> QED
      BY <2>2 DEF S
  <1>14. of(go, t) \in Seq(V)
    BY <1>7, <1>13
  <1>15. ChildVisits(t) = of(go, t)
    <2>1. \A i \in DOMAIN children[t] : children[t][i] \in Tags
      BY TreeAssumption
    <2> QED
      BY <1>11, <2>1 DEF ChildVisits
  <1> HIDE DEF of
  <1> QED
    BY <1>11, <1>12, <1>13, <1>14, <1>15 DEF V

\* A tag and all below it.
Under(t) == ToSet(DoCmd(t))

LEMMA UnderUnfolds ==
  ASSUME NEW t \in Tags
  PROVE  /\ Under(t) \subseteq Tags
         /\ Under(t) = {t} \cup UNION {Under(children[t][i]) : i \in DOMAIN children[t]}
  <1> DEFINE ss == ChildVisits(t)
  <1>1. /\ DoCmd(t) \in Seq(Tags) /\ ss \in Seq(Seq(Tags))
        /\ DoCmd(t) = <<t>> \o FlattenSeq(ss)
    BY DoCmdUnfolds
  <1>2. FlattenSeq(ss) \in Seq(Tags) /\ ToSet(FlattenSeq(ss)) = UNION {ToSet(ss[i]) : i \in DOMAIN ss}
    BY <1>1, FlattenElements
  <1>3. <<t>> \in Seq(Tags) /\ ToSet(<<t>>) = {t}
    BY DEF ToSet
  <1>4. ToSet(<<t>> \o FlattenSeq(ss)) = {t} \cup ToSet(FlattenSeq(ss))
    BY <1>2, <1>3, ToSetOfConcat
  <1>5. DOMAIN ss = DOMAIN children[t] /\ \A i \in DOMAIN ss : ToSet(ss[i]) = Under(children[t][i])
    BY DEF ChildVisits, Under
  <1>6. Under(t) \subseteq Tags
    BY <1>1, ElementType DEF Under, ToSet
  <1> HIDE DEF ss
  <1> QED
    BY <1>1, <1>2, <1>4, <1>5, <1>6 DEF Under

\* What is below a tag is deeper.
LEMMA UnderIsDeeper ==
  ASSUME NEW t \in Tags
  PROVE  \A u \in Under(t) : u = t \/ depth[u] > depth[t]
  <1> DEFINE S == {s \in Tags : \A u \in Under(s) : u = s \/ depth[u] > depth[s]}
  <1>1. ASSUME NEW s \in Tags, \A i \in DOMAIN children[s] : children[s][i] \in S
        PROVE  s \in S
    <2> SUFFICES ASSUME NEW u \in Under(s), u # s PROVE depth[u] > depth[s]
      OBVIOUS
    <2>1. PICK i \in DOMAIN children[s] : u \in Under(children[s][i])
      BY UnderUnfolds
    <2>2. depth[children[s][i]] = depth[s] + 1 /\ children[s][i] \in Tags
      BY TreeAssumption
    <2>3. u = children[s][i] \/ depth[u] > depth[children[s][i]]
      BY <1>1, <2>1
    <2>4. u \in Tags /\ depth[s] \in Nat /\ depth[u] \in Nat
      <3>1. u \in Tags
        BY UnderUnfolds
      <3>2. depth[s] \in 0 .. MaxDepth /\ depth[u] \in 0 .. MaxDepth
        BY <3>1, TreeAssumption
      <3> QED
        BY <3>1, <3>2
    <2> QED
      BY <2>2, <2>3, <2>4
  <1> HIDE DEF S
  <1>2. Tags \subseteq S
    BY <1>1, TreeInduction
  <1> QED
    BY <1>2 DEF S

\* What is below a tag has a parent that is.
LEMMA ParentIsUnder ==
  ASSUME NEW t \in Tags
  PROVE  \A p \in Tags : \A i \in DOMAIN children[p] :
           children[p][i] \in Under(t) /\ children[p][i] # t => p \in Under(t)
  <1> DEFINE is(s, p, i) == children[p][i] \in Under(s) /\ children[p][i] # s => p \in Under(s)
             S == {s \in Tags : \A p \in Tags : \A i \in DOMAIN children[p] : is(s, p, i)}
  <1>1. ASSUME NEW s \in Tags, \A j \in DOMAIN children[s] : children[s][j] \in S
        PROVE  s \in S
    <2> SUFFICES ASSUME NEW p \in Tags, NEW i \in DOMAIN children[p],
                        children[p][i] \in Under(s), children[p][i] # s
                 PROVE  p \in Under(s)
      OBVIOUS
    <2>1. PICK j \in DOMAIN children[s] : children[p][i] \in Under(children[s][j])
      BY UnderUnfolds
    <2>2. CASE children[p][i] = children[s][j]
      <3>1. p = s
        BY <2>2, TreeAssumption
      <3> QED
        BY <3>1, UnderUnfolds
    <2>3. CASE children[p][i] # children[s][j]
      <3>1. p \in Under(children[s][j])
        BY <1>1, <2>1, <2>3
      <3> QED
        BY <3>1, UnderUnfolds
    <2> QED
      BY <2>2, <2>3
  <1> HIDE DEF S
  <1>2. Tags \subseteq S
    BY <1>1, TreeInduction
  <1> QED
    BY <1>2 DEF S

\* Nothing is below two tags of the same depth.
LEMMA UnderIsDisjoint ==
  ASSUME NEW a \in Tags, NEW b \in Tags, depth[a] = depth[b], a # b
  PROVE  Under(a) \cap Under(b) = {}
  <1> DEFINE S == {u \in Tags : u \notin Under(a) \cap Under(b)}
             roots == {StatTagTree, LogTagTree}
  <1>0. /\ \A t \in Tags : depth[t] \in Nat
        /\ \A u \in Under(a) : u = a \/ depth[u] > depth[a]
        /\ \A u \in Under(b) : u = b \/ depth[u] > depth[b]
    <2>1. ASSUME NEW t \in Tags
          PROVE  depth[t] \in Nat
      <3>1. depth[t] \in 0 .. MaxDepth
        BY TreeAssumption
      <3> QED
        BY <3>1
    <2> QED
      BY <2>1, UnderIsDeeper
  <1>1. ASSUME NEW u \in roots
        PROVE  u \in S
    <2>1. depth[u] = 0 /\ u \in Tags
      BY TreeAssumption
    <2>2. ~(u = a /\ u = b)
      OBVIOUS
    <2> QED
      BY <1>0, <2>1, <2>2
  <1>2. ASSUME NEW p \in Tags, p \in S, NEW i \in DOMAIN children[p]
        PROVE  children[p][i] \in S
    <2> SUFFICES ASSUME children[p][i] \in Under(a) \cap Under(b) PROVE FALSE
      BY TreeAssumption
    <2>1. children[p][i] # a /\ children[p][i] # b
      <3>1. children[p][i] \in Tags
        BY TreeAssumption
      <3> QED
        BY <1>0, <3>1
    <2>2. p \in Under(a) /\ p \in Under(b)
      BY <2>1, ParentIsUnder
    <2> QED
      BY <1>2, <2>2
  <1>3. StatTagTree \in S /\ LogTagTree \in S
    <2> HIDE DEF S
    <2> QED
      BY <1>1
  <1> HIDE DEF S
  <1>4. Tags \subseteq S
    BY <1>2, <1>3, RootInduction
  <1>5. Under(a) \subseteq Tags
    BY UnderUnfolds
  <1> QED
    BY <1>4, <1>5 DEF S

\* A command visits no tag twice.
LEMMA DoCmdOnce ==
  ASSUME NEW t \in Tags
  PROVE  IsOnce(DoCmd(t))
  <1> DEFINE S == {s \in Tags : IsOnce(DoCmd(s))}
  <1>1. ASSUME NEW s \in Tags, \A i \in DOMAIN children[s] : children[s][i] \in S
        PROVE  s \in S
    <2> DEFINE ss == ChildVisits(s)
    <2>1. ss \in Seq(Seq(Tags)) /\ DoCmd(s) = <<s>> \o FlattenSeq(ss)
      BY DoCmdUnfolds
    <2>2. /\ FlattenSeq(ss) \in Seq(Tags)
          /\ ToSet(FlattenSeq(ss)) = UNION {ToSet(ss[i]) : i \in DOMAIN ss}
      BY <2>1, FlattenElements
    <2>3. DOMAIN ss = DOMAIN children[s] /\ \A i \in DOMAIN ss : ss[i] = DoCmd(children[s][i])
      BY DEF ChildVisits
    <2>4. \A i \in DOMAIN children[s] :
            children[s][i] \in Tags /\ depth[children[s][i]] = depth[s] + 1
      BY TreeAssumption
    <2> HIDE DEF ss
    <2>5. AllOnce(ss)
      <3>1. \A i \in DOMAIN ss : IsOnce(ss[i])
        BY <1>1, <2>3
      <3>2. ASSUME NEW i \in DOMAIN ss, NEW j \in DOMAIN ss, i # j
            PROVE  ToSet(ss[i]) \cap ToSet(ss[j]) = {}
        <4>1. children[s][i] # children[s][j]
          BY <2>3, <3>2, TreeAssumption
        <4>2. Under(children[s][i]) \cap Under(children[s][j]) = {}
          BY <2>3, <2>4, <4>1, UnderIsDisjoint
        <4> QED
          BY <2>3, <4>2 DEF Under
      <3> QED
        BY <3>1, <3>2 DEF AllOnce
    <2>6. IsOnce(FlattenSeq(ss))
      BY <2>1, <2>5, FlattenOnce
    <2>7. IsOnce(<<s>>) /\ ToSet(<<s>>) = {s} /\ <<s>> \in Seq(Tags)
      BY DEF IsOnce, ToSet
    <2>8. s \notin ToSet(FlattenSeq(ss))
      <3> SUFFICES ASSUME NEW i \in DOMAIN ss, s \in ToSet(ss[i]) PROVE FALSE
        BY <2>2
      <3>1. s = children[s][i] \/ depth[s] > depth[children[s][i]]
        BY <2>3, <2>4, UnderIsDeeper DEF Under
      <3>2. depth[s] \in 0 .. MaxDepth
        BY TreeAssumption
      <3> QED
        BY <2>3, <2>4, <3>1, <3>2
    <2>9. IsOnce(<<s>> \o FlattenSeq(ss))
      <3>1. ToSet(<<s>>) \cap ToSet(FlattenSeq(ss)) = {}
        BY <2>7, <2>8
      <3> QED
        BY <2>2, <2>6, <2>7, <3>1, ConcatOnce
    <2> QED
      BY <2>1, <2>9
  <1> HIDE DEF S
  <1>2. Tags \subseteq S
    BY <1>1, TreeInduction
  <1> QED
    BY <1>2 DEF S

\* The tags of the two trees are different.
LEMMA TreesAreDisjoint ==
  /\ StatTags \subseteq Tags /\ LogTags \subseteq Tags
  /\ StatTags \cap LogTags = {}
  <1>1. /\ StatTagTree \in Tags /\ LogTagTree \in Tags /\ StatTagTree # LogTagTree
        /\ depth[StatTagTree] = depth[LogTagTree]
    BY TreeAssumption
  <1> QED
    BY <1>1, UnderIsDisjoint, UnderUnfolds DEF StatTags, LogTags, Under

----------------------------------------------------------------------------
(* Sums and products *)

\* f has the totals of the first numbers.
TotalRecurrence(f, numbers) ==
  f[0] = 0 /\ \A k \in Nat : k + 1 <= Len(numbers) => f[k + 1] = f[k] + numbers[k + 1]

LEMMA TotalRecursion ==
  ASSUME NEW numbers \in Seq(Nat)
  PROVE  \E f \in [0 .. Len(numbers) -> Nat] :
           TotalRecurrence(f, numbers) /\ Total(numbers) = f[Len(numbers)]
  <1> DEFINE n == Len(numbers)
             step == [p \in Nat \X (1 .. n) |-> p[1] + numbers[p[2]]]
             iter[x \in SUBSET DOMAIN numbers] ==
               IF x = {} THEN 0 ELSE iter[x \ {Max(x)}] + numbers[Max(x)]
  <1>1. Total(numbers) = iter[DOMAIN numbers]
    BY DEF Total, FoldLeft, MapThenFoldSet
  <1>2. n \in Nat /\ DOMAIN numbers = 1 .. n /\ \A k \in 1 .. n : numbers[k] \in Nat
    OBVIOUS
  <1>3. step \in [Nat \X (1 .. n) -> Nat]
    OBVIOUS
  <1>4. \A v \in Nat, k \in 1 .. n : step[<<v, k>>] = v + numbers[k]
    OBVIOUS
  <1> HIDE DEF step
  <1>5. PICK g \in [SUBSET (1 .. n) -> Nat] : LeftRecurrence(g, n, 0, step)
    <2> HIDE DEF n
    <2> QED
      BY <1>2, <1>3, LeftRecursion
  <1>6. ASSUME NEW x \in SUBSET (1 .. n), x # {}
        PROVE  g[x] = g[x \ {Max(x)}] + numbers[Max(x)]
    <2>1. Max(x) \in 1 .. n
      BY <1>2, <1>6, LastAndFirst
    <2>2. g[x \ {Max(x)}] \in Nat
      OBVIOUS
    <2> QED
      BY <1>4, <1>5, <1>6, <2>1, <2>2 DEF LeftRecurrence
  <1>7. g = [x \in SUBSET DOMAIN numbers |->
               IF x = {} THEN 0 ELSE g[x \ {Max(x)}] + numbers[Max(x)]]
    BY <1>2, <1>5, <1>6 DEF LeftRecurrence
  <1>8. iter = [x \in SUBSET DOMAIN numbers |->
               IF x = {} THEN 0 ELSE iter[x \ {Max(x)}] + numbers[Max(x)]]
    BY <1>7
  <1>9. /\ iter[{}] = 0
        /\ \A x \in SUBSET (1 .. n) : x # {} => iter[x] = iter[x \ {Max(x)}] + numbers[Max(x)]
    <2> HIDE DEF iter, n
    <2> QED
      BY <1>2, <1>8
  <1> DEFINE f == [k \in 0 .. n |-> iter[1 .. k]]
  <1> HIDE DEF iter
  <1>10. f[0] = 0
    <2>1. 0 \in 0 .. n /\ 1 .. 0 = {}
      BY <1>2
    <2> QED
      BY <1>9, <2>1
  <1>11. ASSUME NEW k \in Nat, k + 1 <= n
         PROVE  f[k + 1] = f[k] + numbers[k + 1]
    <2> DEFINE m == k + 1
    <2>1. /\ m \in Nat \ {0} /\ k \in 0 .. n /\ m \in 0 .. n /\ 1 .. m \in SUBSET (1 .. n)
          /\ m - 1 = k
      BY <1>2, <1>11
    <2> HIDE DEF m
    <2>2. 1 .. m # {} /\ Max(1 .. m) = m /\ (1 .. m) \ {m} = 1 .. m - 1
      BY <2>1, Prefix
    <2>3. iter[1 .. m] = iter[1 .. m - 1] + numbers[m]
      BY <1>9, <2>1, <2>2
    <2>4. f[m] = iter[1 .. m] /\ f[k] = iter[1 .. m - 1]
      BY <2>1
    <2> HIDE DEF f
    <2> QED
      BY <2>3, <2>4 DEF m
  <1>12. f[n] = iter[DOMAIN numbers]
    <2>1. n \in 0 .. n
      BY <1>2
    <2> QED
      BY <1>2, <2>1
  <1> HIDE DEF f
  <1>13. \A k \in 0 .. n : f[k] \in Nat
    <2> DEFINE K == {k \in Nat : k <= n => f[k] \in Nat}
    <2>1. 0 \in K
      BY <1>10
    <2>2. ASSUME NEW k \in Nat, k \in K
          PROVE  k + 1 \in K
      <3> SUFFICES ASSUME k + 1 <= n PROVE f[k + 1] \in Nat
        OBVIOUS
      <3>1. k + 1 \in 1 .. n /\ f[k] \in Nat
        BY <1>2, <2>2
      <3>2. numbers[k + 1] \in Nat
        BY <1>2, <3>1
      <3> QED
        BY <1>11, <3>1, <3>2
    <2> HIDE DEF K
    <2>3. Nat \subseteq K
      BY <2>1, <2>2, NatSetInduction
    <2> QED
      BY <1>2, <2>3 DEF K
  <1>14. f \in [0 .. n -> Nat]
    <2>1. f = [k \in 0 .. n |-> f[k]]
      BY DEF f
    <2> QED
      BY <1>13, <2>1
  <1>15. TotalRecurrence(f, numbers)
    BY <1>10, <1>11 DEF TotalRecurrence
  <1> QED
    BY <1>1, <1>12, <1>14, <1>15

\* The total of the first numbers is the recurrence's value.
LEMMA TotalOfFirst ==
  ASSUME NEW n \in Nat, NEW c \in [1 .. n -> Nat], NEW f, TotalRecurrence(f, c),
         NEW k \in 0 .. n
  PROVE  Total([j \in 1 .. k |-> c[j]]) = f[k]
  <1> DEFINE s == [j \in 1 .. k |-> c[j]]
  <1>1. s \in Seq(Nat) /\ Len(s) = k /\ c \in Seq(Nat) /\ Len(c) = n
        /\ \A j \in 1 .. k : s[j] = c[j]
    <2>1. s = [j \in 1 .. k |-> s[j]] /\ c = [j \in 1 .. n |-> c[j]] /\ k \in Nat
      OBVIOUS
    <2>2. \A j \in 1 .. k : s[j] \in Nat /\ s[j] = c[j]
      OBVIOUS
    <2>3. \A j \in 1 .. n : c[j] \in Nat
      OBVIOUS
    <2> HIDE DEF s
    <2>4. s \in Seq(Nat) /\ Len(s) = k
      BY <2>1, <2>2, FunctionIsSequence
    <2>5. c \in Seq(Nat) /\ Len(c) = n
      BY <2>1, <2>3, FunctionIsSequence
    <2> QED
      BY <2>2, <2>4, <2>5
  <1> HIDE DEF s
  <1>2. PICK g \in [0 .. Len(s) -> Nat] : TotalRecurrence(g, s) /\ Total(s) = g[Len(s)]
    BY <1>1, TotalRecursion
  <1> DEFINE K == {i \in Nat : i <= k => g[i] = f[i]}
  <1>3. 0 \in K
    BY <1>2 DEF TotalRecurrence
  <1>4. ASSUME NEW i \in Nat, i \in K
        PROVE  i + 1 \in K
    <2> SUFFICES ASSUME i + 1 <= k PROVE g[i + 1] = f[i + 1]
      OBVIOUS
    <2>1. i + 1 \in 1 .. k /\ i <= k /\ i + 1 <= n
      OBVIOUS
    <2>2. g[i + 1] = g[i] + s[i + 1]
      BY <1>1, <1>2 DEF TotalRecurrence
    <2>3. f[i + 1] = f[i] + c[i + 1]
      BY <1>1, <2>1 DEF TotalRecurrence
    <2>4. s[i + 1] = c[i + 1] /\ g[i] = f[i]
      BY <1>1, <1>4, <2>1
    <2> QED
      BY <2>2, <2>3, <2>4
  <1> HIDE DEF K
  <1>5. Nat \subseteq K
    BY <1>3, <1>4, NatSetInduction
  <1>6. k \in K /\ k \in Nat
    BY <1>5
  <1> QED
    BY <1>1, <1>2, <1>6 DEF K, s

\* f has the products of the last sizes.
ProductRecurrence(f, sizes) ==
  f[Len(sizes) + 1] = 1 /\ \A k \in 1 .. Len(sizes) : f[k] = sizes[k] * f[k + 1]

LEMMA ProductRecursion ==
  ASSUME NEW sizes \in Seq(Nat \ {0})
  PROVE  \E f \in [1 .. Len(sizes) + 1 -> Nat \ {0}] :
           ProductRecurrence(f, sizes) /\ NumCells(sizes) = f[1]
  <1> DEFINE n == Len(sizes)
             V == Nat \ {0}
             step == [p \in V \X (1 .. n) |-> sizes[p[2]] * p[1]]
             iter[x \in SUBSET DOMAIN sizes] ==
               IF x = {} THEN 1 ELSE sizes[Min(x)] * iter[x \ {Min(x)}]
  <1>1. NumCells(sizes) = iter[DOMAIN sizes]
    BY DEF NumCells, FoldRight, MapThenFoldSet
  <1>2. n \in Nat /\ DOMAIN sizes = 1 .. n /\ \A k \in 1 .. n : sizes[k] \in V
    OBVIOUS
  <1>3. \A a, b \in V : a * b \in V
    OBVIOUS
  <1>4. 1 \in V
    OBVIOUS
  <1> HIDE DEF V
  <1>5. step \in [V \X (1 .. n) -> V]
    <2> HIDE DEF n
    <2> QED
      BY <1>2, <1>3
  <1>6. \A v \in V, k \in 1 .. n : step[<<v, k>>] = sizes[k] * v
    OBVIOUS
  <1> HIDE DEF step
  <1>7. PICK g \in [SUBSET (1 .. n) -> V] : RightRecurrence(g, n, 1, step)
    <2> HIDE DEF n
    <2> QED
      BY <1>2, <1>4, <1>5, RightRecursion
  <1>8. ASSUME NEW x \in SUBSET (1 .. n), x # {}
        PROVE  g[x] = sizes[Min(x)] * g[x \ {Min(x)}]
    <2>1. Min(x) \in 1 .. n
      BY <1>2, <1>8, LastAndFirst
    <2>2. g[x \ {Min(x)}] \in V
      OBVIOUS
    <2> QED
      BY <1>6, <1>7, <1>8, <2>1, <2>2 DEF RightRecurrence
  <1>9. g = [x \in SUBSET DOMAIN sizes |->
               IF x = {} THEN 1 ELSE sizes[Min(x)] * g[x \ {Min(x)}]]
    BY <1>2, <1>7, <1>8 DEF RightRecurrence
  <1>10. iter = [x \in SUBSET DOMAIN sizes |->
               IF x = {} THEN 1 ELSE sizes[Min(x)] * iter[x \ {Min(x)}]]
    BY <1>9
  <1>11. /\ iter[{}] = 1
         /\ \A x \in SUBSET (1 .. n) : x # {} => iter[x] = sizes[Min(x)] * iter[x \ {Min(x)}]
    <2> HIDE DEF iter, n
    <2> QED
      BY <1>2, <1>10
  <1> DEFINE f == [k \in 1 .. n + 1 |-> iter[k .. n]]
  <1> HIDE DEF iter
  <1>12. f[n + 1] = 1
    <2>1. n + 1 \in 1 .. n + 1 /\ n + 1 .. n = {}
      BY <1>2
    <2> QED
      BY <1>11, <2>1
  <1>13. ASSUME NEW k \in 1 .. n
         PROVE  f[k] = sizes[k] * f[k + 1]
    <2>1. k \in 1 .. n + 1 /\ k + 1 \in 1 .. n + 1 /\ k .. n \in SUBSET (1 .. n)
      BY <1>2
    <2>2. k .. n # {} /\ Min(k .. n) = k /\ (k .. n) \ {k} = k + 1 .. n
      BY <1>2, Suffix
    <2> QED
      BY <1>11, <2>1, <2>2
  <1>14. f[1] = iter[DOMAIN sizes]
    <2>1. 1 \in 1 .. n + 1
      BY <1>2
    <2> QED
      BY <1>2, <2>1
  <1> HIDE DEF f
  <1>15. \A k \in 1 .. n + 1 : f[k] \in V
    <2> DEFINE K == {i \in Nat : i <= n => f[n + 1 - i] \in V}
    <2>1. 0 \in K
      BY <1>2, <1>4, <1>12
    <2>2. ASSUME NEW i \in Nat, i \in K
          PROVE  i + 1 \in K
      <3> SUFFICES ASSUME i + 1 <= n PROVE f[n + 1 - (i + 1)] \in V
        OBVIOUS
      <3> DEFINE k == n - i
      <3> HIDE DEF n
      <3>1. k \in 1 .. n /\ k + 1 = n + 1 - i /\ n + 1 - (i + 1) = k /\ i <= n
        BY <1>2
      <3> HIDE DEF k
      <3>2. f[k] = sizes[k] * f[k + 1] /\ sizes[k] \in V
        BY <1>2, <1>13, <3>1
      <3>3. f[k + 1] \in V
        BY <2>2, <3>1
      <3> QED
        BY <1>3, <3>1, <3>2, <3>3
    <2> HIDE DEF K
    <2>3. Nat \subseteq K
      BY <2>1, <2>2, NatSetInduction
    <2>4. ASSUME NEW k \in 1 .. n + 1
          PROVE  f[k] \in V
      <3>1. n + 1 - k \in Nat /\ n + 1 - k <= n /\ n + 1 - (n + 1 - k) = k
        BY <1>2
      <3>2. n + 1 - k \in K
        BY <2>3, <3>1
      <3> QED
        BY <3>1, <3>2 DEF K
    <2> QED
      BY <2>4
  <1>16. f \in [1 .. n + 1 -> V]
    <2>1. f = [k \in 1 .. n + 1 |-> f[k]]
      BY DEF f
    <2> QED
      BY <1>15, <2>1
  <1>17. ProductRecurrence(f, sizes)
    BY <1>12, <1>13 DEF ProductRecurrence
  <1> QED
    BY <1>1, <1>14, <1>16, <1>17 DEF V

\* Cells of an element of the d-th array from the outside.
Weight(sizes, d) == NumCells(SubSeq(sizes, d + 1, Len(sizes)))

LEMMA Weights ==
  ASSUME NEW sizes \in Seq(Nat \ {0})
  PROVE  /\ \A d \in 0 .. Len(sizes) : Weight(sizes, d) \in Nat \ {0}
         /\ Weight(sizes, Len(sizes)) = 1
         /\ \A d \in 1 .. Len(sizes) : Weight(sizes, d - 1) = sizes[d] * Weight(sizes, d)
         /\ Weight(sizes, 0) = NumCells(sizes)
  <1> DEFINE n == Len(sizes)
  <1>1. n \in Nat
    OBVIOUS
  <1>2. PICK f \in [1 .. n + 1 -> Nat \ {0}] : ProductRecurrence(f, sizes) /\ NumCells(sizes) = f[1]
    BY ProductRecursion
  <1>3. ASSUME NEW d \in 0 .. n
        PROVE  Weight(sizes, d) = f[d + 1]
    <2> DEFINE s == SubSeq(sizes, d + 1, n)
               m == n - d
    <2>1. m \in Nat /\ d \in Nat
      BY <1>1
    <2>2. s \in Seq(Nat \ {0}) /\ Len(s) = m /\ \A j \in 1 .. m : s[j] = sizes[j + d]
      <3>1. \A j \in 1 .. m : sizes[j + d] \in Nat \ {0}
        BY <2>1
      <3>2. s = [j \in 1 .. m |-> sizes[j + d]]
        BY <1>1, <2>1
      <3>3. s = [j \in 1 .. m |-> s[j]] /\ \A j \in 1 .. m : s[j] = sizes[j + d]
        BY <3>2
      <3> HIDE DEF s, m
      <3>4. \A j \in 1 .. m : s[j] \in Nat \ {0}
        BY <3>1, <3>3
      <3> QED
        BY <2>1, <3>3, <3>4, FunctionIsSequence
    <2> HIDE DEF s
    <2>3. PICK g \in [1 .. Len(s) + 1 -> Nat \ {0}] : ProductRecurrence(g, s) /\ NumCells(s) = g[1]
      BY <2>2, ProductRecursion
    <2>4. g[m + 1] = 1 /\ \A k \in 1 .. m : g[k] = s[k] * g[k + 1]
      <3> HIDE DEF m
      <3> QED
        BY <2>2, <2>3 DEF ProductRecurrence
    <2>10. f[n + 1] = 1 /\ m = n - d
      BY <1>2 DEF ProductRecurrence
    <2> HIDE DEF m, n
    <2> DEFINE K == {i \in Nat : i <= m => g[m + 1 - i] = f[n + 1 - i]}
    <2>5. 0 \in K
      BY <1>1, <2>1, <2>4, <2>10
    <2>6. ASSUME NEW i \in Nat, i \in K
          PROVE  i + 1 \in K
      <3> SUFFICES ASSUME i + 1 <= m PROVE g[m + 1 - (i + 1)] = f[n + 1 - (i + 1)]
        OBVIOUS
      <3> DEFINE k == m - i
                 q == n - i
      <3>1. /\ k \in 1 .. m /\ k + 1 = m + 1 - i /\ m + 1 - (i + 1) = k
            /\ q \in 1 .. n /\ q + 1 = n + 1 - i /\ n + 1 - (i + 1) = q /\ k + d = q
        BY <1>1, <2>1, <2>10
      <3> HIDE DEF k, q
      <3>2. g[k] = s[k] * g[k + 1] /\ f[q] = sizes[q] * f[q + 1] /\ s[k] = sizes[q]
        BY <1>2, <2>2, <2>4, <3>1 DEF ProductRecurrence, n
      <3>3. g[k + 1] = f[q + 1]
        <4>1. i <= m
          BY <2>1
        <4> QED
          BY <2>6, <3>1, <4>1
      <3> QED
        BY <3>1, <3>2, <3>3
    <2> HIDE DEF K
    <2>7. Nat \subseteq K
      BY <2>5, <2>6, NatSetInduction
    <2>8. m \in K /\ m + 1 - m = 1 /\ n + 1 - m = d + 1
      BY <1>1, <2>1, <2>7, <2>10
    <2>9. g[1] = f[d + 1]
      BY <2>1, <2>8 DEF K
    <2> QED
      BY <2>3, <2>9 DEF Weight, s, n
  <1> HIDE DEF n
  <1>4. ASSUME NEW d \in 1 .. n
        PROVE  Weight(sizes, d - 1) = sizes[d] * Weight(sizes, d)
    <2>1. d - 1 \in 0 .. n /\ d \in 0 .. n /\ d - 1 + 1 = d
      BY <1>1
    <2>2. Weight(sizes, d - 1) = f[d] /\ Weight(sizes, d) = f[d + 1]
      <3> DEFINE e == d - 1
      <3>1. e \in 0 .. n /\ e + 1 = d
        BY <2>1
      <3> HIDE DEF e
      <3>2. Weight(sizes, e) = f[d]
        BY <1>3, <3>1
      <3> QED
        BY <1>3, <2>1, <3>2 DEF e
    <2> QED
      BY <1>2, <2>2 DEF ProductRecurrence, n
  <1>5. \A d \in 0 .. n : f[d + 1] \in Nat \ {0}
    BY <1>1
  <1>6. Weight(sizes, n) = 1
    BY <1>1, <1>2, <1>3 DEF ProductRecurrence, n
  <1>7. Weight(sizes, 0) = NumCells(sizes)
    <2>1. 0 \in 0 .. n /\ 0 + 1 = 1
      BY <1>1
    <2>2. Weight(sizes, 0) = f[0 + 1]
      BY <1>3, <2>1
    <2> QED
      BY <1>2, <2>1, <2>2
  <1> QED
    BY <1>3, <1>4, <1>5, <1>6, <1>7 DEF n

----------------------------------------------------------------------------
(* The layout of shared memory *)

LEMMA ReverseKeeps ==
  ASSUME NEW S, NEW s \in Seq(S)
  PROVE  /\ Reverse(s) \in Seq(S) /\ Len(Reverse(s)) = Len(s)
         /\ ToSet(Reverse(s)) = ToSet(s)
         /\ IsOnce(s) => IsOnce(Reverse(s))
  <1> DEFINE n == Len(s)
             r == [i \in 1 .. n |-> s[(n - i) + 1]]
  <1>1. n \in Nat /\ DOMAIN s = 1 .. n
    OBVIOUS
  <1>2. Reverse(s) = r
    BY DEF Reverse
  <1>3. \A i \in 1 .. n : n - i + 1 \in 1 .. n /\ n - (n - i + 1) + 1 = i
    BY <1>1
  <1>4. \A i \in 1 .. n : s[i] \in S
    OBVIOUS
  <1>5. r = [i \in 1 .. n |-> r[i]] /\ \A i \in 1 .. n : r[i] = s[n - i + 1]
    OBVIOUS
  <1> HIDE DEF r, n
  <1>6. \A i \in 1 .. n : r[i] \in S
    BY <1>3, <1>4, <1>5
  <1>7. r \in Seq(S) /\ Len(r) = n /\ DOMAIN r = 1 .. n
    BY <1>1, <1>5, <1>6, FunctionIsSequence
  <1>8. ToSet(r) = ToSet(s)
    BY <1>1, <1>3, <1>5, <1>7, SMTT(30) DEF ToSet
  <1>9. ASSUME IsOnce(s), NEW i \in 1 .. n, NEW j \in 1 .. n, r[i] = r[j]
        PROVE  i = j
    <2>1. n - i + 1 = n - j + 1
      <3>1. s[n - i + 1] = s[n - j + 1]
        BY <1>5, <1>9
      <3> QED
        BY <1>1, <1>3, <1>9, <3>1 DEF IsOnce
    <2> QED
      BY <1>1, <2>1
  <1> QED
    BY <1>2, <1>7, <1>8, <1>9 DEF IsOnce, n

\* The statistics come first, and every node once.
LEMMA NodesOfTrees ==
  /\ Nodes \in Seq(Tags) /\ IsOnce(Nodes)
  /\ Len(TheStats) \in Nat /\ Len(Nodes) \in Nat /\ Len(TheStats) <= Len(Nodes)
  /\ \A k \in 1 .. Len(Nodes) :
       Nodes[k] \in IF k <= Len(TheStats) THEN StatTags ELSE LogTags
  /\ ToSet(Nodes) = StatTags \cup LogTags
  <1>1. StatTagTree \in Tags /\ LogTagTree \in Tags
    BY TreeAssumption
  <1>2. /\ DoCmd(StatTagTree) \in Seq(Tags) /\ DoCmd(LogTagTree) \in Seq(Tags)
        /\ IsOnce(DoCmd(StatTagTree)) /\ IsOnce(DoCmd(LogTagTree))
    BY <1>1, DoCmdUnfolds, DoCmdOnce
  <1>3. /\ TheStats \in Seq(Tags) /\ TheLogs \in Seq(Tags)
        /\ IsOnce(TheStats) /\ IsOnce(TheLogs)
        /\ ToSet(TheStats) = StatTags /\ ToSet(TheLogs) = LogTags
    BY <1>2, ReverseKeeps DEF TheStats, TheLogs, StatTags, LogTags
  <1>4. Nodes \in Seq(Tags) /\ ToSet(Nodes) = StatTags \cup LogTags
    BY <1>3, ToSetOfConcat DEF Nodes
  <1>5. IsOnce(Nodes)
    BY <1>3, TreesAreDisjoint, ConcatOnce DEF Nodes
  <1>6. /\ Len(TheStats) \in Nat /\ Len(TheLogs) \in Nat
        /\ Len(Nodes) = Len(TheStats) + Len(TheLogs)
        /\ \A k \in 1 .. Len(TheStats) : TheStats[k] \in StatTags
        /\ \A k \in 1 .. Len(TheLogs) : TheLogs[k] \in LogTags
    BY <1>3 DEF Nodes, ToSet
  <1>7. ASSUME NEW k \in 1 .. Len(Nodes)
        PROVE  Nodes[k] \in IF k <= Len(TheStats) THEN StatTags ELSE LogTags
    <2>1. CASE k <= Len(TheStats)
      <3>1. Nodes[k] = TheStats[k]
        BY <1>3, <2>1 DEF Nodes
      <3> QED
        BY <1>6, <2>1, <3>1
    <2>2. CASE ~(k <= Len(TheStats))
      <3>1. Nodes[k] = TheLogs[k - Len(TheStats)]
        BY <1>3, <1>6, <2>2 DEF Nodes
      <3> QED
        BY <1>6, <2>2, <3>1
    <2> QED
      BY <2>1, <2>2
  <1> QED
    BY <1>4, <1>5, <1>6, <1>7

\* Where init finds a tag's node.
Position(t) == CHOOSE k \in DOMAIN Nodes : Nodes[k] = t

LEMMA PositionOf ==
  ASSUME NEW t \in StatTags \cup LogTags
  PROVE  /\ Position(t) \in 1 .. Len(Nodes) /\ Nodes[Position(t)] = t
         /\ shared_ptr(t) = SharedPtr(Position(t))
         /\ t \in StatTags => Position(t) <= Len(TheStats)
         /\ t \in LogTags => Position(t) > Len(TheStats)
  <1>1. DOMAIN Nodes = 1 .. Len(Nodes)
    BY NodesOfTrees
  <1>2. \E k \in 1 .. Len(Nodes) : Nodes[k] = t
    BY <1>1, NodesOfTrees DEF ToSet
  <1>3. Position(t) \in 1 .. Len(Nodes) /\ Nodes[Position(t)] = t
    BY <1>1, <1>2 DEF Position
  <1>4. Nodes[Position(t)] \in IF Position(t) <= Len(TheStats) THEN StatTags ELSE LogTags
    BY <1>3, NodesOfTrees
  <1>5. Position(t) \in Nat /\ Len(TheStats) \in Nat
    BY <1>3, NodesOfTrees
  <1> QED
    BY <1>3, <1>4, <1>5, TreesAreDisjoint DEF shared_ptr, Position

LEMMA SizeOfLeaf ==
  ASSUME NEW t \in StatLeaves
  PROVE  /\ dims[t] \in Seq(Nat \ {0}) /\ Len(dims[t]) \in Nat
         /\ NumCells(dims[t]) \in Nat \ {0}
  <1>1. dims[t] \in Seq(Nat \ {0})
    BY DimsAssumption
  <1>2. 0 \in 0 .. Len(dims[t])
    BY <1>1
  <1> QED
    BY <1>1, <1>2, Weights

LEMMA SizeOfNode ==
  /\ \A k \in 1 .. Len(Nodes) : getSharedSize(k) \in Nat
  /\ \A t \in StatLeaves : getSharedSize(Position(t)) = NumCells(dims[t])
  /\ \A t \in LogTags : getSharedSize(Position(t)) = numLoggers
  <1>0. /\ Len(TheStats) \in Nat /\ numLoggers \in Nat
        /\ \A k \in 1 .. Len(Nodes) :
             Nodes[k] \in IF k <= Len(TheStats) THEN StatTags ELSE LogTags
    BY NodesOfTrees, LoggersAssumption
  <1>1. ASSUME NEW k \in 1 .. Len(Nodes)
        PROVE  getSharedSize(k) \in Nat
    <2>1. CASE k > Len(TheStats)
      BY <1>0, <2>1 DEF getSharedSize
    <2>2. CASE ~(k > Len(TheStats))
      <3>1. Nodes[k] \in StatTags
        BY <1>0, <2>2
      <3>2. CASE is_parent(Nodes[k])
        BY <2>2, <3>2 DEF getSharedSize
      <3>3. CASE ~is_parent(Nodes[k])
        <4>1. Nodes[k] \in StatLeaves
          BY <3>1, <3>3 DEF StatLeaves
        <4>2. NumCells(dims[Nodes[k]]) \in Nat
          BY <4>1, SizeOfLeaf
        <4> QED
          BY <2>2, <3>3, <4>2 DEF getSharedSize
      <3> QED
        BY <3>2, <3>3
    <2> QED
      BY <2>1, <2>2
  <1>2. ASSUME NEW t \in StatLeaves
        PROVE  getSharedSize(Position(t)) = NumCells(dims[t])
    <2>1. t \in StatTags /\ ~is_parent(t)
      BY DEF StatLeaves
    <2>2. /\ Position(t) \in 1 .. Len(Nodes) /\ Nodes[Position(t)] = t
          /\ Position(t) <= Len(TheStats)
      BY <2>1, PositionOf
    <2>3. ~(Position(t) > Len(TheStats))
      BY <1>0, <2>2
    <2> QED
      BY <2>1, <2>2, <2>3 DEF getSharedSize
  <1>3. ASSUME NEW t \in LogTags
        PROVE  getSharedSize(Position(t)) = numLoggers
    BY PositionOf DEF getSharedSize
  <1> QED
    BY <1>1, <1>2, <1>3

\* The nodes lie one after the other.
LEMMA NodesInARow ==
  /\ \A k \in 1 .. Len(Nodes) + 1 : SharedPtr(k) \in Nat
  /\ \A k \in 1 .. Len(Nodes) : SharedPtr(k + 1) = SharedPtr(k) + getSharedSize(k)
  <1> DEFINE n == Len(Nodes)
             c == [j \in 1 .. n |-> getSharedSize(j)]
  <1>1. n \in Nat
    BY NodesOfTrees
  <1>2. c \in [1 .. n -> Nat] /\ \A j \in 1 .. n : c[j] = getSharedSize(j)
    BY SizeOfNode
  <1> HIDE DEF n
  <1>3. c \in Seq(Nat) /\ Len(c) = n
    BY <1>1, <1>2
  <1> HIDE DEF c
  <1>4. PICK f \in [0 .. n -> Nat] : TotalRecurrence(f, c)
    BY <1>3, TotalRecursion
  <1>5. ASSUME NEW k \in 1 .. n + 1
        PROVE  SharedPtr(k) = f[k - 1] /\ k - 1 \in 0 .. n
    <2>1. k - 1 \in 0 .. n
      BY <1>1
    <2>2. Total([j \in 1 .. k - 1 |-> c[j]]) = f[k - 1]
      BY <1>1, <1>2, <1>4, <2>1, TotalOfFirst
    <2>3. [j \in 1 .. k - 1 |-> c[j]] = [j \in 1 .. k - 1 |-> getSharedSize(j)]
      <3>1. \A j \in 1 .. k - 1 : j \in 1 .. n
        BY <1>1, <2>1
      <3> QED
        BY <1>2, <3>1
    <2> QED
      BY <2>1, <2>2, <2>3 DEF SharedPtr
  <1>6. ASSUME NEW k \in 1 .. n
        PROVE  SharedPtr(k + 1) = SharedPtr(k) + getSharedSize(k)
    <2> DEFINE i == k - 1
               m == k + 1
    <2>1. i \in Nat /\ i + 1 = k /\ i + 1 <= Len(c) /\ m \in 1 .. n + 1 /\ m - 1 = k
          /\ k \in 1 .. n + 1
      BY <1>1, <1>3
    <2> HIDE DEF i, m
    <2>2. f[i + 1] = f[i] + c[i + 1]
      BY <1>4, <2>1 DEF TotalRecurrence
    <2>3. SharedPtr(m) = f[m - 1]
      BY <1>5, <2>1
    <2>4. SharedPtr(k) = f[k - 1]
      BY <1>5, <2>1
    <2> QED
      BY <1>2, <2>1, <2>2, <2>3, <2>4 DEF i, m
  <1> QED
    BY <1>5, <1>6 DEF n

LEMMA NodesInOrder ==
  ASSUME NEW j \in 1 .. Len(Nodes), NEW k \in j + 1 .. Len(Nodes) + 1
  PROVE  SharedPtr(j) \in Nat /\ SharedPtr(j) + getSharedSize(j) <= SharedPtr(k)
  <1> DEFINE n == Len(Nodes)
             K == {i \in Nat : j + 1 + i <= n + 1 =>
                     SharedPtr(j) + getSharedSize(j) <= SharedPtr(j + 1 + i)}
  <1>1. n \in Nat /\ j \in Nat
    BY NodesOfTrees
  <1>2. /\ \A i \in 1 .. n + 1 : SharedPtr(i) \in Nat
        /\ \A i \in 1 .. n : SharedPtr(i + 1) = SharedPtr(i) + getSharedSize(i)
        /\ \A i \in 1 .. n : getSharedSize(i) \in Nat
    BY NodesInARow, SizeOfNode
  <1> HIDE DEF n
  <1>3. j \in 1 .. n /\ j \in 1 .. n + 1 /\ SharedPtr(j) \in Nat /\ getSharedSize(j) \in Nat
    BY <1>1, <1>2 DEF n
  <1>4. 0 \in K
    <2>1. SharedPtr(j + 1) = SharedPtr(j) + getSharedSize(j) /\ j + 1 + 0 = j + 1
      BY <1>1, <1>2, <1>3
    <2> QED
      BY <1>3, <2>1
  <1>5. ASSUME NEW i \in Nat, i \in K
        PROVE  i + 1 \in K
    <2> SUFFICES ASSUME j + 1 + (i + 1) <= n + 1
                 PROVE  SharedPtr(j) + getSharedSize(j) <= SharedPtr(j + 1 + (i + 1))
      OBVIOUS
    <2> DEFINE m == j + 1 + i
    <2>1. m \in 1 .. n /\ m + 1 = j + 1 + (i + 1) /\ m <= n + 1 /\ m \in 1 .. n + 1
      BY <1>1
    <2>2. SharedPtr(j) + getSharedSize(j) <= SharedPtr(m)
      BY <1>5, <2>1
    <2> HIDE DEF m
    <2>3. SharedPtr(m + 1) = SharedPtr(m) + getSharedSize(m)
      BY <1>2, <2>1
    <2>4. SharedPtr(m) \in Nat /\ getSharedSize(m) \in Nat
      BY <1>2, <2>1
    <2> QED
      BY <1>3, <2>1, <2>2, <2>3, <2>4
  <1> HIDE DEF K
  <1>6. Nat \subseteq K
    BY <1>4, <1>5, NatSetInduction
  <1>7. k - (j + 1) \in Nat /\ j + 1 + (k - (j + 1)) = k /\ k <= n + 1
    BY <1>1 DEF n
  <1> QED
    BY <1>3, <1>6, <1>7 DEF K

\* The cells of the k-th node.
NodeCells(k) == SharedPtr(k) .. SharedPtr(k) + getSharedSize(k) - 1

\* Every node lies in the shared memory, and no two overlap.
LEMMA NodesApart ==
  /\ \A k \in 1 .. Len(Nodes) : NodeCells(k) \subseteq Cells
  /\ \A j, k \in 1 .. Len(Nodes) : j # k => NodeCells(j) \cap NodeCells(k) = {}
  <1>0. /\ Len(Nodes) \in Nat
        /\ \A k \in 1 .. Len(Nodes) : SharedPtr(k) \in Nat /\ getSharedSize(k) \in Nat
    BY NodesOfTrees, NodesInARow, SizeOfNode
  <1>1. ASSUME NEW k \in 1 .. Len(Nodes)
        PROVE  NodeCells(k) \subseteq Cells
    <2>1. Len(Nodes) + 1 \in k + 1 .. Len(Nodes) + 1
      BY <1>0
    <2>2. SharedPtr(k) + getSharedSize(k) <= SharedPtr(Len(Nodes) + 1)
      BY <2>1, NodesInOrder
    <2>3. SharedPtr(Len(Nodes) + 1) \in Nat
      BY <1>0, NodesInARow
    <2> QED
      BY <1>0, <2>2, <2>3 DEF NodeCells, Cells, total_shm_size
  <1>2. ASSUME NEW j \in 1 .. Len(Nodes), NEW k \in 1 .. Len(Nodes), j < k
        PROVE  NodeCells(j) \cap NodeCells(k) = {}
    <2>1. k \in j + 1 .. Len(Nodes) + 1
      BY <1>0, <1>2
    <2>2. SharedPtr(j) + getSharedSize(j) <= SharedPtr(k)
      BY <2>1, NodesInOrder
    <2> QED
      BY <1>0, <2>2 DEF NodeCells
  <1>3. \A j, k \in 1 .. Len(Nodes) : j # k => j < k \/ k < j
    BY <1>0
  <1> QED
    BY <1>1, <1>2, <1>3

\* A statistic and a log tag are nodes of their own.
LEMMA CellsOfTags ==
  /\ \A t \in StatLeaves : shared_ptr(t) \in Nat /\ StatCells(t) = NodeCells(Position(t))
  /\ \A t \in LogTags : shared_ptr(t) \in Nat
       /\ \A i \in 0 .. numLoggers - 1 : LevelCell(t, i) \in NodeCells(Position(t))
  <1>1. ASSUME NEW t \in StatLeaves
        PROVE  shared_ptr(t) \in Nat /\ StatCells(t) = NodeCells(Position(t))
    <2>1. t \in StatTags \cup LogTags
      BY DEF StatLeaves
    <2>2. Position(t) \in 1 .. Len(Nodes) /\ shared_ptr(t) = SharedPtr(Position(t))
      BY <2>1, PositionOf
    <2>3. SharedPtr(Position(t)) \in Nat
      BY <2>2, NodesInARow, NodesOfTrees
    <2> QED
      BY <2>2, <2>3, SizeOfNode DEF StatCells, NodeCells
  <1>2. ASSUME NEW t \in LogTags
        PROVE  shared_ptr(t) \in Nat
               /\ \A i \in 0 .. numLoggers - 1 : LevelCell(t, i) \in NodeCells(Position(t))
    <2>1. Position(t) \in 1 .. Len(Nodes) /\ shared_ptr(t) = SharedPtr(Position(t))
      BY PositionOf
    <2>2. SharedPtr(Position(t)) \in Nat
      BY <2>1, NodesInARow, NodesOfTrees
    <2>3. getSharedSize(Position(t)) = numLoggers /\ numLoggers \in Nat
      BY SizeOfNode, LoggersAssumption
    <2> QED
      BY <2>1, <2>2, <2>3 DEF LevelCell, NodeCells
  <1> QED
    BY <1>1, <1>2

LEMMA CellsApart ==
  /\ \A t \in StatLeaves : StatCells(t) \subseteq Cells
  /\ \A t, u \in StatLeaves : t # u => StatCells(t) \cap StatCells(u) = {}
  /\ \A t \in LogTags, i \in 0 .. numLoggers - 1 :
       LevelCell(t, i) \in Cells /\ \A u \in StatLeaves : LevelCell(t, i) \notin StatCells(u)
  /\ \A t, u \in LogTags : \A i, j \in 0 .. numLoggers - 1 :
       LevelCell(t, i) = LevelCell(u, j) => t = u /\ i = j
  <1>1. \A t \in StatLeaves : t \in StatTags \cup LogTags /\ t \notin LogTags
    BY TreesAreDisjoint DEF StatLeaves
  <1>2. \A t, u \in StatTags \cup LogTags : t # u =>
          /\ Position(t) \in 1 .. Len(Nodes) /\ Position(u) \in 1 .. Len(Nodes)
          /\ Position(t) # Position(u)
    BY PositionOf
  <1>3. \A t \in StatTags \cup LogTags : Position(t) \in 1 .. Len(Nodes)
    BY PositionOf
  <1>4. ASSUME NEW t \in StatTags \cup LogTags, NEW u \in StatTags \cup LogTags, t # u
        PROVE  NodeCells(Position(t)) \cap NodeCells(Position(u)) = {}
    BY <1>2, <1>4, NodesApart
  <1>5. \A t \in StatLeaves : StatCells(t) \subseteq Cells
    BY <1>1, <1>3, CellsOfTags, NodesApart
  <1>6. \A t, u \in StatLeaves : t # u => StatCells(t) \cap StatCells(u) = {}
    BY <1>1, <1>4, CellsOfTags
  <1>7. ASSUME NEW t \in LogTags, NEW i \in 0 .. numLoggers - 1
        PROVE  LevelCell(t, i) \in Cells /\ \A u \in StatLeaves : LevelCell(t, i) \notin StatCells(u)
    BY <1>1, <1>3, <1>4, CellsOfTags, NodesApart
  <1>8. ASSUME NEW t \in LogTags, NEW u \in LogTags,
               NEW i \in 0 .. numLoggers - 1, NEW j \in 0 .. numLoggers - 1,
               LevelCell(t, i) = LevelCell(u, j)
        PROVE  t = u /\ i = j
    <2>1. t = u
      BY <1>4, <1>8, CellsOfTags
    <2>2. shared_ptr(t) \in Nat
      BY CellsOfTags
    <2> QED
      BY <1>8, <2>1, <2>2 DEF LevelCell
  <1> QED
    BY <1>5, <1>6, <1>7, <1>8

----------------------------------------------------------------------------
(* Arrays: a cell's number in an array of these sizes, and its index, each    *)
(* of which gives the other.                                                  *)

\* What write adds to the first cell for an index.
Offset(sizes, idx) ==
  Total([d \in DOMAIN idx |-> idx[d] * NumCells(SubSeq(sizes, d + 1, Len(idx)))])

\* f has what the first indices add.
OffsetRecurrence(f, sizes, idx) ==
  f[0] = 0 /\ \A d \in 1 .. Len(sizes) : f[d] = f[d - 1] + idx[d] * Weight(sizes, d)

LEMMA OffsetRecursion ==
  ASSUME NEW sizes \in Seq(Nat \ {0}), NEW idx \in [1 .. Len(sizes) -> Nat]
  PROVE  \E f \in [0 .. Len(sizes) -> Nat] :
           OffsetRecurrence(f, sizes, idx) /\ Offset(sizes, idx) = f[Len(sizes)]
  <1> DEFINE n == Len(sizes)
             c == [d \in 1 .. n |-> idx[d] * Weight(sizes, d)]
  <1>1. n \in Nat
    OBVIOUS
  <1>2. \A d \in 1 .. n : Weight(sizes, d) \in Nat \ {0} /\ idx[d] \in Nat
    <2>1. \A d \in 0 .. Len(sizes) : Weight(sizes, d) \in Nat \ {0}
      BY Weights
    <2>2. \A d \in 1 .. n : d \in 0 .. n /\ idx[d] \in Nat
      BY <1>1
    <2> QED
      BY <2>1, <2>2
  <1>3. \A d \in 1 .. n : c[d] = idx[d] * Weight(sizes, d)
    OBVIOUS
  <1>4. c = [d \in 1 .. n |-> c[d]]
    OBVIOUS
  <1>5. idx \in Seq(Nat) /\ Len(idx) = n /\ DOMAIN idx = 1 .. n
    <2>1. idx = [d \in 1 .. n |-> idx[d]]
      OBVIOUS
    <2> HIDE DEF n
    <2> QED
      BY <1>1, <1>2, <2>1, FunctionIsSequence
  <1>6. Offset(sizes, idx) = Total(c)
    BY <1>5 DEF Offset, Weight
  <1> HIDE DEF c, n
  <1>7. c \in Seq(Nat) /\ Len(c) = n
    <2>1. ASSUME NEW d \in 1 .. n
          PROVE  c[d] \in Nat
      <3>1. idx[d] * Weight(sizes, d) \in Nat
        <4>1. idx[d] \in Nat /\ Weight(sizes, d) \in Nat
          BY <1>2
        <4> QED
          BY <4>1, TimesMonotone
      <3> QED
        BY <1>3, <3>1
    <2> QED
      BY <1>1, <1>4, <2>1, FunctionIsSequence
  <1>8. PICK f \in [0 .. n -> Nat] : TotalRecurrence(f, c) /\ Total(c) = f[n]
    BY <1>7, TotalRecursion
  <1>9. ASSUME NEW d \in 1 .. n
        PROVE  f[d] = f[d - 1] + idx[d] * Weight(sizes, d)
    <2> DEFINE e == d - 1
    <2>1. e \in Nat /\ e + 1 = d /\ e + 1 <= Len(c)
      BY <1>1, <1>7
    <2> HIDE DEF e
    <2>2. f[e + 1] = f[e] + c[e + 1]
      BY <1>8, <2>1 DEF TotalRecurrence
    <2> QED
      BY <1>3, <2>1, <2>2 DEF e
  <1>10. OffsetRecurrence(f, sizes, idx)
    BY <1>8, <1>9 DEF TotalRecurrence, OffsetRecurrence, n
  <1> QED
    BY <1>6, <1>8, <1>10 DEF n

\* idx is an index of an array of these sizes.
IsIndex(idx, sizes) ==
  idx \in [1 .. Len(sizes) -> Nat] /\ \A d \in 1 .. Len(sizes) : idx[d] < sizes[d]

\* The printer's label of the cell that write goes to is write's index.
LEMMA LabelOfOffset ==
  ASSUME NEW sizes \in Seq(Nat \ {0}), NEW idx, IsIndex(idx, sizes)
  PROVE  /\ Offset(sizes, idx) \in 0 .. NumCells(sizes) - 1
         /\ dim_indices(Offset(sizes, idx), sizes) = idx
  <1> DEFINE n == Len(sizes)
             W(d) == Weight(sizes, d)
             x == Offset(sizes, idx)
  <1>1. n \in Nat /\ DOMAIN sizes = 1 .. n
    OBVIOUS
  <1>2. idx \in [1 .. n -> Nat] /\ \A d \in 1 .. n : idx[d] < sizes[d] /\ idx[d] \in Nat
    BY DEF IsIndex
  <1>3. PICK f \in [0 .. n -> Nat] : OffsetRecurrence(f, sizes, idx) /\ x = f[n]
    BY <1>2, OffsetRecursion
  <1>4. /\ f[0] = 0 /\ x = f[n]
        /\ \A d \in 1 .. n : f[d] = f[d - 1] + idx[d] * W(d)
    BY <1>3 DEF OffsetRecurrence
  <1>5. /\ \A d \in 0 .. n : W(d) \in Nat \ {0}
        /\ W(n) = 1 /\ W(0) = NumCells(sizes)
        /\ \A d \in 1 .. n : W(d - 1) = sizes[d] * W(d) /\ sizes[d] \in Nat \ {0}
    BY <1>1, Weights, ElementType
  <1> HIDE DEF x, n, W
  <1>6. \A d \in 0 .. n : f[d] \in Nat
    OBVIOUS
  <1> DEFINE Upto(d) == \E q \in Nat : f[d] = q * W(d) /\ (d \in 1 .. n => q % sizes[d] = idx[d])
             K == {d \in Nat : d <= n => Upto(d)}
  <1>7. 0 \in K
    <2>1. Upto(0)
      <3>1. 0 \in Nat /\ f[0] = 0 * W(0) /\ 0 \notin 1 .. n
        BY <1>4, <1>5, <1>1
      <3> QED
        BY <3>1
    <2> HIDE DEF Upto
    <2> QED
      BY <2>1
  <1>8. ASSUME NEW e \in Nat, e \in K
        PROVE  e + 1 \in K
    <2> SUFFICES ASSUME e + 1 <= n PROVE Upto(e + 1)
      <3> HIDE DEF Upto
      <3> QED
        OBVIOUS
    <2> DEFINE d == e + 1
    <2>1. e \in 0 .. n /\ d \in 1 .. n /\ d \in 0 .. n /\ d - 1 = e /\ e <= n
      BY <1>1
    <2>2. PICK q \in Nat : f[e] = q * W(e)
      BY <1>8, <2>1
    <2> HIDE DEF d
    <2> DEFINE a == q * sizes[d]
               p == a + idx[d]
    <2>3. f[d] = f[e] + idx[d] * W(d) /\ W(e) = sizes[d] * W(d)
      BY <1>4, <1>5, <2>1
    <2>4. /\ sizes[d] \in Nat \ {0} /\ W(d) \in Nat \ {0} /\ idx[d] \in Nat
          /\ idx[d] \in 0 .. sizes[d] - 1
      BY <1>2, <1>5, <2>1
    <2>5. a \in Nat
      BY <2>4, TimesMonotone
    <2>6. a * W(d) = q * (sizes[d] * W(d))
      BY <2>4, Associate
    <2>7. p \in Nat /\ p % sizes[d] = idx[d]
      <3>1. p = q * sizes[d] + idx[d] /\ p \in Nat
        BY <2>4, <2>5
      <3> HIDE DEF p
      <3> QED
        BY <2>4, <3>1, DivUnique
    <2> HIDE DEF a
    <2>8. p * W(d) = a * W(d) + idx[d] * W(d)
      BY <2>4, <2>5, Distribute
    <2>9. f[d] = p * W(d)
      BY <2>2, <2>3, <2>6, <2>8
    <2> HIDE DEF p
    <2>10. Upto(d)
      BY <2>7, <2>9
    <2> QED
      BY <2>10 DEF d
  <1> HIDE DEF K, Upto
  <1>9. Nat \subseteq K
    BY <1>7, <1>8, NatSetInduction
  <1>10. \A d \in 0 .. n : Upto(d)
    <2>1. \A d \in 0 .. n : d \in K /\ d <= n
      BY <1>1, <1>9
    <2> QED
      BY <2>1 DEF K
  <1> DEFINE Rest(d) == x - f[d] \in 0 .. W(d) - 1
             R == {i \in Nat : i <= n => Rest(n - i)}
  <1>11. 0 \in R
    <2>1. Rest(n) /\ n - 0 = n
      BY <1>1, <1>4, <1>5, <1>6
    <2> HIDE DEF Rest
    <2> QED
      BY <2>1
  <1>12. ASSUME NEW i \in Nat, i \in R
         PROVE  i + 1 \in R
    <2> SUFFICES ASSUME i + 1 <= n PROVE Rest(n - (i + 1))
      <3> HIDE DEF Rest
      <3> QED
        OBVIOUS
    <2> DEFINE d == n - i
               e == d - 1
    <2>1. e \in 0 .. n /\ d \in 1 .. n /\ d \in 0 .. n /\ e = d - 1 /\ i <= n /\ n - (i + 1) = e
      BY <1>1
    <2>2. Rest(d)
      BY <1>12, <2>1
    <2> HIDE DEF d, e
    <2>3. f[d] = f[e] + idx[d] * W(d) /\ W(e) = sizes[d] * W(d)
      BY <1>4, <1>5, <2>1
    <2>4. /\ sizes[d] \in Nat \ {0} /\ W(d) \in Nat \ {0} /\ idx[d] \in Nat
          /\ idx[d] <= sizes[d] - 1 /\ sizes[d] - 1 \in Nat
      <3>1. sizes[d] \in Nat \ {0} /\ W(d) \in Nat \ {0}
        BY <1>5, <2>1
      <3>2. idx[d] \in Nat /\ idx[d] < sizes[d]
        BY <1>2, <2>1
      <3> QED
        BY <3>1, <3>2
    <2>5. idx[d] * W(d) <= (sizes[d] - 1) * W(d) /\ idx[d] * W(d) \in Nat
      BY <2>4, TimesMonotone
    <2>6. (sizes[d] - 1) * W(d) = sizes[d] * W(d) - 1 * W(d) /\ 1 * W(d) = W(d)
          /\ sizes[d] * W(d) \in Int
      BY <2>4, Distribute
    <2>7. f[d] \in Nat /\ f[e] \in Nat /\ x \in Nat
      <3>1. n \in 0 .. n
        BY <1>1
      <3> QED
        BY <1>4, <1>6, <2>1, <3>1
    <2> DEFINE a == idx[d] * W(d)
               b == (sizes[d] - 1) * W(d)
               c == sizes[d] * W(d)
    <2>8. a \in Nat /\ a <= b /\ b = c - W(d) /\ f[d] = f[e] + a /\ W(e) = c /\ c \in Int
      BY <2>3, <2>5, <2>6
    <2> HIDE DEF a, b, c
    <2> DEFINE w == W(d)
               y == f[e]
    <2>9. x - (y + a) \in 0 .. w - 1 /\ w \in Nat /\ y \in Nat /\ b = c - w
      BY <2>2, <2>4, <2>7, <2>8
    <2> HIDE DEF w, y
    <2>11. x - y \in 0 .. c - 1
      BY <2>7, <2>8, <2>9
    <2>10. x - f[e] \in 0 .. W(e) - 1
      BY <2>8, <2>11 DEF y
    <2> QED
      BY <2>1, <2>10
  <1> HIDE DEF R, Rest
  <1>13. Nat \subseteq R
    BY <1>11, <1>12, NatSetInduction
  <1>14. ASSUME NEW d \in 0 .. n
         PROVE  Rest(d)
    <2>1. n - d \in Nat /\ n - d <= n /\ n - (n - d) = d /\ n - d \in R
      BY <1>1, <1>13
    <2> QED
      BY <2>1 DEF R
  <1>15. x \in 0 .. NumCells(sizes) - 1
    <2>1. Rest(0) /\ x \in Nat
      <3>1. n \in 0 .. n /\ 0 \in 0 .. n
        BY <1>1
      <3> QED
        BY <1>4, <1>6, <1>14, <3>1
    <2>2. x - 0 = x
      BY <2>1
    <2> QED
      BY <1>4, <1>5, <2>1, <2>2 DEF Rest
  <1>16. ASSUME NEW d \in 1 .. n
         PROVE  (x \div W(d)) % sizes[d] = idx[d]
    <2>1. d \in 0 .. n
      BY <1>1
    <2>2. PICK q \in Nat : f[d] = q * W(d) /\ q % sizes[d] = idx[d]
      BY <1>10, <2>1 DEF Upto
    <2> DEFINE r == x - f[d]
    <2>3. r \in 0 .. W(d) - 1
      BY <1>14, <2>1 DEF Rest
    <2>4. x \in Nat /\ f[d] \in Nat
      BY <1>6, <1>15, <2>1
    <2>5. x = f[d] + r
      BY <2>4
    <2> HIDE DEF r
    <2>6. x = q * W(d) + r /\ W(d) \in Nat \ {0}
      BY <1>5, <2>1, <2>2, <2>5
    <2>7. x \div W(d) = q
      BY <2>3, <2>4, <2>6, DivUnique
    <2> QED
      BY <2>2, <2>7
  <1>17. dim_indices(x, sizes) = [d \in 1 .. n |-> (x \div W(d)) % sizes[d]]
    BY <1>1 DEF dim_indices, Weight, W, n
  <1>18. dim_indices(x, sizes) = idx
    BY <1>2, <1>16, <1>17
  <1> QED
    BY <1>15, <1>18 DEF x

\* No size is greater than the number of cells.
LEMMA SizesFit ==
  ASSUME NEW sizes \in Seq(Nat \ {0}), NEW d \in 1 .. Len(sizes)
  PROVE  sizes[d] <= NumCells(sizes)
  <1> DEFINE n == Len(sizes)
             W(e) == Weight(sizes, e)
             K == {e \in Nat : e <= n => W(e) <= W(0)}
  <1>1. /\ n \in Nat /\ d \in 1 .. n
        /\ \A e \in 0 .. n : W(e) \in Nat \ {0}
        /\ W(n) = 1 /\ W(0) = NumCells(sizes)
        /\ \A e \in 1 .. n : W(e - 1) = sizes[e] * W(e) /\ sizes[e] \in Nat \ {0}
    BY Weights, ElementType
  <1> HIDE DEF n, W
  <1>2. 0 \in K
    <2>1. W(0) \in Nat
      BY <1>1
    <2> QED
      BY <2>1
  <1>3. ASSUME NEW e \in 1 .. n
        PROVE  sizes[e] <= W(e - 1) /\ W(e) <= W(e - 1) /\ W(e) \in Nat /\ W(e - 1) \in Nat
               /\ sizes[e] \in Nat
    <2>1. W(e) \in Nat /\ 1 <= W(e) /\ sizes[e] \in Nat /\ 1 <= sizes[e] /\ e - 1 \in 0 .. n
      <3>1. e \in 0 .. n /\ e - 1 \in 0 .. n
        BY <1>1
      <3>2. W(e) \in Nat \ {0} /\ sizes[e] \in Nat \ {0}
        BY <1>1, <3>1
      <3> QED
        BY <3>1, <3>2
    <2>2. 1 * sizes[e] <= W(e) * sizes[e] /\ 1 * W(e) <= sizes[e] * W(e)
      BY <2>1, TimesMonotone
    <2>3. W(e) * sizes[e] = sizes[e] * W(e) /\ 1 * sizes[e] = sizes[e] /\ 1 * W(e) = W(e)
      BY <2>1, Associate
    <2>4. W(e - 1) = sizes[e] * W(e) /\ W(e - 1) \in Nat
      BY <1>1, <2>1
    <2> QED
      BY <2>1, <2>2, <2>3, <2>4
  <1>4. ASSUME NEW e \in Nat, e \in K
        PROVE  e + 1 \in K
    <2> SUFFICES ASSUME e + 1 <= n PROVE W(e + 1) <= W(0)
      OBVIOUS
    <2> DEFINE m == e + 1
    <2>1. m \in 1 .. n /\ m - 1 = e /\ e <= n /\ 0 \in 0 .. n
      BY <1>1
    <2> HIDE DEF m
    <2>2. W(m) <= W(m - 1) /\ W(m) \in Nat /\ W(m - 1) \in Nat
      BY <1>3, <2>1
    <2>3. W(e) <= W(0) /\ W(0) \in Nat
      BY <1>1, <1>4, <2>1
    <2> QED
      BY <2>1, <2>2, <2>3 DEF m
  <1> HIDE DEF K
  <1>5. Nat \subseteq K
    BY <1>2, <1>4, NatSetInduction
  <1>6. d - 1 \in Nat /\ d - 1 <= n /\ 0 \in 0 .. n
    BY <1>1
  <1>7. W(d - 1) <= W(0) /\ W(0) \in Nat
    BY <1>1, <1>5, <1>6 DEF K
  <1>8. sizes[d] <= W(d - 1) /\ sizes[d] \in Nat /\ W(d - 1) \in Nat
    BY <1>1, <1>3
  <1> QED
    BY <1>1, <1>7, <1>8, SMTT(30)

\* Every cell has an index, and write goes from the index to the cell.
LEMMA OffsetOfLabel ==
  ASSUME NEW sizes \in Seq(Nat \ {0}), NEW x \in 0 .. NumCells(sizes) - 1
  PROVE  /\ IsIndex(dim_indices(x, sizes), sizes)
         /\ Offset(sizes, dim_indices(x, sizes)) = x
  <1> DEFINE n == Len(sizes)
             W(d) == Weight(sizes, d)
             idx == dim_indices(x, sizes)
  <1>1. n \in Nat /\ DOMAIN sizes = 1 .. n
    OBVIOUS
  <1>2. /\ \A d \in 0 .. n : W(d) \in Nat \ {0}
        /\ W(n) = 1 /\ W(0) = NumCells(sizes)
        /\ \A d \in 1 .. n : W(d - 1) = sizes[d] * W(d) /\ sizes[d] \in Nat \ {0}
    BY <1>1, Weights, ElementType
  <1>3. idx = [d \in 1 .. n |-> (x \div W(d)) % sizes[d]]
    BY <1>1 DEF dim_indices, Weight
  <1> HIDE DEF n, W, idx
  <1>4. x \in Nat /\ x < W(0)
    <2>1. W(0) \in Nat
      BY <1>1, <1>2
    <2> QED
      BY <1>2, <2>1
  <1>5. ASSUME NEW d \in 1 .. n
        PROVE  /\ x \div W(d) \in Nat /\ idx[d] = (x \div W(d)) % sizes[d]
               /\ idx[d] \in 0 .. sizes[d] - 1 /\ sizes[d] \in Nat \ {0}
    <2>1. d \in 0 .. n
      BY <1>1
    <2>2. W(d) \in Nat \ {0} /\ sizes[d] \in Nat \ {0}
      BY <1>2, <2>1
    <2>3. x \div W(d) \in Nat
      BY <1>4, <2>2, DivType
    <2>4. (x \div W(d)) % sizes[d] \in 0 .. sizes[d] - 1
      BY <2>2, <2>3, DivMod
    <2> QED
      BY <1>3, <2>2, <2>3, <2>4
  <1>6. IsIndex(idx, sizes)
    <2>1. \A d \in 1 .. n : idx[d] \in Nat /\ idx[d] < sizes[d]
      BY <1>5
    <2>2. idx = [d \in 1 .. n |-> idx[d]]
      BY <1>3
    <2>3. idx \in [1 .. n -> Nat]
      BY <2>1, <2>2
    <2> QED
      BY <2>1, <2>3 DEF IsIndex, n
  <1>7. PICK f \in [0 .. n -> Nat] : OffsetRecurrence(f, sizes, idx) /\ Offset(sizes, idx) = f[n]
    BY <1>6, OffsetRecursion DEF IsIndex, n
  <1>8. f[0] = 0 /\ \A d \in 1 .. n : f[d] = f[d - 1] + idx[d] * W(d)
    BY <1>7 DEF OffsetRecurrence, n, W
  <1> DEFINE K == {d \in Nat : d <= n => f[d] = W(d) * (x \div W(d))}
  <1>9. 0 \in K
    <2>1. W(0) \in Nat \ {0}
      BY <1>1, <1>2
    <2>2. x \div W(0) = 0
      BY <1>4, <2>1, DivSmall
    <2>3. W(0) * 0 = 0
      BY <2>1
    <2> QED
      BY <1>8, <2>2, <2>3
  <1>10. ASSUME NEW e \in Nat, e \in K
         PROVE  e + 1 \in K
    <2> SUFFICES ASSUME e + 1 <= n PROVE f[e + 1] = W(e + 1) * (x \div W(e + 1))
      OBVIOUS
    <2> DEFINE d == e + 1
    <2>1. d \in 1 .. n /\ d \in 0 .. n /\ d - 1 = e /\ e <= n
      BY <1>1
    <2> HIDE DEF d
    <2> DEFINE w == W(d)
               s == sizes[d]
               q == x \div W(d)
               p == x \div W(e)
    <2>2. w \in Nat \ {0} /\ s \in Nat \ {0} /\ W(e) = s * w /\ q \in Nat /\ idx[d] = q % s
      BY <1>2, <1>5, <2>1
    <2>3. q \div s = p
      <3> HIDE DEF w, s
      <3>1. (x \div w) \div s = x \div (s * w)
        BY <1>4, <2>2, DivDiv, ZenonT(40)
      <3>2. q = x \div w /\ p = x \div (s * w)
        BY <2>2 DEF w
      <3> QED
        BY <3>1, <3>2
    <2>4. f[d] = W(e) * p + idx[d] * w
      BY <1>8, <1>10, <2>1
    <2> HIDE DEF p, w, s
    <2>5. f[d] = (s * w) * p + (q % s) * w
      BY <2>2, <2>4
    <2> HIDE DEF q
    <2> DEFINE r == q % s
    <2>6. q \in Nat /\ s \in Nat \ {0} /\ p \in Nat
      BY <2>2, <2>3, DivType
    <2>7. q = s * p + r /\ r \in Nat
      <3>1. q = s * (q \div s) + r /\ r \in 0 .. s - 1
        BY <2>6, DivMod
      <3> HIDE DEF r
      <3>2. q = s * p + r
        BY <2>3, <3>1, Zenon
      <3> QED
        BY <2>6, <3>1, <3>2
    <2> HIDE DEF r
    <2>8. q * w = (s * p) * w + r * w
      <3> DEFINE c == s * p
      <3>1. c \in Int
        BY <2>6, Distribute
      <3>2. q = c + r
        BY <2>7
      <3> HIDE DEF c
      <3>3. (c + r) * w = c * w + r * w
        BY <2>2, <2>7, <3>1, Distribute
      <3> QED
        BY <3>2, <3>3 DEF c
    <2>9. (s * p) * w = (s * w) * p /\ q * w = w * q
      <3>1. (s * p) * w = s * (p * w) /\ p * w = w * p /\ (s * w) * p = s * (w * p)
        BY <2>2, <2>6, Associate
      <3>2. q * w = w * q
        BY <2>2, Associate
      <3> QED
        BY <3>1, <3>2
    <2>10. f[d] = w * q
      BY <2>5, <2>8, <2>9 DEF r
    <2> QED
      BY <2>10 DEF d, w, q
  <1> HIDE DEF K
  <1>11. Nat \subseteq K
    BY <1>9, <1>10, NatSetInduction
  <1>12. f[n] = W(n) * (x \div W(n))
    <2>1. n \in K /\ n <= n
      BY <1>1, <1>11
    <2> QED
      BY <2>1 DEF K
  <1>13. x \div 1 = x /\ 1 * x = x
    BY <1>4
  <1>14. f[n] = x
    BY <1>2, <1>12, <1>13
  <1> QED
    BY <1>6, <1>7, <1>14 DEF idx

LEMMA DivMonotone ==
  ASSUME NEW a \in Nat, NEW b \in Nat, NEW c \in Nat \ {0}, a <= b
  PROVE  a \div c <= b \div c
  <1> DEFINE p == a \div c
             q == b \div c
  <1>1. p \in Nat /\ q \in Nat /\ c \in Nat /\ c > 0
    BY DivType
  <1>2. a = c * p + (a % c) /\ a % c \in 0 .. c - 1 /\ b = c * q + (b % c) /\ b % c \in 0 .. c - 1
    BY DivMod
  <1> HIDE DEF p, q
  <1>3. ASSUME p > q
        PROVE  FALSE
    <2>1. q + 1 <= p /\ q + 1 \in Nat
      BY <1>1, <1>3
    <2>2. (q + 1) * c <= p * c
      BY <1>1, <2>1, TimesMonotone
    <2>3. (q + 1) * c = q * c + 1 * c
      BY <1>1, Distribute
    <2>4. q * c = c * q /\ p * c = c * p /\ q * c \in Nat /\ p * c \in Nat
      BY <1>1, Associate, TimesMonotone
    <2>5. 1 * c = c
      BY <1>1
    <2> HIDE DEF p, q
    <2> QED
      BY <1>1, <1>2, <2>2, <2>3, <2>4, <2>5
  <1> QED
    BY <1>1, <1>3 DEF p, q

\* The printer's labels of successive entries are in the order of an array's indices:
\* the first index in which two of them differ grows.
THEOREM LabelsInOrder ==
  ASSUME NEW sizes \in Seq(Nat \ {0}), NEW x \in 0 .. NumCells(sizes) - 1,
         NEW y \in 0 .. NumCells(sizes) - 1, x < y
  PROVE  \E d \in 1 .. Len(sizes) :
           /\ dim_indices(x, sizes)[d] < dim_indices(y, sizes)[d]
           /\ \A e \in 1 .. d - 1 : dim_indices(x, sizes)[e] = dim_indices(y, sizes)[e]
  <1> DEFINE n == Len(sizes)
             W(d) == Weight(sizes, d)
             a == dim_indices(x, sizes)
             b == dim_indices(y, sizes)
             D == {d \in 1 .. n : a[d] # b[d]}
  <1>1. n \in Nat /\ DOMAIN sizes = 1 .. n
    OBVIOUS
  <1>2. /\ \A d \in 0 .. n : W(d) \in Nat \ {0}
        /\ W(0) = NumCells(sizes)
        /\ \A d \in 1 .. n : W(d - 1) = sizes[d] * W(d) /\ sizes[d] \in Nat \ {0}
    BY <1>1, Weights, ElementType
  <1>3. /\ a = [d \in 1 .. n |-> (x \div W(d)) % sizes[d]]
        /\ b = [d \in 1 .. n |-> (y \div W(d)) % sizes[d]]
    BY <1>1 DEF dim_indices, Weight
  <1>4. /\ IsIndex(a, sizes) /\ Offset(sizes, a) = x
        /\ IsIndex(b, sizes) /\ Offset(sizes, b) = y
    BY OffsetOfLabel
  <1>5. a # b
    BY <1>4
  <1> HIDE DEF n, W, a, b
  <1>6. D # {}
    BY <1>3, <1>5
  <1>7. PICK d \in D : \A e \in D : d <= e
    <2>1. D \in SUBSET Nat
      BY <1>1
    <2> HIDE DEF D
    <2> QED
      BY <1>6, <2>1, LeastNumber
  <1>8. d \in 1 .. n /\ a[d] # b[d] /\ \A e \in 1 .. d - 1 : a[e] = b[e]
    BY <1>1, <1>7
  <1> HIDE DEF D
  <1>9. x \in Nat /\ y \in Nat /\ x < W(0) /\ y < W(0)
    <2>1. W(0) \in Nat
      BY <1>1, <1>2
    <2> QED
      BY <1>2, <2>1
  \* What is left of an entry's position after the d-th index, and before it.
  <1>10. ASSUME NEW k \in 1 .. n
         PROVE  /\ x \div W(k) = sizes[k] * (x \div W(k - 1)) + a[k]
                /\ y \div W(k) = sizes[k] * (y \div W(k - 1)) + b[k]
                /\ a[k] \in Nat /\ b[k] \in Nat
    <2> DEFINE w == W(k)
               s == sizes[k]
               v == W(k - 1)
    <2>1. k \in 0 .. n
      BY <1>1
    <2>2. w \in Nat \ {0} /\ s \in Nat \ {0} /\ v = s * w
      BY <1>2, <2>1
    <2>3. a[k] = (x \div w) % s /\ b[k] = (y \div w) % s
      BY <1>3
    <2> HIDE DEF w, s, v
    <2>4. x \div w \in Nat /\ y \div w \in Nat
      BY <1>9, <2>2, DivType
    <2>5. (x \div w) \div s = x \div v /\ (y \div w) \div s = y \div v
      BY <1>9, <2>2, DivDiv
    <2>6. x \div w = s * ((x \div w) \div s) + ((x \div w) % s) /\ (x \div w) % s \in 0 .. s - 1
      BY <2>2, <2>4, DivMod
    <2>7. y \div w = s * ((y \div w) \div s) + ((y \div w) % s) /\ (y \div w) % s \in 0 .. s - 1
      BY <2>2, <2>4, DivMod
    <2>8. a[k] \in Nat /\ b[k] \in Nat
      BY <2>2, <2>3, <2>6, <2>7
    <2>9. x \div w = s * (x \div v) + a[k] /\ y \div w = s * (y \div v) + b[k]
      BY <2>3, <2>5, <2>6, <2>7
    <2> QED
      BY <2>8, <2>9 DEF w, s, v
  <1> DEFINE K == {k \in Nat : k < d => x \div W(k) = y \div W(k)}
  <1>11. 0 \in K
    <2>1. W(0) \in Nat \ {0}
      BY <1>1, <1>2
    <2> QED
      BY <1>9, <2>1, DivSmall
  <1>12. ASSUME NEW k \in Nat, k \in K
         PROVE  k + 1 \in K
    <2> SUFFICES ASSUME k + 1 < d PROVE x \div W(k + 1) = y \div W(k + 1)
      OBVIOUS
    <2> DEFINE m == k + 1
    <2>1. m \in 1 .. n /\ m - 1 = k /\ m \in 1 .. d - 1 /\ k < d
      BY <1>1, <1>8
    <2> HIDE DEF m
    <2>2. x \div W(k) = y \div W(k)
      BY <1>12, <2>1
    <2>3. a[m] = b[m]
      BY <1>8, <2>1
    <2>4. /\ x \div W(m) = sizes[m] * (x \div W(m - 1)) + a[m]
          /\ y \div W(m) = sizes[m] * (y \div W(m - 1)) + b[m]
      BY <1>10, <2>1
    <2>5. x \div W(m) = y \div W(m)
      BY <2>1, <2>2, <2>3, <2>4
    <2> QED
      BY <2>5 DEF m
  <1> HIDE DEF K
  <1>13. Nat \subseteq K
    BY <1>11, <1>12, NatSetInduction
  <1>14. x \div W(d - 1) = y \div W(d - 1)
    <2>1. d - 1 \in Nat /\ d - 1 < d
      BY <1>1, <1>8
    <2>2. d - 1 \in K
      BY <1>13, <2>1
    <2> QED
      BY <2>1, <2>2 DEF K
  <1>15. x \div W(d) <= y \div W(d)
    <2> DEFINE w == W(d)
    <2>1. w \in Nat \ {0} /\ x <= y
      BY <1>1, <1>2, <1>8, <1>9
    <2> HIDE DEF w
    <2>2. x \div w <= y \div w
      BY <1>9, <2>1, DivMonotone
    <2> QED
      BY <2>2 DEF w
  <1>16. a[d] < b[d]
    <2> DEFINE c == sizes[d] * (x \div W(d - 1))
               p == x \div W(d)
               q == y \div W(d)
    <2>1. p = c + a[d] /\ q = c + b[d] /\ a[d] \in Nat /\ b[d] \in Nat
      BY <1>8, <1>10, <1>14
    <2>2. c \in Int
      <3>1. d - 1 \in 0 .. n
        BY <1>1, <1>8
      <3>2. W(d - 1) \in Nat \ {0} /\ sizes[d] \in Nat
        BY <1>2, <1>8, <3>1
      <3>3. x \div W(d - 1) \in Nat
        BY <1>9, <3>2, DivType
      <3> QED
        BY <3>2, <3>3, TimesMonotone
    <2>3. p <= q
      BY <1>15
    <2> HIDE DEF c, p, q
    <2> QED
      BY <1>8, <2>1, <2>2, <2>3
  <1> QED
    BY <1>8, <1>16 DEF n, a, b

LEMMA IndicesAre ==
  ASSUME NEW t \in StatLeaves
  PROVE  \A idx : idx \in Indices(t) <=> IsIndex(idx, dims[t])
  <1> DEFINE n == Len(dims[t])
  <1>1. dims[t] \in Seq(Nat \ {0}) /\ n \in Nat /\ DOMAIN dims[t] = 1 .. n
        /\ NumCells(dims[t]) \in Nat
    BY SizeOfLeaf
  <1>2. \A d \in 1 .. n : dims[t][d] <= NumCells(dims[t]) /\ dims[t][d] \in Nat
    BY <1>1, SizesFit, ElementType
  <1>3. ASSUME NEW idx, IsIndex(idx, dims[t])
        PROVE  idx \in Indices(t)
    <2>1. idx \in [1 .. n -> Nat] /\ \A d \in 1 .. n : idx[d] < dims[t][d] /\ idx[d] \in Nat
      BY <1>3 DEF IsIndex
    <2>2. \A d \in 1 .. n : idx[d] \in 0 .. NumCells(dims[t])
      BY <1>1, <1>2, <2>1
    <2>3. idx \in [1 .. n -> 0 .. NumCells(dims[t])]
      BY <2>1, <2>2
    <2> QED
      BY <1>1, <2>1, <2>3 DEF Indices
  <1>4. ASSUME NEW idx, idx \in Indices(t)
        PROVE  IsIndex(idx, dims[t])
    <2>1. idx \in [1 .. n -> 0 .. NumCells(dims[t])] /\ \A d \in 1 .. n : idx[d] < dims[t][d]
      BY <1>1, <1>4 DEF Indices
    <2>2. \A d \in 1 .. n : idx[d] \in Nat
      BY <2>1
    <2>3. idx \in [1 .. n -> Nat]
      BY <2>1, <2>2
    <2> QED
      BY <2>1, <2>3 DEF IsIndex
  <1> QED
    BY <1>3, <1>4

\* The index of a cell of a statistic.
IndexOfCell(t, cell) == dim_indices(cell - shared_ptr(t), dims[t])

\* A statistic's indices and its cells correspond.
THEOREM WriteCellOfIndex ==
  ASSUME NEW t \in StatLeaves
  PROVE  /\ \A idx \in Indices(t) :
              WriteCell(t, idx) \in StatCells(t) /\ IndexOfCell(t, WriteCell(t, idx)) = idx
         /\ \A cell \in StatCells(t) :
              IndexOfCell(t, cell) \in Indices(t) /\ WriteCell(t, IndexOfCell(t, cell)) = cell
  <1> DEFINE sizes == dims[t]
             start == shared_ptr(t)
  <1>1. sizes \in Seq(Nat \ {0}) /\ NumCells(sizes) \in Nat /\ start \in Nat
    BY SizeOfLeaf, CellsOfTags
  <1>2. \A idx : WriteCell(t, idx) = start + Offset(sizes, idx)
    BY DEF WriteCell, Offset
  <1>3. StatCells(t) = start .. start + NumCells(sizes) - 1
    BY DEF StatCells
  <1>4. \A cell : IndexOfCell(t, cell) = dim_indices(cell - start, sizes)
    BY DEF IndexOfCell
  <1>5. \A idx : idx \in Indices(t) <=> IsIndex(idx, sizes)
    BY IndicesAre
  <1> HIDE DEF sizes, start
  <1>6. ASSUME NEW idx \in Indices(t)
        PROVE  WriteCell(t, idx) \in StatCells(t) /\ IndexOfCell(t, WriteCell(t, idx)) = idx
    <2> DEFINE x == Offset(sizes, idx)
    <2>1. x \in 0 .. NumCells(sizes) - 1 /\ dim_indices(x, sizes) = idx
      BY <1>1, <1>5, LabelOfOffset
    <2> HIDE DEF x
    <2>2. start + x \in StatCells(t) /\ (start + x) - start = x
      BY <1>1, <1>3, <2>1
    <2> QED
      BY <1>2, <1>4, <2>1, <2>2 DEF x
  <1>7. ASSUME NEW cell \in StatCells(t)
        PROVE  IndexOfCell(t, cell) \in Indices(t) /\ WriteCell(t, IndexOfCell(t, cell)) = cell
    <2> DEFINE x == cell - start
    <2>1. x \in 0 .. NumCells(sizes) - 1 /\ start + x = cell
      BY <1>1, <1>3
    <2>2. IndexOfCell(t, cell) = dim_indices(x, sizes)
      BY <1>4
    <2> HIDE DEF x
    <2>3. /\ IsIndex(dim_indices(x, sizes), sizes)
          /\ Offset(sizes, dim_indices(x, sizes)) = x
      BY <1>1, <2>1, OffsetOfLabel
    <2> QED
      BY <1>2, <1>5, <2>1, <2>2, <2>3
  <1> QED
    BY <1>6, <1>7

\* Different numbers lie in different cells.
THEOREM WriteCellsApart ==
  ASSUME NEW t \in StatLeaves, NEW u \in StatLeaves,
         NEW idx \in Indices(t), NEW jdx \in Indices(u), WriteCell(t, idx) = WriteCell(u, jdx)
  PROVE  t = u /\ idx = jdx
  <1>1. WriteCell(t, idx) \in StatCells(t) /\ WriteCell(u, jdx) \in StatCells(u)
    BY WriteCellOfIndex
  <1>2. t = u
    BY <1>1, CellsApart
  <1> QED
    BY <1>2, WriteCellOfIndex

\* Numbers one after the other.
Run(first, n) == [i \in 1 .. n |-> first + i - 1]

LEMMA RunType ==
  ASSUME NEW first \in Nat, NEW n \in Nat
  PROVE  Run(first, n) \in Seq(Nat) /\ Len(Run(first, n)) = n
  <1> DEFINE r == Run(first, n)
  <1>1. r = [i \in 1 .. n |-> r[i]] /\ \A i \in 1 .. n : r[i] \in Nat
    BY DEF Run
  <1> HIDE DEF r
  <1>2. r \in Seq(Nat) /\ Len(r) = n
    BY <1>1, FunctionIsSequence
  <1> QED
    BY <1>2 DEF r

LEMMA ConcatRuns ==
  ASSUME NEW first \in Nat, NEW m \in Nat, NEW n \in Nat
  PROVE  Run(first, m) \o Run(first + m, n) = Run(first, m + n)
  <1> DEFINE r == Run(first, m)
             s == Run(first + m, n)
             q == Run(first, m + n)
  <1>1. /\ r \in Seq(Nat) /\ Len(r) = m /\ s \in Seq(Nat) /\ Len(s) = n
        /\ q \in Seq(Nat) /\ Len(q) = m + n
    <2>1. first + m \in Nat /\ m + n \in Nat
      OBVIOUS
    <2> HIDE DEF r, s, q
    <2> QED
      BY <2>1, RunType DEF r, s, q
  <1>2. /\ \A i \in 1 .. m : r[i] = first + i - 1
        /\ \A i \in 1 .. n : s[i] = first + m + i - 1
        /\ \A i \in 1 .. m + n : q[i] = first + i - 1
    BY DEF Run
  <1> HIDE DEF r, s, q
  <1> DEFINE c == r \o s
  <1>3. c \in Seq(Nat) /\ Len(c) = m + n
    <2>1. c \in Seq(Nat) /\ Len(c) = Len(r) + Len(s)
      BY <1>1, ConcatElements
    <2> QED
      BY <1>1, <2>1
  <1>4. ASSUME NEW i \in 1 .. m + n
        PROVE  (r \o s)[i] = q[i]
    <2>1. CASE i \in 1 .. m
      <3>1. i \in 1 .. Len(r)
        BY <1>1, <2>1
      <3>2. (r \o s)[i] = r[i]
        BY <1>1, <3>1, ConcatElements
      <3> QED
        BY <1>2, <2>1, <3>2
    <2>2. CASE i - m \in 1 .. n /\ i \notin 1 .. m
      <3>1. i \in Len(r) + 1 .. Len(r) + Len(s) /\ i - Len(r) = i - m
        BY <1>1, <2>2
      <3>2. (r \o s)[i] = s[i - m]
        BY <1>1, <3>1, ConcatElements
      <3> QED
        BY <1>2, <2>2, <3>2
    <2>3. i \in 1 .. m \/ (i - m \in 1 .. n /\ i \notin 1 .. m)
      OBVIOUS
    <2> QED
      BY <2>1, <2>2, <2>3
  <1> HIDE DEF c
  <1>5. c = q
    BY <1>1, <1>3, <1>4, SameSequence DEF c
  <1> QED
    BY <1>5 DEF c, r, s, q

LEMMA FlattenRuns ==
  ASSUME NEW first \in Nat, NEW m \in Nat, NEW w \in Nat, NEW ss,
         ss = [i \in 1 .. m |-> Run(first + (i - 1) * w, w)]
  PROVE  FlattenSeq(ss) = Run(first, m * w)
  <1>1. \A i \in 1 .. m : ss[i] = Run(first + (i - 1) * w, w) /\ (i - 1) * w \in Nat
    <2>1. ASSUME NEW i \in 1 .. m
          PROVE  (i - 1) * w \in Nat
      <3>1. i - 1 \in Nat
        OBVIOUS
      <3> QED
        BY <3>1, TimesMonotone
    <2> QED
      BY <2>1
  <1>2. ss \in Seq(Seq(Nat)) /\ Len(ss) = m
    <2>1. \A i \in 1 .. m : ss[i] \in Seq(Nat)
      <3>1. ASSUME NEW i \in 1 .. m
            PROVE  ss[i] \in Seq(Nat)
        <4> DEFINE p == first + (i - 1) * w
        <4>1. p \in Nat /\ ss[i] = Run(p, w)
          BY <1>1
        <4> HIDE DEF p
        <4> QED
          BY <4>1, RunType
      <3> QED
        BY <3>1
    <2>2. ss = [i \in 1 .. m |-> ss[i]]
      OBVIOUS
    <2> QED
      BY <2>1, <2>2, FunctionIsSequence
  <1>3. PICK f \in [0 .. m -> Seq(Nat)] : FlattenRecurrence(f, ss) /\ FlattenSeq(ss) = f[m]
    BY <1>2, FlattenRecursion
  <1> DEFINE K == {k \in Nat : k <= m => f[k] = Run(first, k * w)}
  <1>4. 0 \in K
    <2>1. Run(first, 0) = <<>>
      BY DEF Run
    <2>2. 0 * w = 0 /\ f[0] = <<>>
      BY <1>3 DEF FlattenRecurrence
    <2> QED
      BY <2>1, <2>2
  <1>5. ASSUME NEW k \in Nat, k \in K
        PROVE  k + 1 \in K
    <2> SUFFICES ASSUME k + 1 <= m PROVE f[k + 1] = Run(first, (k + 1) * w)
      OBVIOUS
    <2> DEFINE j == k + 1
               x == k * w
               y == (k + 1) * w
    <2>1. j \in 1 .. m /\ j - 1 = k /\ k <= m
      OBVIOUS
    <2>2. x \in Nat /\ y = x + w
      <3>1. (k + 1) * w = k * w + 1 * w /\ 1 * w = w
        BY Distribute
      <3>2. k * w \in Nat
        BY TimesMonotone
      <3> QED
        BY <3>1, <3>2
    <2>3. f[k + 1] = f[k] \o ss[k + 1]
      BY <1>2, <1>3 DEF FlattenRecurrence
    <2>4. f[k] = Run(first, x)
      BY <1>5, <2>1
    <2>5. ss[k + 1] = Run(first + x, w)
      <3> HIDE DEF j
      <3>1. ss[j] = Run(first + (j - 1) * w, w)
        BY <1>1, <2>1
      <3> QED
        BY <2>1, <3>1 DEF j
    <2> HIDE DEF x, y
    <2>6. Run(first, x) \o Run(first + x, w) = Run(first, x + w)
      BY <2>2, ConcatRuns
    <2>7. f[k + 1] = Run(first, y)
      BY <2>2, <2>3, <2>4, <2>5, <2>6
    <2> QED
      BY <2>7 DEF y
  <1> HIDE DEF K
  <1>6. Nat \subseteq K
    BY <1>4, <1>5, NatSetInduction
  <1>7. m \in K /\ m <= m
    BY <1>6
  <1>8. f[m] = Run(first, m * w)
    BY <1>7 DEF K
  <1> QED
    BY <1>3, <1>8

\* What a command has visited and noted, once it is through with the d-th arrays
\* from ptr on.
Visited(sizes, d, ptr, dimensionSizes) ==
  [cells |-> Run(ptr, Weight(sizes, d - 1)),
   dimensionSizes |-> dimensionSizes \o SubSeq(sizes, d, Len(sizes))]

\* doStatCommand of the d-th array, with walk for what its elements do.
WalkStep(sizes, walk, d, ptr, dimensionSizes) ==
  IF d = Len(sizes) + 1
  THEN [cells |-> <<ptr>>, dimensionSizes |-> dimensionSizes]
  ELSE LET element(i) ==
             walk[d + 1][ptr + i * Weight(sizes, d)]
                 [IF i = 0 THEN Append(dimensionSizes, sizes[d]) ELSE <<>>]
       IN [cells |-> FlattenSeq([i \in 1 .. sizes[d] |-> element(i - 1).cells]),
           dimensionSizes |-> element(0).dimensionSizes]

LEMMA SizesNoted ==
  ASSUME NEW sizes \in Seq(Nat), NEW s \in Seq(Nat)
  PROVE  /\ s \o SubSeq(sizes, Len(sizes) + 1, Len(sizes)) = s
         /\ \A d \in 1 .. Len(sizes) :
              /\ Append(s, sizes[d]) \in Seq(Nat)
              /\ Append(s, sizes[d]) \o SubSeq(sizes, d + 1, Len(sizes))
                   = s \o SubSeq(sizes, d, Len(sizes))
         /\ SubSeq(sizes, 1, Len(sizes)) = sizes
  <1> DEFINE n == Len(sizes)
             m == Len(s)
  <1>1. n \in Nat /\ m \in Nat
    OBVIOUS
  <1>2. s \o SubSeq(sizes, n + 1, n) = s /\ SubSeq(sizes, 1, n) = sizes
    <2>1. SubSeq(sizes, n + 1, n) = <<>>
      OBVIOUS
    <2> QED
      BY <2>1
  <1>3. ASSUME NEW d \in 1 .. n
        PROVE  /\ Append(s, sizes[d]) \in Seq(Nat)
               /\ Append(s, sizes[d]) \o SubSeq(sizes, d + 1, n) = s \o SubSeq(sizes, d, n)
    <2> DEFINE a == Append(s, sizes[d])
               b == SubSeq(sizes, d + 1, n)
               c == SubSeq(sizes, d, n)
    <2>1. a \in Seq(Nat) /\ Len(a) = m + 1 /\ a[m + 1] = sizes[d] /\ \A i \in 1 .. m : a[i] = s[i]
      OBVIOUS
    <2>2. b \in Seq(Nat) /\ Len(b) = n - d /\ \A i \in 1 .. n - d : b[i] = sizes[d + i]
      OBVIOUS
    <2>3. c \in Seq(Nat) /\ Len(c) = n - d + 1
          /\ \A i \in 1 .. n - d + 1 : c[i] = sizes[d + i - 1]
      OBVIOUS
    <2> HIDE DEF a, b, c, m, n
    <2> DEFINE l == a \o b
               r == s \o c
    <2>4. /\ l \in Seq(Nat) /\ Len(l) = m + 1 + (n - d)
          /\ r \in Seq(Nat) /\ Len(r) = m + (n - d + 1)
      <3>1. a \o b \in Seq(Nat) /\ Len(a \o b) = Len(a) + Len(b)
        BY <2>1, <2>2, ConcatElements
      <3>2. s \o c \in Seq(Nat) /\ Len(s \o c) = Len(s) + Len(c)
        BY <2>3, ConcatElements
      <3> QED
        BY <2>1, <2>2, <2>3, <3>1, <3>2 DEF m
    <2>5. ASSUME NEW i \in 1 .. m + 1 + (n - d)
          PROVE  l[i] = r[i]
      <3>0. n - d \in Nat
        BY <1>1
      <3>1. CASE i \in 1 .. m
        BY <1>1, <2>1, <2>2, <2>3, <3>0, <3>1 DEF m
      <3>2. CASE i = m + 1
        <4>1. l[i] = a[m + 1]
          BY <1>1, <2>1, <2>2, <3>0, <3>2
        <4>2. r[i] = c[1]
          BY <1>1, <2>3, <3>0, <3>2 DEF m
        <4>3. c[1] = sizes[d]
          BY <1>1, <2>3, <3>0
        <4> QED
          BY <2>1, <4>1, <4>2, <4>3
      <3>3. CASE i > m + 1
        <4> DEFINE j == i - (m + 1)
        <4>1. j \in 1 .. n - d /\ j + 1 \in 1 .. n - d + 1 /\ i = m + 1 + j
          BY <1>1, <3>3
        <4>2. l[i] = b[j]
          <5> HIDE DEF j
          <5>1. i \in Len(a) + 1 .. Len(a) + Len(b) /\ i - Len(a) = j
            BY <1>1, <2>1, <2>2, <3>0, <4>1
          <5>3. a \in Seq(Nat) /\ b \in Seq(Nat)
            BY <2>1, <2>2
          <5>2. \A x \in Len(a) + 1 .. Len(a) + Len(b) : (a \o b)[x] = b[x - Len(a)]
            BY <5>3, ConcatElements
          <5> QED
            BY <5>1, <5>2
        <4>3. r[i] = c[j + 1]
          BY <1>1, <2>3, <3>0, <4>1 DEF m
        <4> HIDE DEF j
        <4>4. b[j] = sizes[d + j]
          BY <2>2, <4>1
        <4>5. c[j + 1] = sizes[d + j]
          <5>1. c[j + 1] = sizes[d + (j + 1) - 1] /\ d + (j + 1) - 1 = d + j
            BY <1>1, <2>3, <4>1
          <5> QED
            BY <5>1
        <4> QED
          BY <4>2, <4>3, <4>4, <4>5
      <3> HIDE DEF l, r
      <3> QED
        BY <1>1, <3>0, <3>1, <3>2, <3>3
    <2> HIDE DEF l, r
    <2>6. l = r
      BY <1>1, <2>4, <2>5, SameSequence, SMTT(30)
    <2> QED
      BY <2>1, <2>6 DEF l, r, a, b, c
  <1> QED
    BY <1>2, <1>3 DEF n

LEMMA WalkStepVisits ==
  ASSUME NEW sizes \in Seq(Nat \ {0}), NEW walk, NEW d \in 1 .. Len(sizes) + 1,
         NEW ptr \in Nat, NEW dimensionSizes \in Seq(Nat),
         d # Len(sizes) + 1 =>
           \A p \in Nat, s \in Seq(Nat) : walk[d + 1][p][s] = Visited(sizes, d + 1, p, s)
  PROVE  WalkStep(sizes, walk, d, ptr, dimensionSizes) = Visited(sizes, d, ptr, dimensionSizes)
  <1> DEFINE n == Len(sizes)
             s == dimensionSizes
  <1>1. n \in Nat /\ sizes \in Seq(Nat) /\ d \in 1 .. n + 1
    BY ElementType
  <1> HIDE DEF n, s
  <1>2. CASE d = n + 1
    <2>1. Weight(sizes, d - 1) = 1
      <3>1. d - 1 = n
        BY <1>1, <1>2
      <3>2. Weight(sizes, n) = 1
        BY Weights DEF n
      <3> QED
        BY <3>1, <3>2
    <2>2. Run(ptr, 1) = <<ptr>>
      BY DEF Run
    <2>3. s \o SubSeq(sizes, d, n) = s
      BY <1>1, <1>2, SizesNoted DEF n, s
    <2>4. WalkStep(sizes, walk, d, ptr, s) = [cells |-> <<ptr>>, dimensionSizes |-> s]
      BY <1>2 DEF WalkStep, n
    <2> QED
      BY <2>1, <2>2, <2>3, <2>4 DEF Visited, n, s
  <1>3. CASE d # n + 1
    <2> DEFINE w == Weight(sizes, d)
               m == sizes[d]
    <2>1. d \in 1 .. n /\ w \in Nat \ {0} /\ m \in Nat \ {0} /\ Weight(sizes, d - 1) = m * w
      <3>1. d \in 1 .. n
        BY <1>1, <1>3
      <3>2. d \in 0 .. n
        BY <3>1
      <3>3. Weight(sizes, d) \in Nat \ {0} /\ Weight(sizes, d - 1) = sizes[d] * Weight(sizes, d)
        BY <3>1, <3>2, Weights DEF n
      <3> QED
        BY <3>1, <3>3, ElementType DEF n
    <2> DEFINE noted(i) == IF i = 0 THEN Append(s, m) ELSE <<>>
               element(i) == walk[d + 1][ptr + i * w][noted(i)]
    <2>2. WalkStep(sizes, walk, d, ptr, s)
            = [cells |-> FlattenSeq([i \in 1 .. m |-> element(i - 1).cells]),
               dimensionSizes |-> element(0).dimensionSizes]
      BY <1>3 DEF WalkStep, n
    <2> HIDE DEF w, m
    <2>3. ASSUME NEW i \in Nat
          PROVE  /\ element(i).cells = Run(ptr + i * w, w)
                 /\ element(i).dimensionSizes = noted(i) \o SubSeq(sizes, d + 1, n)
      <3> DEFINE p == ptr + i * w
                 q == noted(i)
                 e == d + 1
      <3>1. p \in Nat
        <4>1. i * w \in Nat
          BY <2>1, TimesMonotone
        <4> QED
          BY <4>1
      <3>2. q \in Seq(Nat)
        <4>1. Append(s, m) \in Seq(Nat) /\ <<>> \in Seq(Nat)
          BY <1>1, <2>1, SizesNoted DEF m, n, s
        <4> QED
          BY <4>1
      <3>3. e - 1 = d
        BY <2>1
      <3> HIDE DEF p, q
      <3>4. walk[e][p][q] = Visited(sizes, e, p, q)
        BY <1>3, <3>1, <3>2 DEF n
      <3> HIDE DEF e
      <3>5. /\ Visited(sizes, e, p, q).cells = Run(p, Weight(sizes, e - 1))
            /\ Visited(sizes, e, p, q).dimensionSizes = q \o SubSeq(sizes, e, n)
        BY DEF Visited, n
      <3>6. walk[e][p][q].cells = Run(p, w) /\ walk[e][p][q].dimensionSizes = q \o SubSeq(sizes, e, n)
        BY <3>3, <3>4, <3>5 DEF w
      <3> QED
        BY <3>6 DEF p, q, e
    <2>4. element(0).dimensionSizes = s \o SubSeq(sizes, d, n)
      <3>1. element(0).dimensionSizes = Append(s, m) \o SubSeq(sizes, d + 1, n)
        BY <2>3
      <3>2. Append(s, m) \o SubSeq(sizes, d + 1, n) = s \o SubSeq(sizes, d, n)
        BY <1>1, <2>1, SizesNoted, ZenonT(40) DEF m, n, s
      <3> QED
        BY <3>1, <3>2
    <2> HIDE DEF element
    <2>5. FlattenSeq([i \in 1 .. m |-> element(i - 1).cells]) = Run(ptr, m * w)
      <3> DEFINE ss == [i \in 1 .. m |-> element(i - 1).cells]
      <3>1. ss = [i \in 1 .. m |-> Run(ptr + (i - 1) * w, w)]
        <4>1. ASSUME NEW i \in 1 .. m
              PROVE  element(i - 1).cells = Run(ptr + (i - 1) * w, w)
          <5>1. i - 1 \in Nat
            BY <2>1
          <5> QED
            BY <2>3, <5>1
        <4> QED
          BY <4>1
      <3> HIDE DEF ss
      <3>2. FlattenSeq(ss) = Run(ptr, m * w)
        BY <2>1, <3>1, FlattenRuns
      <3> QED
        BY <3>2 DEF ss
    <2> QED
      BY <2>1, <2>2, <2>4, <2>5 DEF Visited, n, s
  <1> QED
    BY <1>2, <1>3 DEF s

\* A command walks through a statistic's cells from the first to the last, and notes
\* the sizes of its arrays.
THEOREM StatCommandWalks ==
  ASSUME NEW t \in StatLeaves
  PROVE  /\ StatCommand(t).cells = Run(shared_ptr(t), NumCells(dims[t]))
         /\ StatCommand(t).dimensionSizes = dims[t]
  <1> DEFINE sizes == dims[t]
             n == Len(sizes)
             walk[d \in 1 .. n + 1] ==
               [ptr \in Nat |-> [dimensionSizes \in Seq(Nat) |->
                 IF d = n + 1
                 THEN [cells |-> <<ptr>>, dimensionSizes |-> dimensionSizes]
                 ELSE LET element(i) ==
                            walk[d + 1][ptr + i * NumCells(SubSeq(sizes, d + 1, n))]
                                [IF i = 0 THEN Append(dimensionSizes, sizes[d]) ELSE <<>>]
                      IN [cells |-> FlattenSeq([i \in 1 .. sizes[d] |-> element(i - 1).cells]),
                          dimensionSizes |-> element(0).dimensionSizes]]]
             fixed(g) == g = [d \in 1 .. n + 1 |->
               [ptr \in Nat |-> [dimensionSizes \in Seq(Nat) |->
                 WalkStep(sizes, g, d, ptr, dimensionSizes)]]]
             g0 == [d \in 1 .. n + 1 |->
               [ptr \in Nat |-> [dimensionSizes \in Seq(Nat) |->
                 Visited(sizes, d, ptr, dimensionSizes)]]]
  <1>1. StatCommand(t) = walk[1][shared_ptr(t)][<<>>]
    BY DEF StatCommand
  <1>2. sizes \in Seq(Nat \ {0}) /\ n \in Nat /\ shared_ptr(t) \in Nat
    BY SizeOfLeaf, CellsOfTags
  <1>3. walk = CHOOSE g : fixed(g)
    BY DEF WalkStep, Weight
  <1> HIDE DEF walk, sizes, n
  <1>4. fixed(g0)
    <2>1. ASSUME NEW d \in 1 .. n + 1, NEW ptr \in Nat, NEW s \in Seq(Nat)
          PROVE  Visited(sizes, d, ptr, s) = WalkStep(sizes, g0, d, ptr, s)
      <3>1. d # n + 1 => d + 1 \in 1 .. n + 1
        BY <1>2
      <3>2. d # n + 1 => \A p \in Nat, q \in Seq(Nat) : g0[d + 1][p][q] = Visited(sizes, d + 1, p, q)
        BY <3>1
      <3> HIDE DEF g0
      <3> QED
        BY <1>2, <3>2, WalkStepVisits DEF n
    <2> DEFINE a(d, ptr, s) == Visited(sizes, d, ptr, s)
               b(d, ptr, s) == WalkStep(sizes, g0, d, ptr, s)
    <2>2. \A d \in 1 .. n + 1 : \A ptr \in Nat : \A s \in Seq(Nat) : a(d, ptr, s) = b(d, ptr, s)
      BY <2>1
    <2>3. g0 = [d \in 1 .. n + 1 |-> [ptr \in Nat |-> [s \in Seq(Nat) |-> a(d, ptr, s)]]]
      OBVIOUS
    <2> HIDE DEF a, b, g0
    <2>4. g0 = [d \in 1 .. n + 1 |-> [ptr \in Nat |-> [s \in Seq(Nat) |-> b(d, ptr, s)]]]
      BY <2>2, <2>3
    <2> QED
      BY <2>4 DEF b
  <1> HIDE DEF fixed
  <1>5. fixed(walk)
    BY <1>3, <1>4
  <1>6. \A d \in 1 .. n + 1, ptr \in Nat, s \in Seq(Nat) :
           walk[d][ptr][s] = WalkStep(sizes, walk, d, ptr, s)
    <2> SUFFICES ASSUME NEW d \in 1 .. n + 1, NEW ptr \in Nat, NEW s \in Seq(Nat)
                 PROVE  walk[d][ptr][s] = WalkStep(sizes, walk, d, ptr, s)
      OBVIOUS
    <2> DEFINE f(e, p) == [q \in Seq(Nat) |-> WalkStep(sizes, walk, e, p, q)]
               h(e) == [p \in Nat |-> f(e, p)]
    <2>1. walk = [e \in 1 .. n + 1 |-> h(e)]
      BY <1>5 DEF fixed
    <2>2. h(d)[ptr] = f(d, ptr)
      OBVIOUS
    <2>3. f(d, ptr)[s] = WalkStep(sizes, walk, d, ptr, s)
      OBVIOUS
    <2> HIDE DEF h, f
    <2>4. walk[d] = h(d)
      BY <2>1
    <2> QED
      BY <2>2, <2>3, <2>4
  <1> DEFINE K == {k \in Nat : k <= n =>
                     \A ptr \in Nat, s \in Seq(Nat) :
                       walk[n + 1 - k][ptr][s] = Visited(sizes, n + 1 - k, ptr, s)}
  <1>7. 0 \in K
    <2>1. ASSUME NEW d, d = n + 1, NEW ptr \in Nat, NEW s \in Seq(Nat)
          PROVE  walk[d][ptr][s] = Visited(sizes, d, ptr, s)
      <3>1. d \in 1 .. n + 1
        BY <1>2, <2>1
      <3> QED
        BY <1>2, <1>6, <2>1, <3>1, WalkStepVisits, SMTT(30) DEF n
    <2>2. n + 1 - 0 = n + 1
      BY <1>2
    <2> QED
      BY <2>1, <2>2
  <1>8. ASSUME NEW k \in Nat, k \in K
        PROVE  k + 1 \in K
    <2> SUFFICES ASSUME k + 1 <= n, NEW ptr \in Nat, NEW s \in Seq(Nat)
                 PROVE  walk[n + 1 - (k + 1)][ptr][s] = Visited(sizes, n + 1 - (k + 1), ptr, s)
      OBVIOUS
    <2> DEFINE d == n - k
    <2>1. n + 1 - (k + 1) = d /\ d \in 1 .. n + 1 /\ d # n + 1 /\ d + 1 = n + 1 - k /\ k <= n
      BY <1>2
    <2> HIDE DEF d
    <2>2. \A p \in Nat, q \in Seq(Nat) : walk[d + 1][p][q] = Visited(sizes, d + 1, p, q)
      BY <1>8, <2>1
    <2>3. WalkStep(sizes, walk, d, ptr, s) = Visited(sizes, d, ptr, s)
      BY <1>2, <2>1, <2>2, WalkStepVisits, ZenonT(40) DEF n
    <2> QED
      BY <1>6, <2>1, <2>3
  <1> HIDE DEF K
  <1>9. Nat \subseteq K
    BY <1>7, <1>8, NatSetInduction
  <1>10. n \in K /\ n + 1 - n = 1 /\ n <= n /\ <<>> \in Seq(Nat)
    BY <1>2, <1>9
  <1>11. walk[1][shared_ptr(t)][<<>>] = Visited(sizes, 1, shared_ptr(t), <<>>)
    BY <1>2, <1>10 DEF K
  <1>12. Weight(sizes, 1 - 1) = NumCells(sizes)
    BY <1>2, Weights
  <1>13. <<>> \o SubSeq(sizes, 1, n) = sizes
    <2>1. sizes \in Seq(Nat)
      BY <1>2, ElementType
    <2>2. SubSeq(sizes, 1, n) = sizes
      BY <2>1, SizesNoted, <1>10 DEF n
    <2>3. <<>> \o sizes = sizes
      BY <1>2
    <2> QED
      BY <2>2, <2>3
  <1> QED
    BY <1>1, <1>11, <1>12, <1>13 DEF Visited, sizes, n

----------------------------------------------------------------------------
(* Names *)

LEMMA UnderUnder ==
  ASSUME NEW t \in Tags
  PROVE  \A u \in Under(t) : Under(u) \subseteq Under(t)
  <1> DEFINE S == {s \in Tags : \A u \in Under(s) : Under(u) \subseteq Under(s)}
  <1>1. ASSUME NEW s \in Tags, \A i \in DOMAIN children[s] : children[s][i] \in S
        PROVE  s \in S
    <2> SUFFICES ASSUME NEW u \in Under(s), u # s PROVE Under(u) \subseteq Under(s)
      OBVIOUS
    <2>1. PICK i \in DOMAIN children[s] : u \in Under(children[s][i])
      BY UnderUnfolds
    <2>2. Under(u) \subseteq Under(children[s][i])
      BY <1>1, <2>1
    <2> QED
      BY <2>2, UnderUnfolds
  <1> HIDE DEF S
  <1>2. Tags \subseteq S
    BY <1>1, TreeInduction
  <1> QED
    BY <1>2 DEF S

\* The tag of this depth that another is under.
Ancestor(t, d) == CHOOSE u \in Tags : depth[u] = d /\ t \in Under(u)

LEMMA Ancestors ==
  ASSUME NEW t \in Tags
  PROVE  /\ \A d \in 0 .. depth[t] :
              Ancestor(t, d) \in Tags /\ depth[Ancestor(t, d)] = d /\ t \in Under(Ancestor(t, d))
         /\ \A u \in Tags : t \in Under(u) => u = Ancestor(t, depth[u]) /\ depth[u] <= depth[t]
  <1> DEFINE above(s, d) == \E u \in Tags : depth[u] = d /\ s \in Under(u)
             S == {s \in Tags : \A d \in 0 .. depth[s] : above(s, d)}
  <1>1. \A s \in Tags : depth[s] \in Nat /\ s \in Under(s)
    <2>1. ASSUME NEW s \in Tags
          PROVE  depth[s] \in Nat /\ s \in Under(s)
      <3>1. depth[s] \in 0 .. MaxDepth
        BY TreeAssumption
      <3>2. s \in Under(s)
        BY UnderUnfolds
      <3> QED
        BY <3>1, <3>2
    <2> QED
      BY <2>1
  <1>2. StatTagTree \in S /\ LogTagTree \in S
    <2>1. /\ StatTagTree \in Tags /\ LogTagTree \in Tags
          /\ depth[StatTagTree] = 0 /\ depth[LogTagTree] = 0
      BY TreeAssumption
    <2> QED
      BY <1>1, <2>1
  <1>3. ASSUME NEW s \in Tags, s \in S, NEW i \in DOMAIN children[s]
        PROVE  children[s][i] \in S
    <2> DEFINE c == children[s][i]
    <2>1. c \in Tags /\ depth[c] = depth[s] + 1
      BY TreeAssumption
    <2>2. c \in Under(s)
      <3>1. c \in Under(c)
        BY <1>1, <2>1
      <3> QED
        BY <3>1, UnderUnfolds
    <2> HIDE DEF c
    <2> SUFFICES ASSUME NEW d \in 0 .. depth[c] PROVE above(c, d)
      BY <2>1 DEF c
    <2>3. CASE d = depth[c]
      BY <1>1, <2>1, <2>3
    <2>4. CASE d # depth[c]
      <3>1. d \in 0 .. depth[s]
        BY <1>1, <2>1, <2>4
      <3>2. PICK u \in Tags : depth[u] = d /\ s \in Under(u)
        BY <1>3, <3>1
      <3>3. c \in Under(u)
        BY <2>2, <3>2, UnderUnder
      <3> QED
        BY <3>2, <3>3
    <2> QED
      BY <2>3, <2>4
  <1> HIDE DEF S
  <1>4. Tags \subseteq S
    BY <1>2, <1>3, RootInduction
  <1>5. ASSUME NEW d \in 0 .. depth[t]
        PROVE  Ancestor(t, d) \in Tags /\ depth[Ancestor(t, d)] = d /\ t \in Under(Ancestor(t, d))
    <2>1. \E u \in Tags : depth[u] = d /\ t \in Under(u)
      BY <1>4 DEF S
    <2> QED
      BY <2>1 DEF Ancestor
  <1>6. ASSUME NEW u \in Tags, t \in Under(u)
        PROVE  u = Ancestor(t, depth[u]) /\ depth[u] <= depth[t]
    <2>1. depth[u] <= depth[t]
      BY <1>1, <1>6, UnderIsDeeper
    <2>2. depth[u] \in 0 .. depth[t]
      BY <1>1, <2>1
    <2>3. /\ Ancestor(t, depth[u]) \in Tags /\ depth[Ancestor(t, depth[u])] = depth[u]
          /\ t \in Under(Ancestor(t, depth[u]))
      BY <1>5, <2>2
    <2> QED
      BY <1>6, <2>1, <2>3, UnderIsDisjoint
  <1> QED
    BY <1>5, <1>6

\* A full name begins with those of the tags above.
LEMMA FullNames ==
  ASSUME NEW t \in Tags
  PROVE  /\ FullName(t) \in Seq(STRING) /\ Len(FullName(t)) = depth[t] + 1 /\ depth[t] \in Nat
         /\ FullName(t)[depth[t] + 1] = name[t]
         /\ \A v \in Under(t) : v \in Tags /\ depth[t] <= depth[v] /\
              \A d \in 1 .. depth[t] + 1 : FullName(v)[d] = FullName(t)[d]
  <1>1. \A s \in Tags : depth[s] \in Nat
    <2>1. ASSUME NEW s \in Tags
          PROVE  depth[s] \in Nat
      <3>1. depth[s] \in 0 .. MaxDepth
        BY TreeAssumption
      <3> QED
        BY <3>1
    <2> QED
      BY <2>1
  <1>2. \A s \in Tags : FullName(s) = [d \in 1 .. depth[s] + 1 |-> name[Ancestor(s, d - 1)]]
    BY DEF FullName, Ancestor, Under
  <1>3. ASSUME NEW s \in Tags, NEW d \in 1 .. depth[s] + 1
        PROVE  FullName(s)[d] = name[Ancestor(s, d - 1)] /\ d - 1 \in 0 .. depth[s]
    BY <1>1, <1>2
  <1>4. FullName(t) \in Seq(STRING) /\ Len(FullName(t)) = depth[t] + 1
    <2>1. ASSUME NEW d \in 1 .. depth[t] + 1
          PROVE  FullName(t)[d] \in STRING
      <3>1. Ancestor(t, d - 1) \in Tags
        BY <1>3, Ancestors
      <3> QED
        BY <1>3, <3>1, NameAssumption
    <2>2. FullName(t) = [d \in 1 .. depth[t] + 1 |-> FullName(t)[d]]
      BY <1>2
    <2>3. depth[t] + 1 \in Nat
      BY <1>1
    <2> QED
      BY <2>1, <2>2, <2>3, FunctionIsSequence
  <1>5. FullName(t)[depth[t] + 1] = name[t]
    <2>1. depth[t] + 1 \in 1 .. depth[t] + 1 /\ depth[t] + 1 - 1 = depth[t]
      BY <1>1
    <2>2. t = Ancestor(t, depth[t])
      <3>1. t \in Under(t)
        BY UnderUnfolds
      <3> QED
        BY <3>1, Ancestors
    <2> DEFINE m == depth[t] + 1
    <2> HIDE DEF m
    <2>3. FullName(t)[m] = name[Ancestor(t, m - 1)]
      BY <1>3, <2>1 DEF m
    <2>4. m - 1 = depth[t]
      BY <1>1 DEF m
    <2> QED
      BY <2>2, <2>3, <2>4 DEF m
  <1>6. ASSUME NEW v \in Under(t)
        PROVE  v \in Tags /\ depth[t] <= depth[v] /\
               \A d \in 1 .. depth[t] + 1 : FullName(v)[d] = FullName(t)[d]
    <2>1. v \in Tags
      BY UnderUnfolds
    <2>2. depth[t] <= depth[v]
      BY <2>1, Ancestors
    <2>3. ASSUME NEW d \in 1 .. depth[t] + 1
          PROVE  FullName(v)[d] = FullName(t)[d]
      <3> DEFINE a == Ancestor(t, d - 1)
      <3>1. a \in Tags /\ depth[a] = d - 1 /\ t \in Under(a)
        BY <1>3, Ancestors
      <3>2. v \in Under(a)
        BY <3>1, UnderUnder
      <3>3. a = Ancestor(v, d - 1)
        BY <2>1, <3>1, <3>2, Ancestors
      <3>4. d \in 1 .. depth[v] + 1
        BY <1>1, <2>1, <2>2
      <3> QED
        BY <1>3, <2>1, <3>3, <3>4
    <2> QED
      BY <2>1, <2>2, <2>3
  <1> QED
    BY <1>1, <1>4, <1>5, <1>6

\* The first j parts of p are names of v and of tags above it, from depth k down.
Fits(p, k, v, j) ==
  k + j <= depth[v] + 1 /\ \A i \in 1 .. j : p[i] = FullName(v)[k + i]

\* What ends the parts of a path that ends in a dot.
EmptyPart == ""

\* What is left of a path at a tag of depth k names v.
NamesFrom(p, k, v) ==
  \/ NoName(p)
  \/ Fits(p, k, v, Len(p))
  \/ /\ Len(p) >= 2 /\ p[Len(p)] = EmptyPart /\ Fits(p, k, v, Len(p) - 1)
     /\ k + Len(p) - 1 <= depth[v] \/ is_parent(v)

LEMMA NamesFromRoot ==
  ASSUME NEW p \in Seq(STRING), NEW v \in Tags
  PROVE  Names(p, v) <=> NamesFrom(p, 0, v)
  <1> DEFINE n == Len(p)
             full == FullName(v)
  <1>1. n \in Nat /\ depth[v] \in Nat /\ full \in Seq(STRING) /\ Len(full) = depth[v] + 1
    BY FullNames
  <1>2. \A i \in 1 .. n : p[i] \in STRING
    BY ElementType
  <1> HIDE DEF full
  <1>3. IsPrefix(p, full) <=> Fits(p, 0, v, n)
    <2>1. IsPrefix(p, full) <=> n <= depth[v] + 1 /\ SubSeq(p, 1, n) = SubSeq(full, 1, n)
      BY <1>1 DEF IsPrefix
    <2>2. Fits(p, 0, v, n) <=> n <= depth[v] + 1 /\ \A i \in 1 .. n : p[i] = full[i]
      BY <1>1 DEF Fits, full
    <2>3. SubSeq(p, 1, n) = p
      OBVIOUS
    <2>4. ASSUME n <= depth[v] + 1
          PROVE  SubSeq(full, 1, n) = p <=> \A i \in 1 .. n : p[i] = full[i]
      <3> DEFINE s == SubSeq(full, 1, n)
      <3>1. s \in Seq(STRING) /\ Len(s) = n /\ \A i \in 1 .. n : s[i] = full[i]
        BY <1>1, <2>4
      <3> HIDE DEF s
      <3>2. (\A i \in 1 .. n : p[i] = s[i]) => p = s
        BY <3>1, SameSequence
      <3> QED
        BY <3>1, <3>2 DEF s
    <2> QED
      BY <2>1, <2>2, <2>3, <2>4
  <1>4. CASE n < 2
    <2>1. CASE n = 0
      <3>1. p = <<>>
        BY <2>1
      <3> QED
        BY <3>1 DEF NoName, Names, NamesFrom
    <2>2. CASE n = 1
      <3>1. \A u \in Tags : FullName(u) # Front(p)
        <4>1. ASSUME NEW u \in Tags
              PROVE  FullName(u) # Front(p)
          <5>1. Len(FullName(u)) = depth[u] + 1 /\ depth[u] \in Nat
            BY FullNames
          <5>2. Len(Front(p)) = 0
            BY <2>2 DEF Front
          <5> QED
            BY <5>1, <5>2
        <4> QED
          BY <4>1
      <3>2. ~ (n >= 2)
        BY <2>2
      <3> QED
        BY <1>3, <3>1, <3>2 DEF Names, NamesFrom, full
    <2>3. n = 0 \/ n = 1
      <3>1. n \in Nat
        OBVIOUS
      <3> HIDE DEF n
      <3> QED
        BY <1>4, <3>1
    <2> QED
      BY <2>1, <2>2, <2>3
  <1>5. CASE n >= 2
    <2> DEFINE q == Front(p)
    <2>1. q \in Seq(STRING) /\ Len(q) = n - 1 /\ \A i \in 1 .. n - 1 : q[i] = p[i]
      BY <1>5 DEF Front
    <2>2. Last(p) = p[n]
      BY DEF Last
    <2> HIDE DEF q
    <2> DEFINE parents == \E u \in Tags : is_parent(u) /\ v \in Under(u) /\ FullName(u) = q
               fits == Fits(p, 0, v, n - 1) /\ (0 + n - 1 <= depth[v] \/ is_parent(v))
    <2>3. ASSUME parents
          PROVE  fits
      <3>1. PICK u \in Tags : is_parent(u) /\ v \in Under(u) /\ FullName(u) = q
        BY <2>3
      <3>2. /\ depth[u] \in Nat /\ depth[u] + 1 = n - 1 /\ depth[u] <= depth[v]
            /\ \A d \in 1 .. depth[u] + 1 : full[d] = FullName(u)[d]
        BY <2>1, <3>1, FullNames DEF full
      <3>3. Fits(p, 0, v, n - 1)
        <4>1. ASSUME NEW i \in 1 .. n - 1
              PROVE  p[i] = full[0 + i]
          <5>1. 0 + i = i
            OBVIOUS
          <5>2. q[i] = p[i] /\ full[i] = FullName(u)[i]
            BY <2>1, <3>2
          <5> QED
            BY <3>1, <5>1, <5>2
        <4>2. 0 + (n - 1) <= depth[v] + 1
          BY <1>1, <3>2
        <4> QED
          BY <4>1, <4>2 DEF Fits, full
      <3>4. CASE depth[u] = depth[v]
        <4>1. v \in Under(v)
          BY UnderUnfolds
        <4>2. u = v
          BY <3>1, <3>4, <4>1, Ancestors
        <4> QED
          BY <3>1, <3>3, <4>2
      <3>5. CASE depth[u] # depth[v]
        <4>1. 0 + n - 1 <= depth[v]
          BY <1>1, <3>2, <3>5
        <4> QED
          BY <3>3, <4>1
      <3> QED
        BY <3>4, <3>5
    <2>4. ASSUME fits
          PROVE  parents
      <3> DEFINE d == n - 2
                 u == Ancestor(v, d)
      <3>1. /\ n - 1 <= depth[v] + 1 /\ d \in 0 .. depth[v] /\ d + 1 = n - 1
            /\ \A i \in 1 .. n - 1 : p[i] = full[0 + i]
        BY <1>1, <1>5, <2>4 DEF Fits, full
      <3> HIDE DEF d
      <3>2. u \in Tags /\ depth[u] = d /\ v \in Under(u)
        BY <3>1, Ancestors
      <3> HIDE DEF u
      <3>3. is_parent(u)
        <4>1. CASE u = v
          <5>1. ~ (0 + n - 1 <= depth[v])
            BY <1>1, <3>1, <3>2, <4>1
          <5> QED
            BY <2>4, <4>1, <5>1
        <4>2. CASE u # v
          <5>1. PICK i \in DOMAIN children[u] : v \in Under(children[u][i])
            BY <3>2, <4>2, UnderUnfolds
          <5> QED
            BY <5>1 DEF is_parent
        <4> QED
          BY <4>1, <4>2
      <3>4. /\ FullName(u) \in Seq(STRING) /\ Len(FullName(u)) = n - 1
            /\ \A i \in 1 .. n - 1 : full[i] = FullName(u)[i]
        BY <3>1, <3>2, FullNames DEF full
      <3>5. \A i \in 1 .. n - 1 : FullName(u)[i] = q[i]
        <4>1. ASSUME NEW i \in 1 .. n - 1
              PROVE  FullName(u)[i] = q[i]
          <5>1. 0 + i = i
            OBVIOUS
          <5> QED
            BY <2>1, <3>1, <3>4, <5>1
        <4> QED
          BY <4>1
      <3>6. FullName(u) = q
        BY <2>1, <3>4, <3>5, SameSequence
      <3> QED
        BY <3>2, <3>3, <3>6
    <2> HIDE DEF fits
    <2>5. Names(p, v) <=> NoName(p) \/ IsPrefix(p, full) \/ (p[n] = EmptyPart /\ parents)
      BY <2>2 DEF Names, Under, full, q, EmptyPart
    <2>6. NamesFrom(p, 0, v) <=> NoName(p) \/ Fits(p, 0, v, n) \/ (p[n] = EmptyPart /\ fits)
      BY <1>5 DEF NamesFrom, fits
    <2> HIDE DEF parents
    <2> QED
      BY <1>3, <2>3, <2>4, <2>5, <2>6
  <1> QED
    BY <1>1, <1>4, <1>5

\* The parts of a path, one tag down.
LEMMA RestOfPath ==
  ASSUME NEW p \in Seq(STRING), Len(p) > 0
  PROVE  /\ Tail(p) \in Seq(STRING) /\ Len(Tail(p)) = Len(p) - 1
         /\ \A i \in 1 .. Len(p) - 1 : Tail(p)[i] = p[i + 1]
  OBVIOUS

LEMMA OnePart ==
  ASSUME NEW S, NEW q \in Seq(S), NEW x
  PROVE  q = <<x>> <=> Len(q) = 1 /\ q[1] = x
  <1> DEFINE T == S \cup {x}
  <1>1. q \in Seq(T) /\ <<x>> \in Seq(T)
    <2>1. q = [i \in 1 .. Len(q) |-> q[i]] /\ Len(q) \in Nat /\ \A i \in 1 .. Len(q) : q[i] \in T
      OBVIOUS
    <2> HIDE DEF T
    <2>2. q \in Seq(T)
      BY <2>1, FunctionIsSequence
    <2> QED
      BY <2>2 DEF T
  <1>2. Len(<<x>>) = 1 /\ <<x>>[1] = x /\ \A i \in 1 .. 1 : i = 1
    OBVIOUS
  <1> HIDE DEF T
  <1> QED
    BY <1>1, <1>2, SameSequence

LEMMA NoNames ==
  ASSUME NEW p \in Seq(STRING)
  PROVE  /\ NoName(p) <=> Len(p) = 0 \/ (Len(p) = 1 /\ p[1] = EmptyPart)
         /\ Len(p) > 0 => (NoName(Tail(p)) <=> Len(p) = 1 \/ (Len(p) = 2 /\ p[2] = EmptyPart))
         /\ Len(p) \in Nat /\ (Len(p) > 0 => Head(p) = p[1])
  <1>1. ASSUME NEW q \in Seq(STRING)
        PROVE  NoName(q) <=> Len(q) = 0 \/ (Len(q) = 1 /\ q[1] = EmptyPart)
    <2>1. q = <<>> <=> Len(q) = 0
      OBVIOUS
    <2>2. q = <<EmptyPart>> <=> Len(q) = 1 /\ q[1] = EmptyPart
      BY OnePart
    <2>3. NoName(q) <=> q = <<>> \/ q = <<EmptyPart>>
      BY DEF NoName, EmptyPart
    <2> QED
      BY <2>1, <2>2, <2>3
  <1>2. ASSUME Len(p) > 0
        PROVE  NoName(Tail(p)) <=> Len(p) = 1 \/ (Len(p) = 2 /\ p[2] = EmptyPart)
    <2> DEFINE n == Len(p)
    <2>1. /\ Tail(p) \in Seq(STRING) /\ Len(Tail(p)) = n - 1
          /\ \A i \in 1 .. n - 1 : Tail(p)[i] = p[i + 1]
      BY <1>2, RestOfPath
    <2>2. NoName(Tail(p)) <=> n - 1 = 0 \/ (n - 1 = 1 /\ Tail(p)[1] = EmptyPart)
      BY <1>1, <2>1
    <2>3. n \in Nat
      OBVIOUS
    <2> HIDE DEF n
    <2>4. n = 2 => Tail(p)[1] = p[2]
      <3>1. 1 + 1 = 2 /\ (n = 2 => 1 \in 1 .. n - 1)
        BY <2>3
      <3> QED
        BY <2>1, <3>1
    <2>5. (n - 1 = 0 <=> n = 1) /\ (n - 1 = 1 <=> n = 2)
      BY <2>3
    <2> QED
      BY <2>2, <2>4, <2>5 DEF n
  <1>3. Len(p) \in Nat /\ (Len(p) > 0 => Head(p) = p[1])
    OBVIOUS
  <1> QED
    BY <1>1, <1>2, <1>3

\* What tagCommander decides at a tag is right: of the tags below it, what is left of
\* the path names all, or those below its children that the rest of it names.
LEMMA NamesAtTag ==
  ASSUME NEW t \in Tags, NEW p \in Seq(STRING), NEW v \in Under(t)
  PROVE  /\ NoName(p) => NamesFrom(p, depth[t], v)
         /\ ~NoName(p) /\ ~is_parent(t) => (NamesFrom(p, depth[t], v) <=> p = <<name[t]>>)
         /\ ~NoName(p) /\ is_parent(t) /\ Head(p) # name[t] => ~NamesFrom(p, depth[t], v)
         /\ ~NoName(p) /\ is_parent(t) /\ Head(p) = name[t] /\ NoName(Tail(p)) =>
              NamesFrom(p, depth[t], v)
         /\ ~NoName(p) /\ is_parent(t) /\ Head(p) = name[t] /\ ~NoName(Tail(p)) =>
              (NamesFrom(p, depth[t], v) <=> v # t /\ NamesFrom(Tail(p), depth[t] + 1, v))
  <1> DEFINE k == depth[t]
             m == Len(p)
             l == depth[v]
             full == FullName(v)
             r == Tail(p)
  <1>1. /\ m \in Nat /\ k \in Nat /\ l \in Nat /\ k <= l /\ full[k + 1] = name[t]
        /\ v = t \/ k + 1 <= l
    <2>1. v \in Tags /\ k \in Nat /\ k <= l /\ FullName(t)[k + 1] = name[t]
      BY FullNames
    <2>2. l \in Nat
      BY <2>1, FullNames
    <2>3. \A d \in 1 .. k + 1 : full[d] = FullName(t)[d]
      BY FullNames
    <2>4. k + 1 \in 1 .. k + 1
      BY <2>1
    <2>5. v = t \/ l > k
      BY UnderIsDeeper
    <2>6. m \in Nat
      OBVIOUS
    <2> HIDE DEF k, l, full, m
    <2>7. l > k => k + 1 <= l
      BY <2>1, <2>2
    <2> QED
      BY <2>1, <2>2, <2>3, <2>4, <2>5, <2>6, <2>7
  <1>2. /\ NoName(p) <=> m = 0 \/ (m = 1 /\ p[1] = EmptyPart)
        /\ m > 0 => (NoName(r) <=> m = 1 \/ (m = 2 /\ p[2] = EmptyPart))
        /\ m > 0 => Head(p) = p[1]
    BY NoNames
  <1>3. \A x, j : Fits(p, k, x, j) <=>
           k + j <= depth[x] + 1 /\ \A i \in 1 .. j : p[i] = FullName(x)[k + i]
    BY DEF Fits
  <1>4. m > 0 => r \in Seq(STRING) /\ Len(r) = m - 1 /\ \A i \in 1 .. m - 1 : r[i] = p[i + 1]
    BY RestOfPath
  <1>5. NamesFrom(p, k, v) <=>
          \/ NoName(p) \/ Fits(p, k, v, m)
          \/ m >= 2 /\ p[m] = EmptyPart /\ Fits(p, k, v, m - 1) /\ (k + m - 1 <= l \/ is_parent(v))
    BY DEF NamesFrom
  <1>6. NamesFrom(r, k + 1, v) <=>
          \/ NoName(r) \/ Fits(r, k + 1, v, Len(r))
          \/ /\ Len(r) >= 2 /\ r[Len(r)] = EmptyPart /\ Fits(r, k + 1, v, Len(r) - 1)
             /\ (k + 1) + Len(r) - 1 <= l \/ is_parent(v)
    BY DEF NamesFrom
  <1>7. p = <<name[t]>> <=> m = 1 /\ p[1] = name[t]
    BY OnePart
  <1> HIDE DEF k, m, l, full, r
  <1>8. ASSUME NEW j \in Nat, Fits(p, k, v, j)
        PROVE  k + j <= l + 1 /\ (j > 0 => p[1] = name[t])
    <2>1. k + j <= l + 1 /\ \A i \in 1 .. j : p[i] = full[k + i]
      BY <1>3, <1>8 DEF l, full
    <2>2. j > 0 => 1 \in 1 .. j
      OBVIOUS
    <2> QED
      BY <1>1, <2>1, <2>2
  <1>9. p[1] = name[t] => Fits(p, k, v, 1)
    <2>1. \A i \in 1 .. 1 : i = 1
      OBVIOUS
    <2>2. k + 1 <= l + 1
      BY <1>1
    <2> QED
      BY <1>1, <1>3, <2>1, <2>2 DEF l, full
  <1>10. ASSUME ~NoName(p), ~is_parent(t)
         PROVE  NamesFrom(p, k, v) <=> p = <<name[t]>>
    <2>1. v = t
      BY <1>10, UnderUnfolds DEF is_parent
    <2>2. l = k /\ m > 0
      BY <1>1, <1>2, <1>10, <2>1 DEF k, l
    <2>3. Fits(p, k, v, m) <=> m = 1 /\ p[1] = name[t]
      <3>1. Fits(p, k, v, m) => m = 1 /\ p[1] = name[t]
        BY <1>1, <1>8, <2>2
      <3> QED
        BY <1>9, <3>1
    <2>4. ~ (m >= 2 /\ (k + m - 1 <= l \/ is_parent(v)))
      BY <1>1, <1>10, <2>1, <2>2
    <2> QED
      BY <1>5, <1>7, <1>10, <2>3, <2>4
  <1>11. ASSUME ~NoName(p), p[1] # name[t]
         PROVE  ~NamesFrom(p, k, v)
    <2>1. m > 0 /\ (m >= 2 => m - 1 \in Nat /\ m - 1 > 0)
      BY <1>1, <1>2, <1>11
    <2>2. ~Fits(p, k, v, m) /\ (m >= 2 => ~Fits(p, k, v, m - 1))
      BY <1>1, <1>8, <1>11, <2>1
    <2> QED
      BY <1>5, <1>11, <2>2
  <1>12. ASSUME ~NoName(p), is_parent(t), p[1] = name[t], NoName(r)
         PROVE  NamesFrom(p, k, v)
    <2>1. m = 1 \/ (m = 2 /\ p[2] = EmptyPart)
      BY <1>1, <1>2, <1>12
    <2>2. CASE m = 1
      BY <1>5, <1>9, <1>12, <2>2
    <2>3. CASE m = 2 /\ p[2] = EmptyPart
      <3>1. m >= 2 /\ p[m] = EmptyPart /\ m - 1 = 1 /\ (k + m - 1 <= l \/ is_parent(v))
        BY <1>1, <1>12, <2>3
      <3> QED
        BY <1>5, <1>9, <1>12, <3>1
    <2> QED
      BY <2>1, <2>2, <2>3
  <1>13. ASSUME ~NoName(p), is_parent(t), p[1] = name[t], ~NoName(r)
         PROVE  NamesFrom(p, k, v) <=> v # t /\ NamesFrom(r, k + 1, v)
    <2>1. m >= 2 /\ (m = 2 => p[2] # EmptyPart) /\ m - 1 \in Nat
      BY <1>1, <1>2, <1>13
    <2>2. CASE v = t
      <3>1. l = k
        BY <2>2 DEF l, k
      <3>2. ~Fits(p, k, v, m)
        BY <1>1, <1>8, <2>1, <3>1
      <3>3. Fits(p, k, v, m - 1) => m = 2
        BY <1>1, <1>8, <2>1, <3>1
      <3> QED
        BY <1>5, <1>13, <2>1, <2>2, <3>2, <3>3
    <2>3. CASE v # t
      <3>1. ASSUME NEW j \in 2 .. m
            PROVE  Fits(p, k, v, j) <=> Fits(r, k + 1, v, j - 1)
        <4>1. Fits(p, k, v, j) <=> k + j <= l + 1 /\ \A i \in 1 .. j : p[i] = full[k + i]
          BY <1>3 DEF l, full
        <4>2. Fits(r, k + 1, v, j - 1) <=>
                (k + 1) + (j - 1) <= l + 1 /\ \A i \in 1 .. j - 1 : r[i] = full[(k + 1) + i]
          BY DEF Fits, l, full
        <4>3. (k + 1) + (j - 1) = k + j
          BY <1>1
        <4>4. ASSUME \A i \in 1 .. j : p[i] = full[k + i], NEW i \in 1 .. j - 1
              PROVE  r[i] = full[(k + 1) + i]
          <5>1. r[i] = p[i + 1] /\ i + 1 \in 1 .. j /\ k + (i + 1) = (k + 1) + i
            BY <1>1, <1>4, <2>1
          <5> QED
            BY <4>4, <5>1
        <4>5. ASSUME \A i \in 1 .. j - 1 : r[i] = full[(k + 1) + i], NEW i \in 1 .. j
              PROVE  p[i] = full[k + i]
          <5>1. CASE i = 1
            BY <1>1, <1>13, <5>1
          <5>2. CASE i # 1
            <6> DEFINE h == i - 1
            <6>1. h \in 1 .. j - 1 /\ h \in 1 .. m - 1 /\ h + 1 = i /\ (k + 1) + h = k + i
              BY <1>1, <2>1, <5>2
            <6> HIDE DEF h
            <6>2. r[h] = p[h + 1] /\ r[h] = full[(k + 1) + h]
              BY <1>1, <1>4, <2>1, <4>5, <6>1
            <6> QED
              BY <6>1, <6>2
          <5> QED
            BY <5>1, <5>2
        <4> QED
          BY <4>1, <4>2, <4>3, <4>4, <4>5
      <3>2. Fits(p, k, v, m) <=> Fits(r, k + 1, v, Len(r))
        <4>1. m \in 2 .. m /\ Len(r) = m - 1
          BY <1>1, <1>4, <2>1
        <4> QED
          BY <3>1, <4>1
      <3>3. CASE m = 2
        <4>1. ~ (Len(r) >= 2) /\ p[m] # EmptyPart
          <5>1. m > 0
            BY <3>3
          <5>2. Len(r) = 2 - 1
            BY <1>4, <3>3, <5>1
          <5> QED
            BY <2>1, <3>3, <5>2
        <4> QED
          BY <1>5, <1>6, <1>13, <2>3, <3>2, <4>1
      <3>4. CASE m # 2
        <4>1. /\ m - 1 \in 2 .. m /\ Len(r) = m - 1 /\ m - 1 \in 1 .. m - 1
              /\ (k + 1) + (m - 1) - 1 = k + m - 1 /\ m - 1 + 1 = m /\ Len(r) >= 2
          BY <1>1, <1>4, <2>1, <3>4
        <4>2. Fits(p, k, v, m - 1) <=> Fits(r, k + 1, v, Len(r) - 1)
          BY <3>1, <4>1
        <4>3. r[Len(r)] = p[m]
          BY <1>4, <2>1, <4>1
        <4> QED
          BY <1>5, <1>6, <1>13, <2>1, <2>3, <3>2, <4>1, <4>2, <4>3
      <3> QED
        BY <3>3, <3>4
    <2> QED
      BY <2>2, <2>3
  <1>14. NoName(p) => NamesFrom(p, k, v)
    BY <1>5
  <1>15. ~NoName(p) => Head(p) = p[1]
    BY <1>1, <1>2
  <1> QED
    BY <1>10, <1>11, <1>12, <1>13, <1>14, <1>15 DEF k, r

\* tagCommander at a tag, with below for what it reaches below each child.
CommandStep(t, p, below) ==
  IF NoName(p) THEN DoCmd(t)
  ELSE IF ~is_parent(t) THEN (IF p = <<name[t]>> THEN DoCmd(t) ELSE <<>>)
  ELSE IF Head(p) # name[t] THEN <<>>
  ELSE IF NoName(Tail(p)) THEN DoCmd(t)
  ELSE FlattenSeq(below)

LEMMA CommandStepType ==
  ASSUME NEW t \in Tags, NEW p \in Seq(STRING), NEW below,
         ~NoName(p) => below \in Seq(Seq(Tags))
  PROVE  CommandStep(t, p, below) \in Seq(Tags)
  <1>0. <<>> \in Seq(Tags)
    OBVIOUS
  <1>1. DoCmd(t) \in Seq(Tags) /\ <<>> \in Seq(Tags)
    BY <1>0, DoCmdUnfolds
  <1>2. ~NoName(p) => FlattenSeq(below) \in Seq(Tags)
    BY FlattenElements
  <1> QED
    BY <1>1, <1>2 DEF CommandStep

\* What tagCommander reaches below a tag's children.
Below(go, t, p) == [i \in DOMAIN children[t] |-> go[children[t][i]][Tail(p)]]

\* go is tagCommander's recursion.
Commands(go) ==
  /\ go \in [Tags -> [Seq(STRING) -> Seq(Tags)]]
  /\ \A t \in Tags, p \in Seq(STRING) : go[t][p] = CommandStep(t, p, Below(go, t, p))

LEMMA TagCommanderUnfolds ==
  ASSUME NEW root \in Tags, NEW path \in Seq(STRING)
  PROVE  \E go : Commands(go) /\ tagCommander(root, path) = go[root][path]
  <1> DEFINE P == Seq(STRING)
             V == [P -> Seq(Tags)]
             v0 == [p \in P |-> <<>>]
             under(gs, p) == [i \in DOMAIN gs |-> gs[i][Tail(p)]]
             step == [a \in Tags \X Seq(V) |-> [p \in P |-> CommandStep(a[1], p, under(a[2], p))]]
             go[t \in Tags] == [p \in Seq(STRING) |->
               IF NoName(p) THEN DoCmd(t)
               ELSE IF ~is_parent(t) THEN (IF p = <<name[t]>> THEN DoCmd(t) ELSE <<>>)
               ELSE IF Head(p) # name[t] THEN <<>>
               ELSE IF NoName(Tail(p)) THEN DoCmd(t)
               ELSE FlattenSeq([i \in DOMAIN children[t] |-> go[children[t][i]][Tail(p)]])]
             fixed(g) == g = [t \in Tags |-> [p \in P |-> CommandStep(t, p, Below(g, t, p))]]
  <1>1. tagCommander(root, path) = go[root][path]
    BY DEF tagCommander
  <1>2. go = CHOOSE g : fixed(g)
    BY DEF CommandStep, Below
  <1> HIDE DEF go
  <1>3. ASSUME NEW t \in Tags, NEW gs \in Seq(V), NEW p \in P
        PROVE  CommandStep(t, p, under(gs, p)) \in Seq(Tags)
    <2> DEFINE n == Len(gs)
    <2>1. n \in Nat /\ DOMAIN gs = 1 .. n
      OBVIOUS
    <2> HIDE DEF n
    <2>2. ASSUME ~NoName(p)
          PROVE  under(gs, p) \in Seq(Seq(Tags))
      <3>1. Len(p) > 0
        BY <2>2, NoNames
      <3>2. Tail(p) \in P
        BY <3>1, RestOfPath
      <3>3. \A i \in 1 .. n : gs[i] \in V
        BY <2>1, ElementType DEF n
      <3>4. \A i \in 1 .. n : gs[i][Tail(p)] \in Seq(Tags)
        BY <3>2, <3>3
      <3> DEFINE b == [i \in 1 .. n |-> gs[i][Tail(p)]]
      <3>5. b = [i \in 1 .. n |-> b[i]] /\ \A i \in 1 .. n : b[i] \in Seq(Tags)
        BY <3>4
      <3> HIDE DEF b
      <3>6. b \in Seq(Seq(Tags))
        BY <2>1, <3>5, FunctionIsSequence
      <3> QED
        BY <2>1, <3>6 DEF b
    <2> HIDE DEF under
    <2> QED
      BY <2>2, CommandStepType
  <1> HIDE DEF under
  <1>4. step \in [Tags \X Seq(V) -> V]
    <2>1. ASSUME NEW t \in Tags, NEW gs \in Seq(V)
          PROVE  [p \in P |-> CommandStep(t, p, under(gs, p))] \in V
      BY <1>3
    <2> HIDE DEF V
    <2> QED
      BY <2>1
  <1>5. \A t \in Tags, gs \in Seq(V) :
          step[<<t, gs>>] = [p \in P |-> CommandStep(t, p, under(gs, p))]
    OBVIOUS
  <1>6. v0 \in V
    OBVIOUS
  <1> HIDE DEF step, v0
  <1>7. PICK g \in [Tags -> V] : TreeRecurrence(g, step)
    <2> HIDE DEF V
    <2> QED
      BY <1>4, <1>6, TreeRecursion
  <1>8. ASSUME NEW t \in Tags
        PROVE  g[t] = [p \in P |-> CommandStep(t, p, Below(g, t, p))]
    <2> DEFINE gs == [i \in DOMAIN children[t] |-> g[children[t][i]]]
               n == Len(children[t])
    <2>1. n \in Nat /\ DOMAIN children[t] = 1 .. n /\ \A i \in 1 .. n : children[t][i] \in Tags
      <3>1. children[t] \in Seq(Tags)
        BY TreeAssumption
      <3> QED
        BY <3>1
    <2> HIDE DEF n
    <2>2. gs = [i \in 1 .. n |-> gs[i]] /\ \A i \in 1 .. n : gs[i] \in V /\ gs[i] = g[children[t][i]]
      <3> HIDE DEF V
      <3> QED
        BY <2>1
    <2>3. g[t] = step[<<t, gs>>]
      BY <1>7 DEF TreeRecurrence
    <2> HIDE DEF gs
    <2>4. gs \in Seq(V) /\ DOMAIN gs = 1 .. n
      <3> HIDE DEF V
      <3> QED
        BY <2>1, <2>2, FunctionIsSequence
    <2>5. g[t] = [p \in P |-> CommandStep(t, p, under(gs, p))]
      BY <1>5, <2>3, <2>4
    <2>6. ASSUME NEW p \in P
          PROVE  under(gs, p) = Below(g, t, p)
      BY <2>1, <2>2, <2>4 DEF under, Below
    <2> QED
      BY <2>5, <2>6
  <1>9. fixed(g)
    <2> DEFINE h(t) == [p \in P |-> CommandStep(t, p, Below(g, t, p))]
    <2>1. \A t \in Tags : g[t] = h(t)
      BY <1>8
    <2>2. g = [t \in Tags |-> g[t]]
      <3> HIDE DEF V
      <3> QED
        BY <1>7
    <2> HIDE DEF h
    <2>3. g = [t \in Tags |-> h(t)]
      BY <2>1, <2>2
    <2> QED
      BY <2>3 DEF h
  <1> HIDE DEF fixed
  <1>10. fixed(go)
    BY <1>2, <1>9
  <1>11. \A t \in Tags, p \in P : go[t][p] = CommandStep(t, p, Below(go, t, p))
    <2> DEFINE f(t, p) == CommandStep(t, p, Below(go, t, p))
               h(t) == [p \in P |-> f(t, p)]
    <2>1. go = [t \in Tags |-> h(t)]
      BY <1>10 DEF fixed
    <2> SUFFICES ASSUME NEW t \in Tags, NEW p \in P PROVE go[t][p] = f(t, p)
      OBVIOUS
    <2> HIDE DEF f
    <2>2. h(t)[p] = f(t, p)
      OBVIOUS
    <2> HIDE DEF h
    <2>3. go[t] = h(t)
      BY <2>1
    <2> QED
      BY <2>2, <2>3
  <1>12. go \in [Tags -> V]
    <2> DEFINE S == {t \in Tags : \A p \in P : go[t][p] \in Seq(Tags)}
    <2>1. ASSUME NEW t \in Tags, \A i \in DOMAIN children[t] : children[t][i] \in S
          PROVE  t \in S
      <3> SUFFICES ASSUME NEW p \in P PROVE go[t][p] \in Seq(Tags)
        OBVIOUS
      <3>1. ASSUME ~NoName(p)
            PROVE  Below(go, t, p) \in Seq(Seq(Tags))
        <4> DEFINE n == Len(children[t])
                   b == Below(go, t, p)
        <4>1. n \in Nat /\ DOMAIN children[t] = 1 .. n
          <5>1. children[t] \in Seq(Tags)
            BY TreeAssumption
          <5> QED
            BY <5>1
        <4>2. Tail(p) \in P
          BY <3>1, NoNames, RestOfPath
        <4> HIDE DEF n
        <4>3. b = [i \in 1 .. n |-> b[i]] /\ \A i \in 1 .. n : b[i] = go[children[t][i]][Tail(p)]
          BY <4>1 DEF Below
        <4>4. \A i \in 1 .. n : b[i] \in Seq(Tags)
          BY <2>1, <4>1, <4>2, <4>3
        <4> HIDE DEF b
        <4>5. b \in Seq(Seq(Tags))
          BY <4>1, <4>3, <4>4, FunctionIsSequence
        <4> QED
          BY <4>5 DEF b
      <3>2. CommandStep(t, p, Below(go, t, p)) \in Seq(Tags)
        BY <3>1, CommandStepType
      <3> QED
        BY <1>11, <3>2
    <2> HIDE DEF S
    <2>2. Tags \subseteq S
      BY <2>1, TreeInduction
    <2>3. \A t \in Tags, p \in P : go[t][p] \in Seq(Tags)
      BY <2>2 DEF S
    <2> DEFINE f(t, p) == CommandStep(t, p, Below(go, t, p))
    <2>4. go = [t \in Tags |-> [p \in P |-> f(t, p)]]
      BY <1>10 DEF fixed
    <2>5. \A t \in Tags, p \in P : f(t, p) \in Seq(Tags)
      BY <1>11, <2>3
    <2> HIDE DEF f
    <2> QED
      BY <2>4, <2>5
  <1>13. Commands(go)
    BY <1>11, <1>12 DEF Commands
  <1> QED
    BY <1>1, <1>13

\* The tags under t that what is left of a path at t names.
NamedUnder(t, p) == {v \in Under(t) : NamesFrom(p, depth[t], v)}

LEMMA CommandsReach ==
  ASSUME NEW go, Commands(go), NEW t \in Tags
  PROVE  \A p \in Seq(STRING) : IsOnce(go[t][p]) /\ ToSet(go[t][p]) = NamedUnder(t, p)
  <1> DEFINE right(s, p) == IsOnce(go[s][p]) /\ ToSet(go[s][p]) = NamedUnder(s, p)
             S == {s \in Tags : \A p \in Seq(STRING) : right(s, p)}
  <1>1. ASSUME NEW s \in Tags, \A i \in DOMAIN children[s] : children[s][i] \in S
        PROVE  s \in S
    <2> SUFFICES ASSUME NEW p \in Seq(STRING) PROVE right(s, p)
      OBVIOUS
    <2> DEFINE below == Below(go, s, p)
    <2>1. go[s][p] = CommandStep(s, p, below)
      BY DEF Commands
    <2>2. IsOnce(DoCmd(s)) /\ ToSet(DoCmd(s)) = Under(s)
      BY DoCmdOnce DEF Under
    <2>3. IsOnce(<<>>) /\ ToSet(<<>>) = {}
      BY DEF IsOnce, ToSet
    <2>4. CASE NoName(p)
      <3>1. go[s][p] = DoCmd(s)
        BY <2>1, <2>4 DEF CommandStep
      <3>2. NamedUnder(s, p) = Under(s)
        BY <2>4, NamesAtTag DEF NamedUnder
      <3> QED
        BY <2>2, <3>1, <3>2
    <2>5. CASE ~NoName(p) /\ ~is_parent(s) /\ p = <<name[s]>>
      <3>1. go[s][p] = DoCmd(s)
        BY <2>1, <2>5 DEF CommandStep
      <3>2. NamedUnder(s, p) = Under(s)
        BY <2>5, NamesAtTag DEF NamedUnder
      <3> QED
        BY <2>2, <3>1, <3>2
    <2>6. CASE ~NoName(p) /\ ~is_parent(s) /\ p # <<name[s]>>
      <3>1. go[s][p] = <<>>
        BY <2>1, <2>6 DEF CommandStep
      <3>2. NamedUnder(s, p) = {}
        BY <2>6, NamesAtTag DEF NamedUnder
      <3> QED
        BY <2>3, <3>1, <3>2
    <2>7. CASE ~NoName(p) /\ is_parent(s) /\ Head(p) # name[s]
      <3>1. go[s][p] = <<>>
        BY <2>1, <2>7 DEF CommandStep
      <3>2. NamedUnder(s, p) = {}
        BY <2>7, NamesAtTag DEF NamedUnder
      <3> QED
        BY <2>3, <3>1, <3>2
    <2>8. CASE ~NoName(p) /\ is_parent(s) /\ Head(p) = name[s] /\ NoName(Tail(p))
      <3>1. go[s][p] = DoCmd(s)
        BY <2>1, <2>8 DEF CommandStep
      <3>2. NamedUnder(s, p) = Under(s)
        BY <2>8, NamesAtTag DEF NamedUnder
      <3> QED
        BY <2>2, <3>1, <3>2
    <2>9. CASE ~NoName(p) /\ is_parent(s) /\ Head(p) = name[s] /\ ~NoName(Tail(p))
      <3> DEFINE n == Len(children[s])
                 c(i) == children[s][i]
                 r == Tail(p)
      <3>1. go[s][p] = FlattenSeq(below)
        BY <2>1, <2>9 DEF CommandStep
      <3>2. n \in Nat /\ DOMAIN children[s] = 1 .. n
        <4>1. children[s] \in Seq(Tags)
          BY TreeAssumption
        <4> QED
          BY <4>1
      <3> HIDE DEF n
      <3>3. \A i \in 1 .. n : c(i) \in Tags /\ depth[c(i)] = depth[s] + 1 /\ c(i) \in S
        BY <1>1, <3>2, TreeAssumption
      <3>4. r \in Seq(STRING)
        BY <2>9, NoNames, RestOfPath
      <3>5. below = [i \in 1 .. n |-> go[c(i)][r]]
        BY <3>2 DEF Below
      <3> HIDE DEF r
      <3>6. \A i \in 1 .. n : go[c(i)][r] \in Seq(Tags) /\ right(c(i), r)
        BY <3>3, <3>4 DEF Commands
      <3>7. \A i \in 1 .. n : ToSet(go[c(i)][r]) = {v \in Under(c(i)) : NamesFrom(r, depth[s] + 1, v)}
        BY <3>3, <3>6, ZenonT(40) DEF NamedUnder
      <3> HIDE DEF c, right, S
      <3>8. below \in Seq(Seq(Tags)) /\ DOMAIN below = 1 .. n /\ \A i \in 1 .. n : below[i] = go[c(i)][r]
        <4> DEFINE b == [i \in 1 .. n |-> go[c(i)][r]]
        <4>1. b = [i \in 1 .. n |-> b[i]] /\ \A i \in 1 .. n : b[i] \in Seq(Tags) /\ b[i] = go[c(i)][r]
          BY <3>6
        <4> HIDE DEF b
        <4>2. b \in Seq(Seq(Tags)) /\ DOMAIN b = 1 .. n
          BY <3>2, <4>1, FunctionIsSequence
        <4>3. below = b
          BY <3>5 DEF b
        <4> QED
          BY <4>1, <4>2, <4>3
      <3> HIDE DEF below
      <3>9. AllOnce(below)
        <4>1. \A i \in 1 .. n : IsOnce(below[i])
          BY <3>6, <3>8 DEF right
        <4>2. ASSUME NEW i \in 1 .. n, NEW j \in 1 .. n, i # j
              PROVE  ToSet(below[i]) \cap ToSet(below[j]) = {}
          <5>0. i \in DOMAIN children[s] /\ j \in DOMAIN children[s]
            BY <3>2
          <5>1. c(i) # c(j)
            <6> HIDE <3>2
            <6> QED
              BY <4>2, <5>0, TreeAssumption DEF c
          <5>2. Under(c(i)) \cap Under(c(j)) = {}
            BY <3>3, <5>1, UnderIsDisjoint
          <5> QED
            BY <3>7, <3>8, <5>2
        <4> QED
          BY <3>8, <4>1, <4>2 DEF AllOnce
      <3>10. IsOnce(FlattenSeq(below))
        BY <3>8, <3>9, FlattenOnce
      <3>11. ToSet(FlattenSeq(below)) = UNION {ToSet(below[i]) : i \in 1 .. n}
        BY <3>8, FlattenElements
      <3>12. Under(s) = {s} \cup UNION {Under(c(i)) : i \in 1 .. n}
        BY <3>2, UnderUnfolds DEF c
      <3>13. \A v \in Under(s) : NamesFrom(p, depth[s], v) <=> v # s /\ NamesFrom(r, depth[s] + 1, v)
        BY <2>9, NamesAtTag DEF r
      <3>14. \A i \in 1 .. n : s \notin Under(c(i))
        <4>1. ASSUME NEW i \in 1 .. n, s \in Under(c(i))
              PROVE  FALSE
          <5>1. s = c(i) \/ depth[s] > depth[c(i)]
            BY <3>3, <4>1, UnderIsDeeper
          <5>2. depth[s] \in 0 .. MaxDepth
            BY TreeAssumption
          <5> QED
            BY <3>3, <5>1, <5>2
        <4> QED
          BY <4>1
      <3>15. ToSet(FlattenSeq(below)) = NamedUnder(s, p)
        <4>1. \A v : v \in ToSet(FlattenSeq(below)) <=>
                \E i \in 1 .. n : v \in Under(c(i)) /\ NamesFrom(r, depth[s] + 1, v)
          BY <3>7, <3>8, <3>11, ZenonT(40)
        <4>2. \A v : v \in NamedUnder(s, p) <=>
                \E i \in 1 .. n : v \in Under(c(i)) /\ NamesFrom(r, depth[s] + 1, v)
          BY <3>12, <3>13, <3>14 DEF NamedUnder
        <4> QED
          BY <4>1, <4>2
      <3> QED
        BY <3>1, <3>10, <3>15 DEF right
    <2> HIDE DEF right
    <2> QED
      BY <2>4, <2>5, <2>6, <2>7, <2>8, <2>9
  <1> HIDE DEF S
  <1>2. Tags \subseteq S
    BY <1>1, TreeInduction
  <1> QED
    BY <1>2 DEF S

\* A command for a name reaches the tags that the name stands for, each once.
THEOREM TagCommanderReaches ==
  ASSUME NEW root \in {StatTagTree, LogTagTree}, NEW path \in Seq(STRING)
  PROVE  /\ tagCommander(root, path) \in Seq(Tags) /\ IsOnce(tagCommander(root, path))
         /\ ToSet(tagCommander(root, path)) = {t \in Under(root) : Names(path, t)}
  <1>1. root \in Tags /\ depth[root] = 0
    BY TreeAssumption
  <1>2. PICK go : Commands(go) /\ tagCommander(root, path) = go[root][path]
    BY <1>1, TagCommanderUnfolds
  <1>3. go[root][path] \in Seq(Tags)
    BY <1>1, <1>2 DEF Commands
  <1>4. IsOnce(go[root][path]) /\ ToSet(go[root][path]) = NamedUnder(root, path)
    BY <1>1, <1>2, CommandsReach
  <1>5. NamedUnder(root, path) = {t \in Under(root) : Names(path, t)}
    <2>1. Under(root) \subseteq Tags
      BY <1>1, UnderUnfolds
    <2> QED
      BY <1>1, <2>1, NamesFromRoot DEF NamedUnder
  <1> QED
    BY <1>2, <1>3, <1>4, <1>5
=============================================================================

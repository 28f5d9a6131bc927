-------------------------------- MODULE Trees --------------------------------
(***************************************************************************)
(* Trees of bounded depth and recursive functions on them.  Grow(S) is the *)
(* set of the nodes whose operands are in S.  A module about expressions   *)
(* or terms instantiates this one with its own nodes, and with the right-  *)
(* hand side of a recursive function f[e \in Tree] == Step(p, f, e), where *)
(* p is a parameter.                                                       *)
(***************************************************************************)
EXTENDS Integers, TLAPS

CONSTANTS Grow(_), Step(_, _, _), MaxDepth

GrowLevel(p, level, n) == Grow(IF n = 0 THEN {} ELSE level[n - 1])

\* The nodes of at most n + 1 levels.
Level == CHOOSE level : level = [n \in Nat |-> GrowLevel({}, level, n)]
Tree  == Level[MaxDepth]

GrowsMonotonely == \A S, T : S \subseteq T => Grow(S) \subseteq Grow(T)

\* Step looks at the operands only.
UsesOperands(p) ==
  \A S : \A e \in Grow(S) : \A f, g :
    (\A d \in S : f[d] = g[d]) => Step(p, f, e) = Step(p, g, e)

Solution(p) == CHOOSE f : f = [e \in Tree |-> Step(p, f, e)]

-----------------------------------------------------------------------------

Number(n) == n
Anything(p, e, v) == TRUE
LOCAL Levels == INSTANCE Recursion
  WITH Domain <- Nat, Height <- Number, Step <- GrowLevel, Fits <- Anything

\* A tree's depth: the first level that has it.
Depth(e) == CHOOSE n \in Nat : e \in Level[n] /\ \A m \in Nat : m < n => e \notin Level[m]
LOCAL Functions == INSTANCE Recursion WITH Domain <- Tree, Height <- Depth, Fits <- Anything

\* Levels are made as the recursion says.
LEMMA LevelEquation == \A n \in Nat : Level[n] = Grow(IF n = 0 THEN {} ELSE Level[n - 1])
<1>1. Levels!HasHeights
  BY DEF Levels!HasHeights, Number
<1>2. Levels!LooksBelow({})
  <2>1. SUFFICES ASSUME NEW f, NEW g, NEW n \in Nat, \A m \in Nat : m < n => f[m] = g[m]
                 PROVE  GrowLevel({}, f, n) = GrowLevel({}, g, n)
    BY DEF Levels!LooksBelow, Number, Anything
  <2>2. n # 0 => f[n - 1] = g[n - 1]
    BY <2>1
  <2>. QED BY <2>2 DEF GrowLevel
<1>3. Levels!Solution({}) = [n \in Nat |-> GrowLevel({}, Levels!Solution({}), n)]
  BY <1>1, <1>2, Levels!RecursionSolved
<1>4. Level = Levels!Solution({})
  BY DEF Level, Levels!Solution
<1>5. Level = [n \in Nat |-> GrowLevel({}, Level, n)]
  BY <1>3, <1>4, Zenon
<1>6. \A n \in Nat : Level[n] = GrowLevel({}, Level, n)
  <2>. HIDE DEF Level
  <2>. QED BY <1>5
<1>. QED BY <1>6 DEF GrowLevel

\* A level has the trees of the levels below it.
LEMMA LevelsGrow ==
  ASSUME GrowsMonotonely
  PROVE  \A n \in Nat : \A m \in Nat : m <= n => Level[m] \subseteq Level[n]
<1>. USE DEF GrowsMonotonely
<1>. DEFINE S == { n \in Nat : Level[n] \subseteq Level[n + 1] }
            T(m) == { n \in Nat : m <= n => Level[m] \subseteq Level[n] }
<1>1. ASSUME NEW n \in Nat, \A m \in Nat : m < n => m \in S PROVE n \in S
  <2>1. (IF n = 0 THEN {} ELSE Level[n - 1]) \subseteq Level[n]
    BY <1>1
  <2>2. Level[n + 1] = Grow(Level[n])
    BY LevelEquation
  <2>. QED BY <2>1, <2>2, LevelEquation
<1>2. Nat \subseteq S
  <2>. HIDE DEF S
  <2>. QED BY <1>1, Levels!CompleteInduction
<1>3. ASSUME NEW m \in Nat, NEW n \in Nat, \A k \in Nat : k < n => k \in T(m) PROVE n \in T(m)
  <2>1. CASE n <= m
    BY <2>1
  <2>2. CASE m < n
    <3>1. n - 1 \in S /\ n - 1 \in T(m)
      BY <1>2, <1>3, <2>2
    <3>. QED BY <2>2, <3>1
  <2>. QED BY <2>1, <2>2
<1>4. ASSUME NEW m \in Nat PROVE Nat \subseteq T(m)
  <2>. HIDE DEF T
  <2>. QED BY <1>3, <1>4, Levels!CompleteInduction
<1>. QED BY <1>4

\* A tree has a depth: it is in that level and in none below.
LEMMA DepthIsLeastLevel ==
  ASSUME MaxDepth \in Nat, NEW e \in Tree
  PROVE  Depth(e) \in Nat /\ e \in Level[Depth(e)]
         /\ \A m \in Nat : e \in Level[m] => Depth(e) <= m
<1>. DEFINE S == { n \in Nat : e \notin Level[n] }
<1>1. PICK n \in Nat : n \notin S /\ \A m \in Nat : m < n => m \in S
  <2>. HIDE DEF S
  <2>1. SUFFICES ASSUME \A n \in Nat : (\A m \in Nat : m < n => m \in S) => n \in S PROVE FALSE
    OBVIOUS
  <2>2. Nat \subseteq S
    BY <2>1, Levels!CompleteInduction
  <2>. QED BY <2>2 DEF S, Tree
<1>2. e \in Level[n] /\ \A m \in Nat : m < n => e \notin Level[m]
  BY <1>1
<1>3. Depth(e) \in Nat /\ e \in Level[Depth(e)] /\ \A m \in Nat : m < Depth(e) => e \notin Level[m]
  BY <1>2 DEF Depth
<1>. QED BY <1>3

\* A tree is made of operands that are trees of lesser depth.
LEMMA OperandsLieBelow ==
  ASSUME MaxDepth \in Nat, GrowsMonotonely, NEW e \in Tree
  PROVE  e \in Grow({ d \in Tree : Depth(d) < Depth(e) })
<1>. DEFINE n == Depth(e)
            below == IF n = 0 THEN {} ELSE Level[n - 1]
<1>1. n \in Nat /\ e \in Level[n] /\ n <= MaxDepth
  BY DepthIsLeastLevel DEF Tree
<1>2. e \in Grow(below)
  BY <1>1, LevelEquation
<1>3. ASSUME NEW d \in below PROVE d \in Tree /\ Depth(d) < n
  <2>1. n - 1 \in Nat /\ d \in Level[n - 1]
    BY <1>1, <1>3
  <2>2. d \in Tree
    BY <1>1, <2>1, LevelsGrow DEF Tree
  <2>. QED BY <1>1, <2>1, <2>2, DepthIsLeastLevel
<1>4. below \subseteq { d \in Tree : Depth(d) < Depth(e) }
  BY <1>3
<1>. QED BY <1>2, <1>4 DEF GrowsMonotonely

\* A tree is made of trees.
LEMMA OperandsAreTrees ==
  ASSUME MaxDepth \in Nat, GrowsMonotonely
  PROVE  Tree \subseteq Grow(Tree)
<1>1. ASSUME NEW e \in Tree PROVE e \in Grow(Tree)
  <2>1. { d \in Tree : Depth(d) < Depth(e) } \subseteq Tree
    OBVIOUS
  <2>. QED BY <2>1, OperandsLieBelow DEF GrowsMonotonely
<1>. QED BY <1>1

\* A recursive function on trees satisfies its equation.
LEMMA TreeRecursion ==
  ASSUME MaxDepth \in Nat, GrowsMonotonely, NEW p, UsesOperands(p)
  PROVE  Solution(p) = [e \in Tree |-> Step(p, Solution(p), e)]
<1>1. Functions!HasHeights
  BY DepthIsLeastLevel DEF Functions!HasHeights
<1>2. Functions!LooksBelow(p)
  <2>1. SUFFICES ASSUME NEW f, NEW g, NEW e \in Tree,
                        \A d \in Tree : Depth(d) < Depth(e) => f[d] = g[d]
                 PROVE  Step(p, f, e) = Step(p, g, e)
    BY DEF Functions!LooksBelow, Anything
  <2>2. e \in Grow({ d \in Tree : Depth(d) < Depth(e) })
    BY OperandsLieBelow
  <2>. QED BY <2>1, <2>2 DEF UsesOperands
<1>3. Functions!Solution(p) = [e \in Tree |-> Step(p, Functions!Solution(p), e)]
  BY <1>1, <1>2, Functions!RecursionSolved
<1>4. Solution(p) = Functions!Solution(p)
  BY DEF Solution, Functions!Solution
<1>. QED BY <1>3, <1>4, Zenon

\* Induction: what level n has if its nodes' operands have what level n - 1 has.
LEMMA TreeInduction ==
  ASSUME MaxDepth \in Nat, GrowsMonotonely, NEW S,
         \A n \in 0..MaxDepth : \A e \in Level[n] :
           e \in Grow(IF n = 0 THEN {} ELSE S[n - 1]) => e \in S[n]
  PROVE  \A n \in 0..MaxDepth : Level[n] \subseteq S[n]
<1>. DEFINE N == { n \in Nat : n <= MaxDepth => Level[n] \subseteq S[n] }
<1>1. ASSUME NEW n \in Nat, \A m \in Nat : m < n => m \in N PROVE n \in N
  <2>1. SUFFICES ASSUME n <= MaxDepth, NEW e \in Level[n] PROVE e \in S[n]
    OBVIOUS
  <2>2. e \in Grow(IF n = 0 THEN {} ELSE Level[n - 1])
    BY LevelEquation
  <2>3. n # 0 => Level[n - 1] \subseteq S[n - 1]
    BY <1>1, <2>1
  <2>4. (IF n = 0 THEN {} ELSE Level[n - 1]) \subseteq (IF n = 0 THEN {} ELSE S[n - 1])
    BY <2>3
  <2>5. e \in Grow(IF n = 0 THEN {} ELSE S[n - 1])
    BY <2>2, <2>4 DEF GrowsMonotonely
  <2>. QED BY <2>1, <2>5
<1>2. Nat \subseteq N
  <2>. HIDE DEF N
  <2>. QED BY <1>1, Levels!CompleteInduction
<1>. QED BY <1>2
=============================================================================

------------------------------ MODULE Recursion ------------------------------
(***************************************************************************)
(* Recursive functions.  A definition f[e \in S] == Step(p, f, e), for a    *)
(* parameter p, chooses a function that satisfies the equation, if there   *)
(* is one.  There is one when every element has a height and Step(p, f, e) *)
(* depends on f only at elements below e.  Which elements those are may    *)
(* depend on values of f, of which Fits says what is needed.  A module     *)
(* about such a function instantiates this one with the function's own     *)
(* domain, height and right-hand side.                                     *)
(***************************************************************************)
EXTENDS Integers, WellFoundedInduction, TLAPS

CONSTANTS Domain, Height(_), Step(_, _, _), Fits(_, _, _)

\* The least height is 0.
HasHeights == \A e \in Domain : Height(e) \in Nat

\* The values of f below e fit.
FitsBelow(p, f, e) == \A d \in Domain : Height(d) < Height(e) => Fits(p, d, f[d])

\* Step looks at lower elements only, and its value fits where theirs do.
LooksBelow(p) ==
  \A f, g : \A e \in Domain :
    FitsBelow(p, f, e) /\ (\A d \in Domain : Height(d) < Height(e) => f[d] = g[d]) =>
      Step(p, f, e) = Step(p, g, e) /\ Fits(p, e, Step(p, f, e))

\* Up to a height, f satisfies the equation, with values that fit.
SolvesBelow(p, f, n) ==
  \A e \in Domain : Height(e) < n => f[e] = Step(p, f, e) /\ Fits(p, e, f[e])

Solution(p) == CHOOSE f : f = [e \in Domain |-> Step(p, f, e)]

\* A set of naturals that has n whenever it has all smaller numbers is Nat.
LEMMA CompleteInduction ==
  ASSUME NEW S, \A n \in Nat : (\A m \in Nat : m < n => m \in S) => n \in S
  PROVE  Nat \subseteq S
<1>. DEFINE T == Nat \ S
<1>1. SUFFICES ASSUME T # {} PROVE FALSE
  OBVIOUS
<1>2. PICK n \in T : \A m \in T : ~ (<<m, n>> \in OpToRel(<, Nat))
  BY <1>1, NatLessThanWellFounded, WFMin
<1>3. \A m \in T : m < n => <<m, n>> \in OpToRel(<, Nat)
  BY DEF OpToRel
<1>4. \A m \in Nat : m < n => m \in S
  BY <1>2, <1>3
<1>. QED BY <1>4

\* Two solutions agree as far as both go.
LEMMA SolutionsAgree ==
  ASSUME NEW p, HasHeights, LooksBelow(p), NEW f, NEW g, NEW n \in Nat,
         SolvesBelow(p, f, n), SolvesBelow(p, g, n)
  PROVE  \A e \in Domain : Height(e) < n => f[e] = g[e]
<1>. DEFINE S == { m \in Nat : \A e \in Domain : Height(e) = m /\ m < n => f[e] = g[e] }
<1>1. ASSUME NEW m \in Nat, \A k \in Nat : k < m => k \in S PROVE m \in S
  <2>1. SUFFICES ASSUME NEW e \in Domain, Height(e) = m, m < n PROVE f[e] = g[e]
    OBVIOUS
  <2>2. \A d \in Domain : Height(d) < Height(e) => f[d] = g[d]
    BY <1>1, <2>1 DEF HasHeights
  <2>3. FitsBelow(p, f, e)
    BY <2>1 DEF SolvesBelow, FitsBelow, HasHeights
  <2>4. Step(p, f, e) = Step(p, g, e)
    BY <2>2, <2>3 DEF LooksBelow
  <2>. QED BY <2>1, <2>4 DEF SolvesBelow
<1>2. Nat \subseteq S
  <2>. HIDE DEF S
  <2>. QED BY <1>1, CompleteInduction
<1>. QED BY <1>2 DEF HasHeights

\* There is a solution up to every height.
LEMMA SolutionsExist ==
  ASSUME NEW p, HasHeights, LooksBelow(p)
  PROVE  \A n \in Nat : \E f : SolvesBelow(p, f, n)
<1>. DEFINE S == { n \in Nat : \E f : SolvesBelow(p, f, n) }
<1>1. ASSUME NEW n \in Nat, \A m \in Nat : m < n => m \in S PROVE n \in S
  <2>1. CASE n = 0
    BY <2>1 DEF SolvesBelow, HasHeights
  <2>2. CASE n # 0
    <3>1. PICK f : SolvesBelow(p, f, n - 1)
      BY <1>1, <2>2
    <3>. DEFINE g == [e \in Domain |-> Step(p, f, e)]
    <3>2. ASSUME NEW e \in Domain, Height(e) < n PROVE g[e] = Step(p, g, e) /\ Fits(p, e, g[e])
      <4>1. \A d \in Domain : Height(d) < Height(e) => f[d] = g[d] /\ Fits(p, d, f[d])
        BY <2>2, <3>1, <3>2 DEF HasHeights, SolvesBelow
      <4>. HIDE DEF g
      <4>2. FitsBelow(p, f, e)
        BY <4>1 DEF FitsBelow
      <4>3. Step(p, f, e) = Step(p, g, e) /\ Fits(p, e, Step(p, f, e))
        BY <4>1, <4>2 DEF LooksBelow
      <4>4. g[e] = Step(p, f, e)
        BY DEF g
      <4>. QED BY <4>3, <4>4
    <3>. HIDE DEF g
    <3>3. SolvesBelow(p, g, n)
      BY <3>2 DEF SolvesBelow
    <3>. QED BY <3>3
  <2>. QED BY <2>1, <2>2
<1>2. Nat \subseteq S
  <2>. HIDE DEF S
  <2>. QED BY <1>1, CompleteInduction
<1>. QED BY <1>2

\* The recursive function satisfies its equation, on the whole domain, and its
\* values fit.
LEMMA RecursionSolved ==
  ASSUME NEW p, HasHeights, LooksBelow(p)
  PROVE  /\ Solution(p) = [e \in Domain |-> Step(p, Solution(p), e)]
         /\ \A e \in Domain : Fits(p, e, Solution(p)[e])
<1>. DEFINE part(n) == CHOOSE f : SolvesBelow(p, f, n)
            whole == [e \in Domain |-> part(Height(e) + 1)[e]]
<1>1. \A n \in Nat : SolvesBelow(p, part(n), n)
  BY SolutionsExist
<1>. HIDE DEF part
<1>2. ASSUME NEW e \in Domain PROVE whole[e] = Step(p, whole, e)
  <2>1. Height(e) \in Nat
    BY DEF HasHeights
  <2>. DEFINE q == part(Height(e) + 1)
  <2>2. SolvesBelow(p, q, Height(e) + 1)
    BY <1>1, <2>1
  <2>3. ASSUME NEW d \in Domain, Height(d) < Height(e) PROVE whole[d] = q[d]
    <3>1. Height(d) \in Nat
      BY DEF HasHeights
    <3>2. SolvesBelow(p, part(Height(d) + 1), Height(d) + 1)
      BY <1>1, <3>1
    <3>3. SolvesBelow(p, q, Height(d) + 1)
      <4>. HIDE DEF q
      <4>. QED BY <2>1, <2>2, <2>3, <3>1 DEF SolvesBelow, HasHeights
    <3>4. part(Height(d) + 1)[d] = q[d]
      <4>. HIDE DEF q
      <4>. QED BY <3>1, <3>2, <3>3, SolutionsAgree
    <3>. QED BY <3>4
  <2>. HIDE DEF q
  <2>4. q[e] = Step(p, q, e)
    BY <2>1, <2>2 DEF SolvesBelow
  <2>5. whole[e] = q[e]
    BY DEF q
  <2>. HIDE DEF whole
  <2>6. FitsBelow(p, q, e)
    BY <2>1, <2>2 DEF SolvesBelow, FitsBelow, HasHeights
  <2>7. Step(p, whole, e) = Step(p, q, e)
    BY <2>3, <2>6 DEF LooksBelow
  <2>. QED BY <2>4, <2>5, <2>7
<1>3. whole = [e \in Domain |-> Step(p, whole, e)]
  <2>. DEFINE again == [e \in Domain |-> Step(p, whole, e)]
  <2>1. \A e \in Domain : whole[e] = again[e]
    BY <1>2
  <2>2. whole = [e \in Domain |-> whole[e]]
    OBVIOUS
  <2>. HIDE DEF whole
  <2>. QED BY <2>1, <2>2
<1>. HIDE DEF whole
<1>4. Solution(p) = [e \in Domain |-> Step(p, Solution(p), e)]
  BY <1>3 DEF Solution
<1>. DEFINE S == { n \in Nat : \A e \in Domain : Height(e) = n => Fits(p, e, Solution(p)[e]) }
<1>5. ASSUME NEW n \in Nat, \A m \in Nat : m < n => m \in S PROVE n \in S
  <2>1. SUFFICES ASSUME NEW e \in Domain, Height(e) = n PROVE Fits(p, e, Solution(p)[e])
    OBVIOUS
  <2>2. FitsBelow(p, Solution(p), e)
    BY <1>5, <2>1 DEF FitsBelow, HasHeights
  <2>3. Fits(p, e, Step(p, Solution(p), e))
    BY <2>2 DEF LooksBelow
  <2>. HIDE DEF S
  <2>4. Solution(p)[e] = Step(p, Solution(p), e)
    BY <1>4
  <2>. QED BY <2>3, <2>4
<1>6. Nat \subseteq S
  <2>. HIDE DEF S
  <2>. QED BY <1>5, CompleteInduction
<1>7. \A e \in Domain : Fits(p, e, Solution(p)[e])
  BY <1>6 DEF HasHeights
<1>. QED BY <1>4, <1>7
=============================================================================

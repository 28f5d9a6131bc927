----------------------------- MODULE FilesProofs -----------------------------
(***************************************************************************)
(* Proofs about ProjectFiles, for any set of paths and projects and any    *)
(* length of the list: the recent projects are the ones used last, and a   *)
(* window without the unsaved-changes mark shows what its file holds.      *)
(***************************************************************************)
EXTENDS ProjectFiles, SequenceTheorems, TLAPS

\* The clock of the history is not behind any use.
ClockIsAhead == \A path \in Paths : lastUse[path] <= uses

RecentsInv == TypeOK /\ RecentsAreLastUsed /\ ClockIsAhead

-----------------------------------------------------------------------------
(* Lists.                                                                  *)

\* Removing the one occurrence of a path keeps the others and their order.
LEMMA WithoutFacts ==
  ASSUME NEW list \in Seq(Paths), NEW path \in Paths,
         \A i, j \in DOMAIN list : list[i] = list[j] => i = j
  PROVE  LET w == Without(list, path)
         IN  /\ w \in Seq(Paths)
             /\ Len(w) = Len(list) \/ Len(w) = Len(list) - 1
             /\ \A k \in 1..Len(w) : w[k] # path
             /\ \A k, l \in 1..Len(w) : k < l =>
                  \E i, j \in 1..Len(list) : i < j /\ w[k] = list[i] /\ w[l] = list[j]
             /\ \A k \in 1..Len(w) : \E i \in 1..Len(list) : w[k] = list[i]
             /\ \A i \in 1..Len(list) : list[i] # path => \E k \in 1..Len(w) : w[k] = list[i]
<1>. DEFINE w == Without(list, path)
<1>0. DOMAIN list = 1..Len(list) /\ Len(list) \in Nat
  OBVIOUS
<1>1. CASE ~ \E i \in DOMAIN list : list[i] = path
  <2>1. w = list
    BY <1>1 DEF Without
  <2>. QED BY <1>0, <1>1, <2>1
<1>2. CASE \E i \in DOMAIN list : list[i] = path
  <2>. DEFINE r == CHOOSE i \in DOMAIN list : list[i] = path
              front == SubSeq(list, 1, r - 1)
              back  == SubSeq(list, r + 1, Len(list))
  <2>1. r \in 1..Len(list) /\ list[r] = path
    BY <1>0, <1>2
  <2>2. w = front \o back
    BY <1>2 DEF Without, RemoveAt
  <2>. HIDE DEF r, w
  <2>3. front \in Seq(Paths) /\ Len(front) = r - 1 /\ \A k \in 1..(r - 1) : front[k] = list[k]
    BY <1>0, <2>1
  <2>4. /\ back \in Seq(Paths) /\ Len(back) = Len(list) - r
        /\ \A k \in 1..(Len(list) - r) : back[k] = list[r + k]
    <3>1. \A i \in (r + 1)..Len(list) : list[i] \in Paths
      BY <1>0, <2>1
    <3>2. /\ back \in Seq(Paths)
          /\ Len(back) = IF r + 1 <= Len(list) THEN Len(list) - (r + 1) + 1 ELSE 0
          /\ \A k \in 1..(Len(list) - (r + 1) + 1) : back[k] = list[(r + 1) + k - 1]
      BY <1>0, <2>1, <3>1, SubSeqProperties
    <3>. HIDE DEF back
    <3>3. Len(back) = Len(list) - r
      <4>1. Len(back) = IF r + 1 <= Len(list) THEN Len(list) - (r + 1) + 1 ELSE 0
        BY <3>2
      <4>2. Len(list) \in Nat /\ r \in Nat /\ r <= Len(list)
        BY <1>0, <2>1
      <4>. QED BY <4>1, <4>2
    <3>4. ASSUME NEW k \in 1..(Len(list) - r)
          PROVE  back[k] = list[r + k]
      <4>1. k \in 1..(Len(list) - (r + 1) + 1) /\ (r + 1) + k - 1 = r + k
        BY <1>0, <2>1
      <4>. QED BY <3>2, <4>1
    <3>. QED BY <3>2, <3>3, <3>4
  <2>. HIDE DEF front, back
  <2>5. /\ w \in Seq(Paths)
        /\ Len(w) = Len(front) + Len(back)
        /\ \A k \in 1..(Len(front) + Len(back)) :
             w[k] = IF k <= Len(front) THEN front[k] ELSE back[k - Len(front)]
    BY <2>2, <2>3, <2>4, ConcatProperties, ZenonT(40)
  <2>6. Len(w) = Len(list) - 1
    BY <1>0, <2>1, <2>3, <2>4, <2>5
  <2>7. \A k \in 1..Len(w) : w[k] = IF k < r THEN list[k] ELSE list[k + 1]
    <3>1. SUFFICES ASSUME NEW k \in 1..Len(w)
                   PROVE  w[k] = IF k < r THEN list[k] ELSE list[k + 1]
      OBVIOUS
    <3>2. CASE k < r
      BY <1>0, <2>1, <2>3, <2>4, <2>5, <3>2
    <3>3. CASE ~(k < r)
      <4>1. k - (r - 1) \in 1..(Len(list) - r) /\ r + (k - (r - 1)) = k + 1
        BY <1>0, <2>1, <2>6, <3>3
      <4>2. w[k] = back[k - (r - 1)]
        BY <1>0, <2>1, <2>3, <2>4, <2>5, <3>3
      <4>. QED BY <2>4, <4>1, <4>2, <3>3
    <3>. QED BY <3>2, <3>3
  <2>8. \A k \in 1..Len(w) : w[k] # path
    BY <1>0, <2>1, <2>6, <2>7
  <2>9. \A k, l \in 1..Len(w) : k < l =>
          \E i, j \in 1..Len(list) : i < j /\ w[k] = list[i] /\ w[l] = list[j]
    <3>1. SUFFICES ASSUME NEW k \in 1..Len(w), NEW l \in 1..Len(w), k < l
                   PROVE  \E i, j \in 1..Len(list) : i < j /\ w[k] = list[i] /\ w[l] = list[j]
      OBVIOUS
    <3>. DEFINE at(m) == IF m < r THEN m ELSE m + 1
    <3>2. at(k) \in 1..Len(list) /\ at(l) \in 1..Len(list) /\ at(k) < at(l)
      BY <1>0, <2>1, <2>6, <3>1
    <3>3. w[k] = list[at(k)] /\ w[l] = list[at(l)]
      BY <2>7
    <3>. HIDE DEF at
    <3>. QED BY <3>2, <3>3
  <2>10. \A k \in 1..Len(w) : \E i \in 1..Len(list) : w[k] = list[i]
    BY <1>0, <2>1, <2>6, <2>7
  <2>11. \A i \in 1..Len(list) : list[i] # path => \E k \in 1..Len(w) : w[k] = list[i]
    <3>1. SUFFICES ASSUME NEW i \in 1..Len(list), list[i] # path
                   PROVE  \E k \in 1..Len(w) : w[k] = list[i]
      OBVIOUS
    <3>2. CASE i < r
      <4>1. i \in 1..Len(w) /\ w[i] = list[i]
        BY <1>0, <2>1, <2>6, <2>7, <3>2
      <4>. QED BY <4>1
    <3>3. CASE i > r
      <4>1. i - 1 \in 1..Len(w) /\ w[i - 1] = list[i]
        BY <1>0, <2>1, <2>6, <2>7, <3>3
      <4>. QED BY <4>1
    <3>. QED BY <1>0, <2>1, <3>1, <3>2, <3>3
  <2>. QED BY <2>5, <2>6, <2>8, <2>9, <2>10, <2>11 DEF w
<1>. QED BY <1>1, <1>2

\* What remembering a path does to the list: the path comes first, and the
\* others follow until the list is full.
LEMMA RememberFacts ==
  ASSUME NEW list \in Seq(Paths), NEW path \in Paths,
         \A i, j \in DOMAIN list : list[i] = list[j] => i = j
  PROVE  LET w    == Without(list, path)
             full == Trimmed(<<path>> \o w)
         IN  /\ full \in Seq(Paths)
             /\ Len(full) = IF Len(w) < MaxRecentProjects THEN Len(w) + 1 ELSE MaxRecentProjects
             /\ full[1] = path
             /\ \A k \in 2..Len(full) : k - 1 \in 1..Len(w) /\ full[k] = w[k - 1]
<1>. DEFINE w   == Without(list, path)
            all == <<path>> \o w
<1>1. w \in Seq(Paths) /\ Len(w) \in Nat
  <2>1. w \in Seq(Paths)
    BY WithoutFacts
  <2>. HIDE DEF w
  <2>. QED BY <2>1
<1>2. MaxRecentProjects \in Nat \ {0}
  BY FilesAssumption
<1>. HIDE DEF w
<1>3. <<path>> \in Seq(Paths) /\ Len(<<path>>) = 1 /\ <<path>>[1] = path
  OBVIOUS
<1>4. /\ all \in Seq(Paths)
      /\ Len(all) = 1 + Len(w)
      /\ \A k \in 1..(1 + Len(w)) : all[k] = IF k <= 1 THEN <<path>>[k] ELSE w[k - 1]
  BY <1>1, <1>3, ConcatProperties
<1>5. all[1] = path /\ \A k \in 2..Len(all) : k - 1 \in 1..Len(w) /\ all[k] = w[k - 1]
  BY <1>1, <1>3, <1>4
<1>. HIDE DEF all
<1>6. CASE Len(all) > MaxRecentProjects
  <2>1. Trimmed(all) = SubSeq(all, 1, MaxRecentProjects)
    BY <1>6 DEF Trimmed
  <2>2. /\ SubSeq(all, 1, MaxRecentProjects) \in Seq(Paths)
        /\ Len(SubSeq(all, 1, MaxRecentProjects)) = MaxRecentProjects
        /\ \A k \in 1..MaxRecentProjects : SubSeq(all, 1, MaxRecentProjects)[k] = all[k]
    BY <1>2, <1>4, <1>6
  <2>3. Len(w) >= MaxRecentProjects
    BY <1>1, <1>2, <1>4, <1>6
  <2>4. \A k \in 2..MaxRecentProjects : k \in 2..Len(all) /\ k \in 1..MaxRecentProjects
    BY <1>1, <1>2, <1>4, <2>3
  <2>. DEFINE full == Trimmed(all)
  <2>5. /\ full \in Seq(Paths)
        /\ Len(full) = MaxRecentProjects
        /\ full[1] = path
        /\ \A k \in 2..Len(full) : k - 1 \in 1..Len(w) /\ full[k] = w[k - 1]
    BY <1>1, <1>2, <1>5, <2>1, <2>2, <2>3, <2>4
  <2>6. Len(full) = IF Len(w) < MaxRecentProjects THEN Len(w) + 1 ELSE MaxRecentProjects
    BY <1>1, <1>2, <2>3, <2>5
  <2>. HIDE DEF full
  <2>7. full \in Seq(Paths) /\ full[1] = path
    BY <2>5
  <2>8. \A k \in 2..Len(full) : k - 1 \in 1..Len(w) /\ full[k] = w[k - 1]
    BY <2>5
  <2>9. full = Trimmed(<<path>> \o w)
    BY DEF full, all
  <2>. QED BY <2>6, <2>7, <2>8, <2>9, Zenon DEF w
<1>7. CASE ~(Len(all) > MaxRecentProjects)
  <2>1. Trimmed(all) = all
    BY <1>7 DEF Trimmed
  <2>2. Len(w) < MaxRecentProjects
    BY <1>1, <1>2, <1>4, <1>7
  <2>3. all \in Seq(Paths) /\ all[1] = path
    BY <1>4, <1>5
  <2>4. Len(all) = IF Len(w) < MaxRecentProjects THEN Len(w) + 1 ELSE MaxRecentProjects
    BY <1>1, <1>4, <2>2
  <2>5. all = Trimmed(<<path>> \o w)
    BY <2>1 DEF all
  <2>. QED BY <1>5, <2>3, <2>4, <2>5, Zenon DEF w
<1>. QED BY <1>6, <1>7

-----------------------------------------------------------------------------
(* Types.                                                                  *)

\* A target of a save is a path.
LEMMA SaveTargetsType == TypeOK => SaveTargets \subseteq Paths
  BY FilesAssumption DEF SaveTargets, TypeOK

\* A list that is sorted by the last use holds no path twice.
LEMMA NoPathTwice ==
  TypeOK /\ RecentsAreLastUsed => \A i, j \in DOMAIN recents : recents[i] = recents[j] => i = j
<1>1. SUFFICES ASSUME TypeOK, RecentsAreLastUsed,
                      NEW i \in DOMAIN recents, NEW j \in DOMAIN recents, recents[i] = recents[j]
               PROVE  i = j
  OBVIOUS
<1>2. i \in Nat /\ j \in Nat /\ recents[i] \in Paths
  BY <1>1 DEF TypeOK
<1>3. lastUse[recents[i]] \in Nat
  BY <1>1, <1>2 DEF TypeOK
<1>4. ~(i < j) /\ ~(j < i)
  BY <1>1, <1>2, <1>3 DEF RecentsAreLastUsed
<1>. QED BY <1>2, <1>4

\* Using a path and remembering it keeps the list, its order and the clock.
LEMMA UseKeepsRecents ==
  ASSUME RecentsInv, NEW path \in Paths, RememberRecentProject(path), Uses(path)
  PROVE  /\ recents' \in Seq(Paths) /\ uses' \in Nat /\ lastUse' \in [Paths -> Nat]
         /\ RecentsAreLastUsed' /\ ClockIsAhead'
<1>. DEFINE w    == Without(recents, path)
            full == Trimmed(<<path>> \o w)
<1>1. recents \in Seq(Paths) /\ uses \in Nat /\ lastUse \in [Paths -> Nat]
  BY DEF RecentsInv, TypeOK
<1>2. \A i, j \in DOMAIN recents : recents[i] = recents[j] => i = j
  BY NoPathTwice DEF RecentsInv
<1>3. /\ w \in Seq(Paths)
      /\ Len(w) = Len(recents) \/ Len(w) = Len(recents) - 1
      /\ \A k \in 1..Len(w) : w[k] # path
      /\ \A k, l \in 1..Len(w) : k < l =>
           \E i, j \in 1..Len(recents) : i < j /\ w[k] = recents[i] /\ w[l] = recents[j]
      /\ \A k \in 1..Len(w) : \E i \in 1..Len(recents) : w[k] = recents[i]
      /\ \A i \in 1..Len(recents) : recents[i] # path => \E k \in 1..Len(w) : w[k] = recents[i]
  BY <1>1, <1>2, WithoutFacts
<1>4. /\ full \in Seq(Paths)
      /\ Len(full) = IF Len(w) < MaxRecentProjects THEN Len(w) + 1 ELSE MaxRecentProjects
      /\ full[1] = path
      /\ \A k \in 2..Len(full) : k - 1 \in 1..Len(w) /\ full[k] = w[k - 1]
  BY <1>1, <1>2, RememberFacts
<1>5. recents' = full
  BY DEF RememberRecentProject
<1>. HIDE DEF w, full
<1>6. uses' = uses + 1 /\ lastUse' = [lastUse EXCEPT ![path] = uses + 1]
  BY DEF Uses
<1>7. lastUse'[path] = uses + 1 /\ \A q \in Paths : q # path => lastUse'[q] = lastUse[q]
  BY <1>1, <1>6
<1>8. \A q \in Paths : lastUse[q] \in Nat /\ lastUse[q] <= uses
  BY <1>1 DEF RecentsInv, ClockIsAhead
<1>9. /\ Len(recents) \in Nat /\ DOMAIN recents = 1..Len(recents)
      /\ \A i \in 1..Len(recents) : recents[i] \in Paths
      /\ Len(w) \in Nat /\ Len(full) \in Nat /\ DOMAIN full = 1..Len(full)
  BY <1>1, <1>3, <1>4
<1>10. MaxRecentProjects \in Nat \ {0}
  BY FilesAssumption
<1>11. /\ Len(recents) <= MaxRecentProjects
       /\ \A i \in 1..Len(recents) : lastUse[recents[i]] > 0
       /\ \A i, j \in 1..Len(recents) : i < j => lastUse[recents[i]] > lastUse[recents[j]]
       /\ \A q \in Paths :
            lastUse[q] > 0 /\ (\A i \in 1..Len(recents) : recents[i] # q) =>
              /\ Len(recents) = MaxRecentProjects
              /\ \A i \in 1..Len(recents) : lastUse[recents[i]] > lastUse[q]
  BY <1>9 DEF RecentsInv, RecentsAreLastUsed
\* The entries behind the first are old ones, still in order.
<1>12. \A k \in 1..Len(w) :
         w[k] \in Paths /\ w[k] # path /\ lastUse'[w[k]] = lastUse[w[k]] /\ lastUse[w[k]] > 0
  BY <1>3, <1>7, <1>9, <1>11
<1>13. \A k, l \in 1..Len(w) : k < l => lastUse[w[k]] > lastUse[w[l]]
  <2>1. SUFFICES ASSUME NEW k \in 1..Len(w), NEW l \in 1..Len(w), k < l
                 PROVE  lastUse[w[k]] > lastUse[w[l]]
    OBVIOUS
  <2>2. PICK i, j \in 1..Len(recents) : i < j /\ w[k] = recents[i] /\ w[l] = recents[j]
    BY <1>3, <2>1
  <2>3. lastUse[recents[i]] > lastUse[recents[j]]
    BY <1>11, <2>2
  <2>. QED BY <2>2, <2>3
<1>14. Len(full) <= MaxRecentProjects
  BY <1>4, <1>9, <1>10
<1>15. \A i \in 1..Len(full) : lastUse'[full[i]] > 0
  <2>1. SUFFICES ASSUME NEW i \in 1..Len(full) PROVE lastUse'[full[i]] > 0
    OBVIOUS
  <2>2. CASE i = 1
    BY <1>1, <1>4, <1>7, <2>2
  <2>3. CASE i # 1
    <3>1. i \in 2..Len(full)
      BY <1>9, <2>3
    <3>. QED BY <1>4, <1>12, <3>1
  <2>. QED BY <2>2, <2>3
<1>16. \A i, j \in 1..Len(full) : i < j => lastUse'[full[i]] > lastUse'[full[j]]
  <2>1. SUFFICES ASSUME NEW i \in 1..Len(full), NEW j \in 1..Len(full), i < j
                 PROVE  lastUse'[full[i]] > lastUse'[full[j]]
    OBVIOUS
  <2>2. j \in 2..Len(full)
    BY <1>9, <2>1
  <2>3. j - 1 \in 1..Len(w) /\ full[j] = w[j - 1]
    BY <1>4, <2>2
  <2>4. CASE i = 1
    <3>1. lastUse'[full[i]] = uses + 1
      BY <1>4, <1>7, <2>4
    <3>2. lastUse[w[j - 1]] <= uses /\ lastUse[w[j - 1]] \in Nat
      BY <1>8, <1>12, <2>3
    <3>3. lastUse'[full[j]] = lastUse[w[j - 1]]
      BY <1>12, <2>3
    <3>. QED BY <1>1, <3>1, <3>2, <3>3
  <2>5. CASE i # 1
    <3>1. i \in 2..Len(full)
      BY <1>9, <2>5
    <3>2. i - 1 \in 1..Len(w) /\ full[i] = w[i - 1]
      BY <1>4, <3>1
    <3>3. i - 1 < j - 1
      BY <2>1
    <3>4. lastUse[w[i - 1]] > lastUse[w[j - 1]]
      BY <1>13, <2>3, <3>2, <3>3
    <3>. QED BY <1>12, <2>3, <3>2, <3>4
  <2>. QED BY <2>4, <2>5
<1>17. \A q \in Paths :
         lastUse'[q] > 0 /\ (\A i \in 1..Len(full) : full[i] # q) =>
           /\ Len(full) = MaxRecentProjects
           /\ \A i \in 1..Len(full) : lastUse'[full[i]] > lastUse'[q]
  <2>1. SUFFICES ASSUME NEW q \in Paths, lastUse'[q] > 0, \A i \in 1..Len(full) : full[i] # q
                 PROVE  /\ Len(full) = MaxRecentProjects
                        /\ \A i \in 1..Len(full) : lastUse'[full[i]] > lastUse'[q]
    OBVIOUS
  <2>2. 1 \in 1..Len(full)
    BY <1>4, <1>9, <1>10
  <2>3. q # path
    BY <1>4, <2>1, <2>2
  <2>4. lastUse'[q] = lastUse[q] /\ lastUse[q] \in Nat /\ lastUse[q] <= uses
    BY <1>7, <1>8, <2>3
  \* q was dropped by the trim, or had been dropped before.
  <2>5. /\ Len(w) >= MaxRecentProjects - 1
        /\ Len(full) = MaxRecentProjects
        /\ \A k \in 1..Len(w) : k < Len(full) => lastUse[w[k]] > lastUse[q]
    <3>1. CASE \E l \in 1..Len(w) : w[l] = q
      <4>1. PICK l \in 1..Len(w) : w[l] = q
        BY <3>1
      <4>2. l >= Len(full)
        <5>1. SUFFICES ASSUME l < Len(full) PROVE FALSE
          BY <1>9, <4>1
        <5>2. l + 1 \in 2..Len(full) /\ (l + 1) - 1 = l
          BY <1>9, <4>1, <5>1
        <5>3. full[l + 1] = w[l]
          BY <1>4, <5>2
        <5>4. l + 1 \in 1..Len(full)
          BY <5>2
        <5>. QED BY <2>1, <4>1, <5>3, <5>4
      <4>3. Len(w) >= Len(full)
        BY <1>9, <4>1, <4>2
      <4>4. Len(w) >= MaxRecentProjects /\ Len(full) = MaxRecentProjects
        BY <1>4, <1>9, <1>10, <4>3
      <4>5. \A k \in 1..Len(w) : k < Len(full) => lastUse[w[k]] > lastUse[q]
        BY <1>9, <1>13, <4>1, <4>2
      <4>. QED BY <1>9, <1>10, <4>4, <4>5
    <3>2. CASE ~ \E l \in 1..Len(w) : w[l] = q
      <4>1. \A i \in 1..Len(recents) : recents[i] # q
        BY <1>3, <2>3, <3>2, ZenonT(40)
      <4>2. /\ Len(recents) = MaxRecentProjects
            /\ \A i \in 1..Len(recents) : lastUse[recents[i]] > lastUse[q]
        BY <1>11, <2>1, <2>4, <4>1
      <4>3. Len(w) >= MaxRecentProjects - 1 /\ Len(full) = MaxRecentProjects
        BY <1>3, <1>4, <1>9, <1>10, <4>2
      <4>4. \A k \in 1..Len(w) : lastUse[w[k]] > lastUse[q]
        BY <1>3, <4>2
      <4>. QED BY <4>3, <4>4
    <3>. QED BY <3>1, <3>2
  <2>6. \A i \in 1..Len(full) : lastUse'[full[i]] > lastUse'[q]
    <3>1. SUFFICES ASSUME NEW i \in 1..Len(full) PROVE lastUse'[full[i]] > lastUse'[q]
      OBVIOUS
    <3>2. CASE i = 1
      <4>1. lastUse'[full[i]] = uses + 1
        BY <1>4, <1>7, <3>2
      <4>. QED BY <1>1, <2>4, <4>1
    <3>3. CASE i # 1
      <4>1. i \in 2..Len(full)
        BY <1>9, <3>3
      <4>2. i - 1 \in 1..Len(w) /\ full[i] = w[i - 1] /\ i - 1 < Len(full)
        BY <1>4, <1>9, <4>1
      <4>3. lastUse[w[i - 1]] > lastUse[q]
        BY <2>5, <4>2
      <4>. QED BY <1>12, <2>4, <4>2, <4>3
    <3>. QED BY <3>2, <3>3
  <2>. QED BY <2>5, <2>6
<1>18. ClockIsAhead'
  <2>1. SUFFICES ASSUME NEW q \in Paths PROVE lastUse'[q] <= uses'
    BY DEF ClockIsAhead
  <2>2. CASE q = path
    BY <1>1, <1>6, <1>7, <2>2
  <2>3. CASE q # path
    BY <1>1, <1>6, <1>7, <1>8, <2>3
  <2>. QED BY <2>2, <2>3
<1>19. RecentsAreLastUsed'
  BY <1>5, <1>9, <1>14, <1>15, <1>16, <1>17 DEF RecentsAreLastUsed
<1>. QED BY <1>1, <1>4, <1>5, <1>6, <1>18, <1>19

-----------------------------------------------------------------------------
(* The recent projects.                                                    *)

\* The first session starts with an empty list.
LEMMA InitRecents == Init => RecentsInv
<1>1. SUFFICES ASSUME Init PROVE RecentsInv
  OBVIOUS
<1>2. recents = <<>>
  BY <1>1 DEF Init
<1>3. recents \in Seq(Paths) /\ Len(recents) = 0 /\ DOMAIN recents = {}
  BY <1>2
<1>4. TypeOK
  BY <1>1, <1>3, FilesAssumption DEF Init, TypeOK
<1>5. lastUse = [path \in Paths |-> 0] /\ uses = 0
  BY <1>1 DEF Init
<1>6. RecentsAreLastUsed
  BY <1>3, <1>5, FilesAssumption DEF RecentsAreLastUsed
<1>. QED BY <1>4, <1>5, <1>6 DEF RecentsInv, ClockIsAhead

\* A step that uses no path leaves the list and its history alone.
LEMMA KeptRecents ==
  RecentsInv /\ UNCHANGED recentVars =>
    /\ recents' \in Seq(Paths) /\ uses' \in Nat /\ lastUse' \in [Paths -> Nat]
    /\ RecentsAreLastUsed' /\ ClockIsAhead'
  BY DEF RecentsInv, TypeOK, recentVars, RecentsAreLastUsed, ClockIsAhead

\* Every open, save, failing save, crash and restart keeps the list in order.
LEMMA NextRecents == RecentsInv /\ [Next]_vars => RecentsInv'
<1>1. SUFFICES ASSUME RecentsInv, [Next]_vars PROVE RecentsInv'
  OBVIOUS
<1>. USE DEF windowVars
<1>2. TypeOK
  BY <1>1 DEF RecentsInv
<1>. DEFINE Goal == /\ disk' \in [Paths -> Projects \union {Missing, Torn}]
                    /\ project' \in Projects
                    /\ projectPath' \in Paths \union {NoPath}
                    /\ dirty' \in BOOLEAN /\ busy' \in BOOLEAN
                    /\ \/ UNCHANGED recentVars
                       \/ \E path \in Paths : RememberRecentProject(path) /\ Uses(path)
<1>0. SUFFICES Goal
  BY <1>1, UseKeepsRecents, KeptRecents DEF RecentsInv, TypeOK
<1>3. ASSUME NEW path \in Paths, LoadFromPath(path) PROVE Goal
  BY <1>2, <1>3, FilesAssumption DEF LoadFromPath, TypeOK
<1>4. ASSUME NEW path \in Paths, SaveToPath(path) PROVE Goal
  BY <1>2, <1>4 DEF SaveToPath, TypeOK
<1>5. CASE OpenProject
  BY <1>3, <1>5 DEF OpenProject
<1>6. CASE OpenRecent
  <2>1. PICK i \in DOMAIN recents : LoadFromPath(recents[i])
    BY <1>6 DEF OpenRecent
  <2>2. recents[i] \in Paths
    BY <1>2, <2>1 DEF TypeOK
  <2>. QED BY <1>3, <2>1, <2>2
<1>7. CASE SaveProject
  BY <1>2, <1>4, <1>7 DEF SaveProject, TypeOK
<1>8. CASE SaveProjectAs
  BY <1>4, <1>8, FilesAssumption DEF SaveProjectAs
<1>9. ASSUME NEW p \in Projects, Edit(p) PROVE Goal
  BY <1>2, <1>9 DEF Edit, TypeOK
<1>10. CASE SetBusy
  BY <1>2, <1>10 DEF SetBusy, TypeOK
<1>11. ASSUME NEW path \in SaveTargets, SaveFails(path) PROVE Goal
  <2>1. path \in Paths
    BY <1>2, SaveTargetsType
  <2>. QED BY <1>2, <1>11, <2>1 DEF SaveFails, TypeOK
<1>12. CASE Restart
  BY <1>2, <1>12, FilesAssumption DEF Restart, NewSession, TypeOK
<1>13. ASSUME NEW path \in SaveTargets, CrashWhileSaving(path) PROVE Goal
  <2>1. path \in Paths
    BY <1>2, SaveTargetsType
  <2>2. PICK content \in {Torn, project} : disk' = [disk EXCEPT ![path] = content]
    BY <1>13 DEF CrashWhileSaving
  <2>3. disk' \in [Paths -> Projects \union {Missing, Torn}]
    BY <1>2, <2>1, <2>2 DEF TypeOK
  <2>4. /\ project' = Untitled /\ projectPath' = NoPath /\ dirty' = TRUE /\ busy' = FALSE
        /\ UNCHANGED recentVars
    BY <1>13 DEF CrashWhileSaving, NewSession
  <2>. QED BY <2>3, <2>4, FilesAssumption
<1>14. ASSUME NEW path \in Paths, FileDisappears(path) PROVE Goal
  BY <1>2, <1>14 DEF FileDisappears, TypeOK
<1>15. CASE UNCHANGED vars
  BY <1>2, <1>15 DEF vars, recentVars, TypeOK
<1>. QED
  BY <1>1, <1>5, <1>6, <1>7, <1>8, <1>9, <1>10, <1>11, <1>12, <1>13, <1>14, <1>15 DEF Next

\* Open Recent lists exactly the last used paths, latest first and each once,
\* for any number of paths, any length of the list and any number of sessions
\* (rememberRecentProject).
THEOREM RecentsCorrect == Spec => []RecentsAreLastUsed
<1>1. RecentsInv => RecentsAreLastUsed
  BY DEF RecentsInv
<1>. QED BY <1>1, InitRecents, NextRecents, PTL DEF Spec

-----------------------------------------------------------------------------
(* The window and its file.                                                *)

\* Every step keeps the window's file in line with what the window shows.
LEMMA NextWindow ==
  TypeOK /\ WindowFitsItsFile /\ [Next]_vars => WindowFitsItsFile'
<1>1. SUFFICES ASSUME TypeOK, WindowFitsItsFile, [Next]_vars PROVE WindowFitsItsFile'
  OBVIOUS
<1>. USE DEF windowVars, WindowFitsItsFile
<1>3. ASSUME NEW path \in Paths, LoadFromPath(path) PROVE WindowFitsItsFile'
  BY <1>3, FilesAssumption DEF LoadFromPath
<1>4. ASSUME NEW path \in Paths, SaveToPath(path) PROVE WindowFitsItsFile'
  BY <1>1, <1>4, FilesAssumption DEF SaveToPath, TypeOK
<1>5. CASE OpenProject
  BY <1>3, <1>5 DEF OpenProject
<1>6. CASE OpenRecent
  <2>1. PICK i \in DOMAIN recents : LoadFromPath(recents[i])
    BY <1>6 DEF OpenRecent
  <2>2. recents[i] \in Paths
    BY <1>1, <2>1 DEF TypeOK
  <2>. QED BY <1>3, <2>1, <2>2
<1>7. CASE SaveProject
  BY <1>1, <1>4, <1>7 DEF SaveProject, TypeOK
<1>8. CASE SaveProjectAs
  BY <1>4, <1>8, FilesAssumption DEF SaveProjectAs
<1>9. ASSUME NEW p \in Projects, Edit(p) PROVE WindowFitsItsFile'
  BY <1>9 DEF Edit
<1>10. CASE SetBusy
  BY <1>1, <1>10 DEF SetBusy
<1>11. ASSUME NEW path \in SaveTargets, SaveFails(path) PROVE WindowFitsItsFile'
  BY <1>1, <1>11 DEF SaveFails, TypeOK
<1>12. CASE Restart
  BY <1>12 DEF Restart, NewSession
<1>13. ASSUME NEW path \in SaveTargets, CrashWhileSaving(path) PROVE WindowFitsItsFile'
  BY <1>13 DEF CrashWhileSaving, NewSession
<1>14. ASSUME NEW path \in Paths, FileDisappears(path) PROVE WindowFitsItsFile'
  BY <1>1, <1>14 DEF FileDisappears, TypeOK
<1>15. CASE UNCHANGED vars
  BY <1>1, <1>15 DEF vars
<1>. QED
  BY <1>1, <1>5, <1>6, <1>7, <1>8, <1>9, <1>10, <1>11, <1>12, <1>13, <1>14, <1>15 DEF Next

\* A window without the unsaved-changes mark shows what its file holds, unless
\* a failed save tore the file or it was deleted (loadFromPath, saveToPath).
THEOREM WindowIsItsFile == Spec => []WindowFitsItsFile
<1>1. Init => WindowFitsItsFile
  BY DEF Init, WindowFitsItsFile
<1>2. RecentsInv => TypeOK
  BY DEF RecentsInv
<1>. QED BY <1>1, <1>2, InitRecents, NextRecents, NextWindow, PTL DEF Spec
=============================================================================

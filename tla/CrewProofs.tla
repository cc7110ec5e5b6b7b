----------------------------- MODULE CrewProofs -----------------------------
(***************************************************************************)
(* Proofs about agent runs and what they share, module AgentRun: for any   *)
(* number of runs, plans of any length, and any hooks, tools and peers.    *)
(***************************************************************************)
EXTENDS AgentRun, FiniteSetTheorems, NaturalsInduction, WellFoundedInduction, TLAPS

-----------------------------------------------------------------------------
(* Hooks.  Append in place happens to the arrays of event lists only, which*)
(* no other list and no Fire has: so the array a Fire reads never changes. *)

Names == Points \cup EventNames

Slice(ars, s) ==
  /\ s \in [array : Nat, len : Nat]
  /\ s.array = 0 => s.len = 0
  /\ s.array # 0 => s.array \in DOMAIN ars /\ s.len <= Len(ars[s.array])

\* The arrays and the lists in them.
ListsInv(ars, ls) ==
  /\ ars \in Seq(Seq(HookNames))
  /\ DOMAIN ls = Names /\ \A p \in Names : Slice(ars, ls[p])
  /\ \A e \in EventNames, p \in Names :
       p # e /\ ls[e].array # 0 => ls[p].array # ls[e].array

\* A Fire or an Emit that has called the first next - 1 of those it is to.
FireInv(ars, ls, g) ==
  /\ Slice(ars, g.slice) /\ g.next \in Nat \ {0}
  /\ g.due \in Seq(HookNames)
  /\ g.next <= Len(g.due) + 1
  /\ g.heard = SubSeq(g.due, 1, g.next - 1)
  /\ IF g.slice.array # 0
     THEN /\ g.copy = <<>> /\ g.due = SubSeq(ars[g.slice.array], 1, g.slice.len)
          /\ \A e \in EventNames : ls[e].array # g.slice.array
     ELSE g.copy = g.due
  /\ g = [x \in {"slice", "copy", "next", "heard", "due", "vetoed"} |-> g[x]]

HooksInv ==
  /\ ListsInv(arrays, lists)
  /\ DOMAIN firing = Firers /\ \A f \in Firers : FireInv(arrays, lists, firing[f])

\* What a step does to the hooks.
HookStep ==
  \/ UNCHANGED hookVars
  \/ \E f \in Firers, p \in Names : StartFiring(f, p)
  \/ \E f \in Firers : CallHandler(f)
  \/ \E name \in HookNames, p \in Points : AddHook(p, name) \/ RemoveHook(p, name)
  \/ \E name \in HookNames, e \in EventNames : Subscribe(e, name)

\* What a slice shows of its array is a list of its length.
LEMMA ContentsOfSlice ==
  ASSUME NEW ars, ars \in Seq(Seq(HookNames)), NEW s, Slice(ars, s), s.array # 0
  PROVE  /\ ars[s.array] \in Seq(HookNames)
         /\ SubSeq(ars[s.array], 1, s.len) \in Seq(HookNames)
         /\ Len(SubSeq(ars[s.array], 1, s.len)) = s.len
  <1>1. s.len \in Nat /\ s.array \in DOMAIN ars /\ s.len <= Len(ars[s.array])
    BY DEF Slice
  <1>2. ars[s.array] \in Seq(HookNames)
    BY <1>1
  <1> QED  BY <1>1, <1>2

\* The lists of the registry and of the bus are lists of names.
LEMMA ContentsAreNames ==
  ASSUME ListsInv(arrays, lists), NEW p \in Names
  PROVE  /\ Contents(lists[p]) \in Seq(HookNames)
         /\ Len(Contents(lists[p])) = lists[p].len
  <1>1. Slice(arrays, lists[p]) /\ arrays \in Seq(Seq(HookNames))
    BY DEF ListsInv
  <1>2. CASE lists[p].array = 0
    BY <1>1, <1>2 DEF Slice, Contents
  <1>3. CASE lists[p].array # 0
    BY <1>1, <1>3, ContentsOfSlice DEF Contents
  <1> QED  BY <1>2, <1>3

\* A slice is as good when an array it is not in has changed or been added.
LEMMA SlicesKeep ==
  ASSUME NEW ars, NEW new, ars \in Seq(Seq(HookNames)), new \in Seq(Seq(HookNames)),
         DOMAIN ars \subseteq DOMAIN new, NEW s, Slice(ars, s),
         s.array # 0 => new[s.array] = ars[s.array]
  PROVE  Slice(new, s)
  BY DEF Slice

\* Adding to a list or removing from it leaves every array that is there.
LEMMA ReplaceKeeps ==
  ASSUME HooksInv, NEW p \in Names, NEW list \in Seq(HookNames), Replace(p, list)
  PROVE  HooksInv'
  <1> DEFINE fresh == [array |-> Len(arrays) + 1, len |-> Len(list)]
  <1>1. /\ ListsInv(arrays, lists) /\ arrays \in Seq(Seq(HookNames))
        /\ DOMAIN lists = Names /\ \A q \in Names : Slice(arrays, lists[q])
    BY DEF HooksInv, ListsInv
  <1>2. /\ arrays' = Append(arrays, list) /\ lists' = [lists EXCEPT ![p] = fresh]
        /\ firing' = firing
    BY DEF Replace
  <1>3. PICK n \in Nat : n = Len(arrays) /\ DOMAIN arrays = 1..n
    BY <1>1
  <1>4. /\ arrays' \in Seq(Seq(HookNames)) /\ DOMAIN arrays' = 1..n + 1
        /\ arrays'[n + 1] = list /\ \A i \in 1..n : arrays'[i] = arrays[i]
    BY <1>1, <1>2, <1>3
  <1>5. /\ DOMAIN lists' = Names /\ lists'[p] = fresh
        /\ \A q \in Names \ {p} : lists'[q] = lists[q]
    BY <1>1, <1>2
  <1>6. fresh.array = n + 1 /\ fresh.len = Len(list) /\ fresh \in [array : Nat, len : Nat]
    BY <1>3
  <1>7. \A s : Slice(arrays, s) => s.array \in Nat /\ s.array <= n /\ Slice(arrays', s)
    <2> TAKE s
    <2> HAVE Slice(arrays, s)
    <2>1. s.array \in Nat /\ s.array <= n
      BY <1>3 DEF Slice
    <2>2. s.array # 0 => arrays'[s.array] = arrays[s.array]
      BY <2>1, <1>4
    <2>3. DOMAIN arrays \subseteq DOMAIN arrays'
      BY <1>3, <1>4
    <2> HIDE DEF fresh
    <2> QED  BY <2>1, <2>2, <2>3, <1>1, <1>4, SlicesKeep
  <1>8. Slice(arrays', fresh)
    BY <1>4, <1>6 DEF Slice
  <1> HIDE DEF fresh
  <1>9. \A q \in Names : Slice(arrays', lists'[q])
    BY <1>1, <1>5, <1>7, <1>8
  <1>10. ASSUME NEW e \in EventNames, NEW q \in Names, q # e, lists'[e].array # 0
         PROVE  lists'[q].array # lists'[e].array
    <2>1. e \in Names
      BY DEF Names
    <2>2. CASE e # p /\ q # p
      BY <2>1, <2>2, <1>1, <1>5, <1>10 DEF ListsInv
    <2>3. CASE e = p
      BY <2>1, <2>3, <1>1, <1>3, <1>5, <1>6, <1>7, <1>10
    <2>4. CASE q = p
      BY <2>1, <2>4, <1>1, <1>3, <1>5, <1>6, <1>7, <1>10
    <2> QED  BY <2>2, <2>3, <2>4
  <1>11. ListsInv(arrays', lists')
    BY <1>4, <1>5, <1>9, <1>10 DEF ListsInv
  <1>12. ASSUME NEW f \in Firers
         PROVE  FireInv(arrays', lists', firing[f])
    <2> DEFINE g == firing[f]
    <2>1. FireInv(arrays, lists, g)
      BY DEF HooksInv
    <2> SUFFICES FireInv(arrays', lists', g)
      OBVIOUS
    <2> HIDE DEF g
    <2>2. Slice(arrays, g.slice) /\ Slice(arrays', g.slice)
      BY <2>1, <1>7 DEF FireInv
    <2>3. g.slice.array \in Nat /\ g.slice.array <= n
      BY <2>2, <1>7
    <2>4. CASE g.slice.array = 0
      BY <2>1, <2>2, <2>4 DEF FireInv
    <2>5. CASE g.slice.array # 0
      <3>1. arrays'[g.slice.array] = arrays[g.slice.array]
        BY <2>3, <2>5, <1>4
      <3>2. \A e \in EventNames : lists'[e].array # g.slice.array
        <4> TAKE e \in EventNames
        <4>1. e \in Names /\ lists[e].array # g.slice.array
          BY <2>1, <2>5 DEF FireInv, Names
        <4> QED  BY <4>1, <2>3, <1>3, <1>5, <1>6
      <3> QED  BY <2>1, <2>2, <2>5, <3>1, <3>2 DEF FireInv
    <2> QED  BY <2>4, <2>5
  <1> QED  BY <1>2, <1>11, <1>12 DEF HooksInv

\* Subscribe where the array has room.
AppendInPlace(e, name) ==
  /\ lists[e].array # 0
  /\ arrays' = [arrays EXCEPT ![lists[e].array] =
                  Append(SubSeq(@, 1, lists[e].len), name)]
  /\ lists' = [lists EXCEPT ![e].len = lists[e].len + 1]
  /\ firing' = firing

\* A sequence with one element replaced.
LEMMA ReplaceOne ==
  ASSUME NEW S, NEW s \in Seq(S), NEW i \in DOMAIN s, NEW x \in S
  PROVE  [s EXCEPT ![i] = x] \in Seq(S)
  <1>1. PICK n \in Nat : n = Len(s) /\ DOMAIN s = 1..n
    OBVIOUS
  <1>2. [s EXCEPT ![i] = x] \in [1..n -> S]
    BY <1>1
  <1> QED  BY <1>2

\* Subscribe's append in place changes an array that no other list has and
\* that no Fire reads.
LEMMA AppendKeeps ==
  ASSUME HooksInv, NEW e \in EventNames, NEW name \in HookNames, AppendInPlace(e, name)
  PROVE  HooksInv'
  <1> DEFINE a == lists[e].array
             k == lists[e].len
             more == Append(SubSeq(arrays[a], 1, k), name)
             longer == [lists[e] EXCEPT !.len = k + 1]
  <1>1. /\ ListsInv(arrays, lists) /\ arrays \in Seq(Seq(HookNames))
        /\ DOMAIN lists = Names /\ \A q \in Names : Slice(arrays, lists[q])
    BY DEF HooksInv, ListsInv
  <1>2. e \in Names /\ Slice(arrays, lists[e])
    BY <1>1 DEF Names
  <1> lists[e].array # 0
    BY DEF AppendInPlace
  <1>3. a \in DOMAIN arrays /\ k \in Nat /\ arrays[a] \in Seq(HookNames) /\ a # 0
        /\ SubSeq(arrays[a], 1, k) \in Seq(HookNames) /\ Len(SubSeq(arrays[a], 1, k)) = k
    BY <1>1, <1>2, ContentsOfSlice DEF Slice
  <1>4. more \in Seq(HookNames) /\ Len(more) = k + 1
    BY <1>3
  <1>5. arrays' = [arrays EXCEPT ![a] = more]
    BY DEF AppendInPlace
  <1>6. longer.array = a /\ longer.len = k + 1 /\ longer \in [array : Nat, len : Nat]
    BY <1>2, <1>3 DEF Slice
  <1>7. lists' = [lists EXCEPT ![e] = longer] /\ firing' = firing
    BY <1>1, <1>2 DEF AppendInPlace
  <1> HIDE DEF more, longer, a, k
  <1>8. /\ arrays' \in Seq(Seq(HookNames)) /\ DOMAIN arrays' = DOMAIN arrays
        /\ arrays'[a] = more /\ \A i \in DOMAIN arrays : i # a => arrays'[i] = arrays[i]
    BY <1>1, <1>3, <1>4, <1>5, ReplaceOne
  <1>9. /\ DOMAIN lists' = Names /\ lists'[e] = longer
        /\ \A q \in Names \ {e} : lists'[q] = lists[q]
    BY <1>1, <1>2, <1>7
  <1>10. \A s : Slice(arrays, s) /\ s.array # a =>
           Slice(arrays', s) /\ (s.array # 0 => arrays'[s.array] = arrays[s.array])
    <2> TAKE s
    <2> HAVE Slice(arrays, s) /\ s.array # a
    <2>1. s.array # 0 => arrays'[s.array] = arrays[s.array]
      BY <1>8 DEF Slice
    <2> QED  BY <2>1, <1>1, <1>8, SlicesKeep
  <1>11. Slice(arrays', longer)
    BY <1>3, <1>4, <1>6, <1>8 DEF Slice
  <1>12. \A q \in Names \ {e} : lists[q].array # a
    BY <1>1, <1>3 DEF ListsInv, a
  <1>13. \A q \in Names : Slice(arrays', lists'[q])
    BY <1>1, <1>9, <1>10, <1>11, <1>12
  <1>14. \A q \in Names : lists'[q].array = lists[q].array
    BY <1>6, <1>9 DEF a
  <1>15. EventNames \subseteq Names
    BY DEF Names
  <1>16. ListsInv(arrays', lists')
    BY <1>1, <1>8, <1>9, <1>13, <1>14, <1>15 DEF ListsInv
  <1>17. ASSUME NEW f \in Firers
         PROVE  FireInv(arrays', lists', firing[f])
    <2> DEFINE g == firing[f]
    <2>1. FireInv(arrays, lists, g)
      BY DEF HooksInv
    <2> SUFFICES FireInv(arrays', lists', g)
      OBVIOUS
    <2> HIDE DEF g
    <2>2. g.slice.array # a
      BY <2>1, <1>3 DEF FireInv, a
    <2>3. Slice(arrays', g.slice) /\ (g.slice.array # 0 => arrays'[g.slice.array] = arrays[g.slice.array])
      BY <2>1, <2>2, <1>10 DEF FireInv
    <2>4. g.slice.array # 0 => \A x \in EventNames : lists'[x].array # g.slice.array
      BY <2>1, <1>14, <1>15 DEF FireInv
    <2> QED  BY <2>1, <2>3, <2>4 DEF FireInv
  <1> QED  BY <1>7, <1>16, <1>17 DEF HooksInv

\* A Fire begins on a list that is not an event's.
LEMMA StartKeeps ==
  ASSUME HooksInv, NEW f \in Firers, NEW p \in Names, StartFiring(f, p)
  PROVE  HooksInv'
  <1> DEFINE list == Contents(lists[p])
             g == IF p \in Points
                  THEN [NoFiring EXCEPT !.slice = lists[p], !.due = list]
                  ELSE [NoFiring EXCEPT !.copy = list, !.due = list]
  <1>1. ListsInv(arrays, lists) /\ DOMAIN firing = Firers
    BY DEF HooksInv
  <1>2. list \in Seq(HookNames) /\ Len(list) = lists[p].len /\ Slice(arrays, lists[p])
    BY <1>1, ContentsAreNames DEF ListsInv
  <1>3. arrays' = arrays /\ lists' = lists /\ firing' = [firing EXCEPT ![f] = g]
    BY DEF StartFiring
  <1>4. list = IF lists[p].array = 0 THEN <<>>
               ELSE SubSeq(arrays[lists[p].array], 1, lists[p].len)
    BY DEF Contents
  <1> HIDE DEF list
  <1>5. SubSeq(list, 1, 0) = <<>> /\ Slice(arrays, NilSlice)
    BY <1>2 DEF Slice, NilSlice
  <1>6. CASE p \in Points
    <2>1. /\ g.slice = lists[p] /\ g.copy = <<>> /\ g.next = 1 /\ g.heard = <<>>
          /\ g.due = list
          /\ g = [x \in {"slice", "copy", "next", "heard", "due", "vetoed"} |-> g[x]]
      BY <1>6 DEF NoFiring
    <2> HIDE DEF g
    <2>2. \A e \in EventNames : lists[p].array # 0 => lists[e].array # lists[p].array
      BY <1>1, <1>6 DEF ListsInv, Names, Points, EventNames
    <2>3. FireInv(arrays, lists, g)
      BY <1>2, <1>4, <1>5, <2>1, <2>2 DEF FireInv
    <2> QED  BY <1>1, <1>3, <2>3 DEF HooksInv
  <1>7. CASE p \notin Points
    <2>1. /\ g.slice = NilSlice /\ g.copy = list /\ g.next = 1 /\ g.heard = <<>>
          /\ g.due = list
          /\ g = [x \in {"slice", "copy", "next", "heard", "due", "vetoed"} |-> g[x]]
      BY <1>7 DEF NoFiring
    <2> HIDE DEF g
    <2>2. NilSlice.array = 0
      BY DEF NilSlice
    <2>3. FireInv(arrays, lists, g)
      BY <1>2, <1>5, <2>1, <2>2 DEF FireInv
    <2> QED  BY <1>1, <1>3, <2>3 DEF HooksInv
  <1> QED  BY <1>6, <1>7

\* The length a Fire runs to is that of the list it began with.
LEMMA FiringLength ==
  ASSUME NEW ars, NEW ls, ars \in Seq(Seq(HookNames)), NEW g, FireInv(ars, ls, g)
  PROVE  g.slice.len + Len(g.copy) = Len(g.due)
  <1>1. CASE g.slice.array = 0
    BY <1>1 DEF FireInv, Slice
  <1>2. CASE g.slice.array # 0
    BY <1>2, ContentsOfSlice DEF FireInv, Slice
  <1> QED  BY <1>1, <1>2

\* The handler called next is the next one of those due.
LEMMA CallKeeps ==
  ASSUME HooksInv, NEW f \in Firers, CallHandler(f)
  PROVE  HooksInv'
  <1> DEFINE g == firing[f]
             name == IF g.slice.array # 0 THEN arrays[g.slice.array][g.next]
                     ELSE g.copy[g.next]
  <1>1. /\ ListsInv(arrays, lists) /\ arrays \in Seq(Seq(HookNames))
        /\ DOMAIN firing = Firers /\ FireInv(arrays, lists, g)
    BY DEF HooksInv, ListsInv
  <1>2. PICK veto : firing' = [firing EXCEPT ![f].next = @ + 1,
                                 ![f].heard = Append(@, name), ![f].vetoed = veto]
    BY DEF CallHandler
  <1>3. arrays' = arrays /\ lists' = lists /\ ~(g.next > g.slice.len + Len(g.copy))
    BY DEF CallHandler, FiringDone, FiringLen
  <1> DEFINE h == [g EXCEPT !.next = @ + 1, !.heard = Append(@, name), !.vetoed = veto]
  <1>4. DOMAIN firing' = Firers /\ firing'[f] = h
        /\ \A x \in Firers : x # f => firing'[x] = firing[x]
    BY <1>1, <1>2
  <1>5. g = [x \in {"slice", "copy", "next", "heard", "due", "vetoed"} |-> g[x]]
    BY <1>1 DEF FireInv
  <1> HIDE DEF g, name
  <1>6. /\ h.slice = g.slice /\ h.copy = g.copy /\ h.due = g.due
        /\ h.next = g.next + 1 /\ h.heard = Append(g.heard, name)
        /\ h = [x \in {"slice", "copy", "next", "heard", "due", "vetoed"} |-> h[x]]
    BY <1>5
  <1> HIDE DEF h
  <1>7. /\ g.next \in Nat \ {0} /\ g.next <= Len(g.due) /\ g.due \in Seq(HookNames)
        /\ g.heard = SubSeq(g.due, 1, g.next - 1)
    BY <1>1, <1>3, FiringLength DEF FireInv, Slice
  <1>8. name = g.due[g.next]
    <2>1. CASE g.slice.array = 0
      BY <2>1, <1>1 DEF FireInv, name
    <2>2. CASE g.slice.array # 0
      <3>1. /\ g.due = SubSeq(arrays[g.slice.array], 1, g.slice.len)
            /\ arrays[g.slice.array] \in Seq(HookNames)
            /\ g.slice.len \in Nat /\ Len(g.due) = g.slice.len
            /\ g.slice.len <= Len(arrays[g.slice.array])
        BY <2>2, <1>1, ContentsOfSlice DEF FireInv, Slice
      <3>2. g.due[g.next] = arrays[g.slice.array][g.next]
        BY <3>1, <1>7
      <3> QED  BY <2>2, <3>2 DEF name
    <2> QED  BY <2>1, <2>2
  <1>9. Append(g.heard, name) = SubSeq(g.due, 1, g.next)
    BY <1>7, <1>8
  <1>10. h.heard = SubSeq(h.due, 1, h.next - 1) /\ h.next \in Nat \ {0}
         /\ h.next <= Len(h.due) + 1
    <2>1. h.next \in Nat \ {0} /\ h.next - 1 = g.next /\ h.next <= Len(g.due) + 1
      BY <1>6, <1>7
    <2> QED  BY <2>1, <1>6, <1>9
  <1>11. FireInv(arrays, lists, h)
    BY <1>1, <1>6, <1>10 DEF FireInv
  <1>12. \A x \in Firers : FireInv(arrays, lists, firing'[x])
    BY <1>4, <1>11 DEF HooksInv
  <1> QED  BY <1>1, <1>3, <1>4, <1>12 DEF HooksInv

\* A list without one of its entries is a list.
LEMMA WithoutIsList ==
  ASSUME NEW list \in Seq(HookNames), NEW i \in DOMAIN list
  PROVE  Without(list, i) \in Seq(HookNames)
  <1>1. PICK n \in Nat : n = Len(list) /\ DOMAIN list = 1..n
    OBVIOUS
  <1>2. SubSeq(list, 1, i - 1) \in Seq(HookNames) /\ SubSeq(list, i + 1, Len(list)) \in Seq(HookNames)
    BY <1>1
  <1> QED  BY <1>2 DEF Without

\* Whatever a step does to the hooks keeps HooksInv.
LEMMA HooksKept ==
  ASSUME HooksInv, HookStep
  PROVE  HooksInv'
  <1>1. CASE UNCHANGED hookVars
    BY <1>1 DEF hookVars, HooksInv
  <1>2. CASE \E f \in Firers, p \in Names : StartFiring(f, p)
    BY <1>2, StartKeeps
  <1>3. CASE \E f \in Firers : CallHandler(f)
    BY <1>3, CallKeeps
  <1>4. ASSUME NEW name \in HookNames, NEW p \in Points, AddHook(p, name)
        PROVE  HooksInv'
    <2>1. p \in Names /\ Contents(lists[p]) \in Seq(HookNames)
      BY ContentsAreNames DEF HooksInv, Names
    <2>2. Append(Contents(lists[p]), name) \in Seq(HookNames)
      BY <2>1
    <2>3. Replace(p, Append(Contents(lists[p]), name))
      BY <1>4 DEF AddHook
    <2> QED  BY <2>1, <2>2, <2>3, ReplaceKeeps
  <1>5. ASSUME NEW name \in HookNames, NEW p \in Points, RemoveHook(p, name)
        PROVE  HooksInv'
    <2>1. p \in Names /\ Contents(lists[p]) \in Seq(HookNames)
      BY ContentsAreNames DEF HooksInv, Names
    <2>2. PICK i \in DOMAIN Contents(lists[p]) : Replace(p, Without(Contents(lists[p]), i))
      BY <1>5 DEF RemoveHook
    <2> QED  BY <2>1, <2>2, WithoutIsList, ReplaceKeeps
  <1>6. ASSUME NEW name \in HookNames, NEW e \in EventNames, Subscribe(e, name)
        PROVE  HooksInv'
    <2>1. e \in Names /\ Contents(lists[e]) \in Seq(HookNames)
      BY ContentsAreNames DEF HooksInv, Names
    <2>2. Append(Contents(lists[e]), name) \in Seq(HookNames)
      BY <2>1
    <2>3. CASE Replace(e, Append(Contents(lists[e]), name))
      BY <2>1, <2>2, <2>3, ReplaceKeeps
    <2>4. CASE AppendInPlace(e, name)
      BY <2>4, AppendKeeps
    <2> QED  BY <1>6, <2>3, <2>4 DEF Subscribe, AppendInPlace
  <1> QED  BY <1>1, <1>2, <1>3, <1>4, <1>5, <1>6 DEF HookStep

\* Every step of the crew is one of these to the hooks: the phases a run
\* enters fire, a handler is called, ChangeHooks changes a list, and nothing
\* else touches them.
LEMMA CrewHookSteps ==
  ASSUME [CrewNext]_crewVars
  PROVE  HookStep
  <1> USE PlacesAssumption
  <1>1. \A r \in Runners : \A p \in Names : StartFiring(r, p) => HookStep
    BY DEF HookStep
  <1>2. UNCHANGED hookVars => HookStep
    BY DEF HookStep
  <1>3. \A r \in Runners : CallHandler(r) => HookStep
    BY DEF HookStep
  <1>4. Names = {"pre", "post", "stop", "delivered", "acked", "verified"}
    BY DEF Names, Points, EventNames
  <1>5. \A r \in Runners : \A err, runs : ReturnsFrom(runs, r, err) => HookStep
    BY <1>1, <1>4 DEF ReturnsFrom
  <1>6. \A r \in Runners : (Fails(r) => HookStep) /\ \A err : AgentReturns(r, err) => HookStep
    BY <1>5 DEF AgentReturns, Fails
  <1>7. \A r \in Runners : \A runs, text : ToolText(runs, r, text) => HookStep
    BY <1>1, <1>4, <1>5 DEF ToolText
  <1>8. ASSUME NEW r \in Runners, RunStep(r)
        PROVE  HookStep
    <2>1. CASE Start(r) \/ StepDone(r) \/ RunReturns(r)
      BY <2>1, <1>2 DEF Start, StepDone, RunReturns
    <2>2. CASE ConfirmStep(r)
      BY <2>2, <1>1, <1>4, <1>6 DEF ConfirmStep
    <2>3. CASE Paused(r) \/ ThreadVerified(r) \/ WalkEnds(r)
      BY <2>3, <1>1, <1>4, <1>6 DEF Paused, ThreadVerified, WalkEnds, Enter
    <2>4. CASE Gate(r)
      BY <2>4, <1>1, <1>2, <1>4, <1>6 DEF Gate
    <2>5. CASE Handler(r)
      BY <2>5, <1>3 DEF Handler
    <2>6. CASE PreHooks(r) \/ PostHooks(r)
      BY <2>6, <1>1, <1>2, <1>4, <1>6 DEF PreHooks, PostHooks, Enter
    <2>7. CASE RunTool(r)
      BY <2>7, <1>2, <1>6, <1>7 DEF RunTool
    <2>8. CASE Spawn(r)
      BY <2>8, <1>2, <1>6 DEF Spawn
    <2>9. CASE SpawnReturns(r)
      BY <2>9, <1>5, <1>7 DEF SpawnReturns
    <2>10. CASE AskReturns(r)
      BY <2>10, <1>1, <1>4, <1>6 DEF AskReturns, Confirmed
    <2>11. CASE RemoteReturns(r)
      BY <2>11, <1>1, <1>4, <1>6 DEF RemoteReturns
    <2> QED  BY <1>8, <2>1, <2>2, <2>3, <2>4, <2>5, <2>6, <2>7, <2>8, <2>9, <2>10, <2>11
                DEF RunStep
  <1>9. ASSUME NEW r \in Runners, Cancel(r) \/ WaitStep(r) \/ Remote(r)
        PROVE  HookStep
    BY <1>2, <1>9 DEF Cancel, WaitStep, Remote
  <1>10. CASE ChangeHooks
    BY <1>10 DEF ChangeHooks, HookStep
  <1>11. CASE NotifierStep \/ Peer \/ Noise
    BY <1>2, <1>11 DEF NotifierStep, Peer, Noise
  <1>12. CASE UNCHANGED crewVars
    BY <1>2, <1>12 DEF crewVars
  <1> QED  BY <1>8, <1>9, <1>10, <1>11, <1>12 DEF CrewNext

\* The lists as the caller set them up are in arrays of their own.
LEMMA HooksStart ==
  ASSUME NEW initial \in [Names -> Seq(HookNames)], HooksInit(initial)
  PROVE  HooksInv
  <1> DEFINE order == <<"pre", "post", "stop", "delivered", "acked", "verified">>
             at(p) == CHOOSE i \in DOMAIN order : order[i] = p
  <1>1. /\ arrays = [i \in DOMAIN order |-> initial[order[i]]]
        /\ lists = [p \in Names |-> IF initial[p] = <<>> THEN NilSlice
                      ELSE [array |-> at(p), len |-> Len(initial[p])]]
        /\ firing = [f \in Firers |-> NoFiring]
    BY DEF HooksInit, Names
  <1>2. DOMAIN order = 1..6 /\ \A i \in 1..6 : order[i] \in Names
    BY DEF Names, Points, EventNames
  <1>3. \A p \in Names : \E i \in 1..6 : order[i] = p
    BY DEF Names, Points, EventNames
  <1> HIDE DEF order
  <1>4. \A p \in Names : at(p) \in 1..6 /\ order[at(p)] = p
    BY <1>2, <1>3
  <1> HIDE DEF at
  <1>5. arrays \in Seq(Seq(HookNames)) /\ DOMAIN arrays = 1..6
        /\ \A p \in Names : arrays[at(p)] = initial[p]
    BY <1>1, <1>2, <1>4
  <1>6. \A p \in Names : \/ lists[p] = NilSlice
                         \/ lists[p] = [array |-> at(p), len |-> Len(initial[p])]
    BY <1>1
  <1>7. \A p \in Names : Slice(arrays, lists[p])
    <2> TAKE p \in Names
    <2>1. initial[p] \in Seq(HookNames) /\ Len(initial[p]) \in Nat
      OBVIOUS
    <2>2. CASE lists[p] = NilSlice
      BY <2>2 DEF Slice, NilSlice
    <2>3. CASE lists[p] = [array |-> at(p), len |-> Len(initial[p])]
      BY <2>1, <2>3, <1>4, <1>5 DEF Slice
    <2> QED  BY <1>6, <2>2, <2>3
  <1>8. \A p \in Names : lists[p].array \in {0, at(p)}
    <2> TAKE p \in Names
    <2>1. CASE lists[p] = NilSlice
      BY <2>1 DEF NilSlice
    <2>2. CASE lists[p] = [array |-> at(p), len |-> Len(initial[p])]
      BY <2>2
    <2> QED  BY <1>6, <2>1, <2>2
  <1>9. \A e \in EventNames, p \in Names :
          p # e /\ lists[e].array # 0 => lists[p].array # lists[e].array
    BY <1>4, <1>8 DEF Names
  <1>10. ListsInv(arrays, lists)
    BY <1>1, <1>5, <1>7, <1>9 DEF ListsInv
  <1>11. FireInv(arrays, lists, NoFiring)
    BY DEF FireInv, NoFiring, NilSlice, Slice
  <1> QED  BY <1>1, <1>10, <1>11 DEF HooksInv

\* The invariant says what HooksHeard asks.
LEMMA HooksInvHeard ==
  ASSUME HooksInv
  PROVE  HooksHeard
  <1> SUFFICES ASSUME NEW f \in Firers
               PROVE  /\ IsPrefix(firing[f].heard, firing[f].due)
                      /\ FiringDone(f) /\ ~firing[f].vetoed => firing[f].heard = firing[f].due
    BY DEF HooksHeard
  <1> DEFINE g == firing[f]
  <1>1. FireInv(arrays, lists, g) /\ arrays \in Seq(Seq(HookNames))
    BY DEF HooksInv, ListsInv
  <1>2. FiringLen(f) = Len(g.due)
    BY <1>1, FiringLength DEF FiringLen
  <1>3. FiringDone(f) /\ ~g.vetoed => g.next > Len(g.due)
    BY <1>2 DEF FiringDone
  <1> SUFFICES IsPrefix(g.heard, g.due) /\ (g.next > Len(g.due) => g.heard = g.due)
    BY <1>3
  <1> HIDE DEF g
  <1>4. PICK n \in Nat : n = Len(g.due) /\ g.due \in Seq(HookNames)
    BY <1>1 DEF FireInv
  <1>5. g.next \in Nat \ {0} /\ g.next <= n + 1 /\ g.heard = SubSeq(g.due, 1, g.next - 1)
    BY <1>1, <1>4 DEF FireInv
  <1>6. Len(g.heard) = g.next - 1 /\ g.heard \in Seq(HookNames)
    BY <1>4, <1>5
  <1>7. IsPrefix(g.heard, g.due)
    <2>1. SubSeq(g.heard, 1, Len(g.heard)) = g.heard
      BY <1>6
    <2>2. SubSeq(g.due, 1, Len(g.heard)) = g.heard
      BY <1>5, <1>6
    <2>3. Len(g.heard) <= Len(g.due)
      BY <1>4, <1>5, <1>6
    <2> QED  BY <2>1, <2>2, <2>3 DEF IsPrefix
  <1>8. g.next > n => g.heard = g.due
    BY <1>4, <1>5
  <1> QED  BY <1>4, <1>7, <1>8

\* However many runs fire and emit while hooks and subscriptions are added
\* and removed, each Fire and Emit calls the handlers that were registered
\* when it began, in order (registry.go, bus.go).
THEOREM HandlersAreHeard == CrewSpec => []HooksHeard
  <1>1. CrewInit => HooksInv
    <2> SUFFICES ASSUME CrewInit
                 PROVE  HooksInv
      OBVIOUS
    <2>1. crew.hooks \in [Names -> Seq(HookNames)] /\ HooksInit(crew.hooks)
      BY CrewAssumption DEF CrewInit, Names
    <2> QED  BY <2>1, HooksStart
  <1>2. HooksInv /\ [CrewNext]_crewVars => HooksInv'
    BY HooksKept, CrewHookSteps
  <1>3. HooksInv => HooksHeard
    BY HooksInvHeard
  <1> QED  BY <1>1, <1>2, <1>3, PTL DEF CrewSpec

-----------------------------------------------------------------------------
(* Runs.  A run's record holds what the thread it has built and the message*)
(* it waits for need to verify.                                            *)

RunFields == {"at", "todo", "thread", "depth", "parent", "root", "seen", "built",
              "msg", "ack", "err"}

\* Places where a run has a message that waits for its ack.
Gated == {"delivered", "pre", "tool", "ask", "spawned", "remote", "post", "acked"}

Stops == Gated \cup {"walk", "verified", "stop", "done"}

IsList(s) == Len(s) \in Nat /\ s = [i \in 1..Len(s) |-> s[i]]

Linked(s, i) == s[i].prev = IF i = 1 THEN <<>> ELSE Hash(s[i - 1])

\* Messages of one thread, each linked to the one before, with IDs that have
\* been given out once.
Chain(s, thread, seen) ==
  /\ IsList(s)
  /\ \A i \in 1..Len(s) :
       /\ ValidateMessage(s[i]) /\ s[i].thread = thread /\ s[i].id \in seen
       /\ \A j \in 1..Len(s) : i # j => s[i].id # s[j].id
       /\ Linked(s, i)

Record(g) ==
  /\ g = [f \in RunFields |-> g[f]] /\ g.at \in Stops
  /\ g.todo \in Seq(StepIDs) /\ g.thread \in Nat \ {0} /\ IsFiniteSet(g.seen)
  /\ g.at \in {"walk", "verified"} => Chain(g.built, g.thread, g.seen)
  /\ g.at \in Gated =>
       /\ g.todo # <<>> /\ IsList(g.built) /\ g.msg = <<g.msg[1]>>
       /\ Chain(Append(g.built, g.msg[1]), g.thread, g.seen)
  /\ g.err # "unverified"

RunsInv ==
  /\ threadSeq \in Nat
  /\ DOMAIN run = Runners /\ \A r \in Runners : run[r] = NoRun \/ Record(run[r])
  /\ crew \in Crews

-----------------------------------------------------------------------------
(* Acks.  While the peer sends nothing unasked, the stream holds at most   *)
(* the answer to the question of the call that owns the lock.              *)

\* The calls and the lock.
CallsInv(runs, calls, p) ==
  /\ DOMAIN calls = Runners
  /\ \/ p = Free
     \/ /\ p = [at |-> p.at, q |-> p.q, live |-> p.live] /\ p.at \in {"writing", "scanning"}
        /\ p.live \in BOOLEAN
        /\ p.live => /\ p.q.by \in Runners /\ calls[p.q.by].at = "waiting"
  /\ \A r \in Runners :
       /\ calls[r].at \in {"none", "waiting", "told"}
       /\ calls[r].at # "none" => runs[r].at = "ask"
       /\ calls[r].at = "waiting" =>
            p # Free /\ p.live /\ p.q = Question(r, runs[r].msg[1].id)

\* The stream, in step.
StreamInv(p, as, ls, cl) ==
  IF p.at = "scanning" /\ ls # <<>>
  THEN as = {} /\ Len(ls) = 1 /\ ls = <<ls[1]>> /\ ls[1].of = p.q
  ELSE ls = <<>> /\ (cl \/ as = IF p.at = "scanning" THEN {p.q} ELSE {})

AnswersInv(runs, calls) ==
  \A r \in Runners : calls[r].at = "told" /\ calls[r].what = "approved" =>
                       calls[r].of = Question(r, runs[r].msg[1].id)

\* A remote exchange and the task it is about.
ExchangeInv(g, ex, tk) ==
  /\ ex.at \in {"none", "sending", "polling", "fetching", "told"}
  /\ tk = [f \in {"state", "of", "result"} |-> tk[f]]
  /\ ex.at # "none" => g.at = "remote"
  /\ ex.at \in {"sending", "polling", "fetching"} =>
       ex = [at |-> ex.at, msg |-> ex.msg] /\ g.msg = <<ex.msg>>
  /\ ex.at \in {"polling", "fetching"} => tk.of = g.msg
  /\ ex.at = "fetching" => tk.state = "completed"
  /\ ex.at = "told" /\ ex.what = "confirmed" =>
       /\ tk.state = "completed" /\ tk.of = g.msg
       /\ ExpectSigner = "" \/ tk.result[1].msg.signer = ExpectSigner

\* The stream stays in step, and approvals are to their askers' questions,
\* as long as the peer sends nothing unasked.
NotesInv ==
  /\ CallsInv(run, call, pipe)
  /\ noise \in Nat
  /\ noise = 0 => StreamInv(pipe, asked, lines, closed) /\ AnswersInv(run, call)

AcksInv ==
  /\ NotesInv
  /\ DOMAIN exchange = Runners /\ DOMAIN task = Runners
  /\ \A r \in Runners : ExchangeInv(run[r], exchange[r], task[r])
  /\ AcksAreEarned

-----------------------------------------------------------------------------
(* Lists, IDs and chains.                                                  *)

\* A list is a sequence of its elements.
LEMMA ListIsSeq ==
  ASSUME NEW s, IsList(s)
  PROVE  s \in Seq({s[i] : i \in 1..Len(s)})
  <1>1. PICK n \in Nat : n = Len(s) /\ s = [i \in 1..n |-> s[i]]
    BY DEF IsList
  <1>2. s \in [1..n -> {s[i] : i \in 1..n}]
    BY <1>1
  <1> QED  BY <1>1, <1>2

\* A sequence is a list.
LEMMA SeqIsList ==
  ASSUME NEW S, NEW s \in Seq(S)
  PROVE  IsList(s)
  BY DEF IsList

\* What appending to a list gives.
LEMMA AppendToList ==
  ASSUME NEW s, IsList(s), NEW x
  PROVE  /\ IsList(Append(s, x)) /\ Len(Append(s, x)) = Len(s) + 1
         /\ Append(s, x)[Len(s) + 1] = x /\ \A i \in 1..Len(s) : Append(s, x)[i] = s[i]
         /\ s \o <<x>> = Append(s, x)
  <1> DEFINE S == {s[i] : i \in 1..Len(s)} \cup {x}
  <1>1. s \in Seq({s[i] : i \in 1..Len(s)})
    BY ListIsSeq
  <1>2. s \in Seq(S)
    BY <1>1
  <1>3. x \in S
    OBVIOUS
  <1> HIDE DEF S
  <1>4. Append(s, x) \in Seq(S) /\ Len(Append(s, x)) = Len(s) + 1
        /\ Append(s, x)[Len(s) + 1] = x /\ \A i \in 1..Len(s) : Append(s, x)[i] = s[i]
    BY <1>2, <1>3
  <1>5. s \o <<x>> = Append(s, x)
    BY <1>2, <1>3
  <1> QED  BY <1>4, <1>5, SeqIsList

\* A set of natural numbers has a least one.
LEMMA LeastNumber ==
  ASSUME NEW T \in SUBSET Nat, T # {}
  PROVE  \E x \in T : \A y \in T : x <= y
  <1> DEFINE Below == OpToRel(<, Nat)
  <1>1. IsWellFoundedOn(Below, Nat)
    BY NatLessThanWellFounded
  <1>2. ASSUME NEW x \in Nat, NEW y \in Nat, y < x
        PROVE  <<y, x>> \in Below
    BY <1>2, Zenon DEF OpToRel
  <1> HIDE DEF Below
  <1>3. PICK x \in T : \A y \in T : <<y, x>> \notin Below
    BY <1>1, WFMin
  <1>4. \A y \in T : x \in Nat /\ y \in Nat /\ ~(y < x)
    BY <1>2, <1>3
  <1> QED  BY <1>3, <1>4

\* The pigeonhole principle, as it is used below.
LEMMA Pigeons ==
  ASSUME NEW S, IsFiniteSet(S), NEW T, IsFiniteSet(T),
         Cardinality(T) < Cardinality(S), NEW f, f \in [S -> T]
  PROVE  \E x \in S, y \in S : x # y /\ f[x] = f[y]
  <1>1. \A g \in [S -> T] : \E x, y \in S : x # y /\ g[x] = g[y]
    BY FS_PigeonHole
  <1> QED  BY <1>1

\* uniqueStepID gives an ID that has not been given out: of one more suffix
\* than there are IDs, one is free.
LEMMA UniqueIsNew ==
  ASSUME NEW seen, IsFiniteSet(seen), NEW id \in StepIDs
  PROVE  UniqueStepID(seen, id) \notin seen
  <1> DEFINE k == Cardinality(seen)
             name == [n \in 2..k + 2 |-> Append(id, n)]
             free == {n \in 2..k + 2 : Append(id, n) \notin seen}
             first(n) == /\ Append(id, n) \notin seen
                         /\ \A m \in 2..n - 1 : Append(id, m) \in seen
  <1>1. IsList(id)
    BY CrewAssumption DEF IsList
  <1>2. k \in Nat
    BY FS_CardinalityType
  <1> HIDE DEF k
  <1>3. \A m, n \in Nat : Append(id, m) = Append(id, n) => m = n
    BY <1>1, AppendToList
  <1>4. free # {}
    <2> SUFFICES ASSUME free = {}
                 PROVE  FALSE
      OBVIOUS
    <2>1. name \in [2..k + 2 -> seen]
      OBVIOUS
    <2>2. IsFiniteSet(2..k + 2) /\ Cardinality(2..k + 2) = k + 1
      <3>1. 2 \in Int /\ k + 2 \in Int /\ ~(2 > k + 2) /\ (k + 2) - 2 + 1 = k + 1
        BY <1>2
      <3> QED  BY <3>1, FS_Interval
    <2>3. Cardinality(seen) < Cardinality(2..k + 2)
      BY <1>2, <2>2 DEF k
    <2> HIDE DEF name
    <2>4. PICK m \in 2..k + 2, n \in 2..k + 2 : m # n /\ name[m] = name[n]
      <3> DEFINE R == 2..k + 2
      <3>1. IsFiniteSet(R) /\ Cardinality(seen) < Cardinality(R) /\ name \in [R -> seen]
        BY <2>1, <2>2, <2>3
      <3> HIDE DEF R, free
      <3>2. \E m \in R, n \in R : m # n /\ name[m] = name[n]
        BY <3>1, Pigeons
      <3> QED  BY <3>2 DEF R
    <2>5. m \in Nat /\ n \in Nat /\ Append(id, m) = Append(id, n)
      BY <1>2, <2>4 DEF name
    <2> QED  BY <1>3, <2>4, <2>5
  <1>5. PICK n \in free : \A m \in free : n <= m
    <2>1. free \in SUBSET Nat
      BY <1>2
    <2> HIDE DEF free
    <2> QED  BY <1>4, <2>1, LeastNumber
  <1>6. n \in 2..k + 2 /\ first(n)
    BY <1>2, <1>5
  <1>7. first(CHOOSE m \in 2..k + 2 : first(m))
    BY <1>6
  <1>8. Append(id, CHOOSE m \in 2..k + 2 : first(m)) \notin seen
    BY <1>7
  <1> QED  BY <1>8 DEF UniqueStepID, k

\* A chain verifies.
LEMMA ChainVerifies ==
  ASSUME NEW s, NEW thread, NEW seen, Chain(s, thread, seen), s # <<>>
  PROVE  VerifyThread(s)
  <1>1. PICK n \in Nat : n = Len(s) /\ s = [i \in 1..n |-> s[i]]
    BY DEF Chain, IsList
  <1>2. DOMAIN s = 1..n
    BY <1>1
  <1>3. n # 0
    <2> SUFFICES ASSUME n = 0
                 PROVE  FALSE
      OBVIOUS
    <2>1. s = <<>>
      BY <1>1
    <2> QED  BY <2>1
  <1>4. s[1].thread = thread
    <2>1. 1 \in 1..n
      BY <1>1, <1>3
    <2> QED  BY <2>1, <1>1 DEF Chain
  <1> QED  BY <1>1, <1>2, <1>4 DEF Chain, Linked, VerifyThread

\* A message that is linked to the last of a chain and has a new ID makes it
\* a longer one.
LEMMA ChainGrows ==
  ASSUME NEW s, NEW thread, NEW seen, Chain(s, thread, seen),
         NEW m, ValidateMessage(m), m.thread = thread, m.id \notin seen,
         m.prev = IF s = <<>> THEN <<>> ELSE Hash(Last(s))
  PROVE  Chain(Append(s, m), thread, seen \cup {m.id})
  <1> DEFINE t == Append(s, m)
  <1>1. PICK n \in Nat : n = Len(s) /\ s = [i \in 1..n |-> s[i]] /\ IsList(s)
    BY DEF Chain, IsList
  <1>2. IsList(t) /\ Len(t) = n + 1 /\ t[n + 1] = m /\ \A i \in 1..n : t[i] = s[i]
    BY <1>1, AppendToList
  <1> HIDE DEF t
  <1>3. \A i \in 1..n : /\ ValidateMessage(s[i]) /\ s[i].thread = thread /\ s[i].id \in seen
                        /\ \A j \in 1..n : i # j => s[i].id # s[j].id
                        /\ Linked(s, i)
    BY <1>1 DEF Chain
  <1>4. ASSUME NEW i \in 1..n + 1
        PROVE  Linked(t, i)
    <2>1. CASE i \in 1..n
      <3>1. i = 1 \/ i - 1 \in 1..n
        BY <2>1, <1>1
      <3> QED  BY <3>1, <2>1, <1>2, <1>3 DEF Linked
    <2>2. CASE i = n + 1 /\ n = 0
      <3>1. s = <<>>
        BY <2>2, <1>1
      <3> QED  BY <3>1, <2>2, <1>2 DEF Linked
    <2>3. CASE i = n + 1 /\ n # 0
      <3>1. s # <<>> /\ Last(s) = s[n]
        BY <2>3, <1>1 DEF Last
      <3>2. i # 1 /\ i - 1 = n /\ t[n] = s[n]
        BY <2>3, <1>1, <1>2
      <3> QED  BY <3>1, <3>2, <2>3, <1>2 DEF Linked
    <2> QED  BY <1>1, <2>1, <2>2, <2>3
  <1>5. ASSUME NEW i \in 1..n + 1
        PROVE  ValidateMessage(t[i]) /\ t[i].thread = thread /\ t[i].id \in seen \cup {m.id}
    <2>1. i \in 1..n \/ i = n + 1
      BY <1>1
    <2> QED  BY <2>1, <1>2, <1>3
  <1>6. ASSUME NEW i \in 1..n + 1, NEW j \in 1..n + 1, i # j
        PROVE  t[i].id # t[j].id
    <2>1. (i \in 1..n \/ i = n + 1) /\ (j \in 1..n \/ j = n + 1)
      BY <1>1
    <2> QED  BY <2>1, <1>2, <1>3, <1>6
  <1>7. Chain(t, thread, seen \cup {m.id})
    BY <1>1, <1>2, <1>4, <1>5, <1>6 DEF Chain
  <1> QED  BY <1>7 DEF t

-----------------------------------------------------------------------------
(* Moves: what a step may do to the record of a run.                       *)

Fresh(h) ==
  \E plan \in Seq(StepIDs), thread \in Nat \ {0} : \E depth, parent, root :
    h = NewRun(plan, thread, depth, parent, root)

\* A run begins or has been waited for by the run that spawned it.
Aside(g, h) ==
  \/ h = g
  \/ g = NoRun /\ Fresh(h)
  \/ g.at = "done" /\ h = NoRun

\* The message of the next step, with payload p.
Opened(g, p) ==
  Message(g.thread, UniqueStepID(g.seen, Head(g.todo)), "room", <<>>,
          IF g.built = <<>> THEN <<>> ELSE Hash(Last(g.built)), p)

Opens(g, h) ==
  /\ g.at = "walk" /\ g.todo # <<>>
  /\ \E p : /\ ValidateMessage(Opened(g, p))
            /\ h = [g EXCEPT !.at = "delivered", !.msg = <<Sign(Opened(g, p), "agent")>>,
                             !.seen = @ \cup {UniqueStepID(g.seen, Head(g.todo))}]

Paths == {<<"delivered", "pre">>, <<"delivered", "remote">>, <<"pre", "tool">>,
          <<"tool", "ask">>, <<"tool", "spawned">>, <<"post", "acked">>,
          <<"walk", "verified">>}

Goes(g, h) == \E label : <<g.at, label>> \in Paths /\ h = [g EXCEPT !.at = label]

AckPaths == {<<"tool", "post">>, <<"spawned", "post">>, <<"ask", "post">>,
             <<"remote", "acked">>}

Acked(g, label, by) == [g EXCEPT !.at = label, !.ack = by]

\* mistaken: the ack may be for something else.
Acks(g, h, mistaken) ==
  \E label, by :
    <<g.at, label>> \in AckPaths /\ (by = "other" => mistaken) /\ h = Acked(g, label, by)

Leaves(g, h) ==
  /\ g.at \in Stops \ {"stop", "done"}
  /\ \E err \in {"nil", "failed"} : h = [g EXCEPT !.at = "stop", !.err = err]

Ends(g, h) ==
  g.at = "stop" /\ \E err \in {g.err, "failed"} : h = [g EXCEPT !.at = "done", !.err = err]

Closes(g, h) ==
  /\ g.at = "acked"
  /\ h = [g EXCEPT !.at = "walk", !.built = @ \o g.msg, !.todo = Tail(@),
                   !.msg = <<>>, !.ack = "none"]

Moves(g, h, mistaken) ==
  \/ Aside(g, h)
  \/ /\ Record(g)
     /\ Opens(g, h) \/ Goes(g, h) \/ Acks(g, h, mistaken) \/ Leaves(g, h)
        \/ Ends(g, h) \/ Closes(g, h)

\* A signed message is as valid as it was and has the same place in a thread.
LEMMA SignKeeps ==
  ASSUME NEW thread, NEW id, NEW prev, NEW p,
         ValidateMessage(Message(thread, id, "room", <<>>, prev, p))
  PROVE  LET m == Message(thread, id, "room", <<>>, prev, p)
             s == Sign(m, "agent")
         IN ValidateMessage(s) /\ s.thread = thread /\ s.id = id /\ s.prev = prev /\ m.id = id
  <1> DEFINE m == Message(thread, id, "room", <<>>, prev, p)
             s == Sign(m, "agent")
  <1>1. /\ m.thread = thread /\ m.id = id /\ m.to = <<>> /\ m.prev = prev /\ m.payload = p
        /\ m = [x \in {"thread", "id", "room", "to", "prev", "payload", "signer", "signature"} |-> m[x]]
    BY DEF Message
  <1> HIDE DEF m
  <1>2. /\ s.thread = thread /\ s.id = id /\ s.to = <<>> /\ s.prev = prev /\ s.payload = p
        /\ s.signer = "agent" /\ \E c : s.signature = <<c>>
    BY <1>1 DEF Sign
  <1> HIDE DEF s
  <1>3. s.signature # <<>>
    BY <1>2
  <1>4. ValidateMessage(m)
    BY DEF m
  <1>5. ValidateMessage(s)
    <2>1. (s.signer = "") = FALSE /\ (s.signature = <<>>) = FALSE
      BY <1>2, <1>3
    <2>2. ValidateSignature(s)
      BY <2>1 DEF ValidateSignature
    <2>3. m.id # <<>> /\ m.thread # 0 /\ m.payload # "blank"
      BY <1>4 DEF ValidateMessage
    <2>4. \A i, j \in DOMAIN s.to : i # j => s.to[i] # s.to[j]
      BY <1>2
    <2> QED  BY <1>1, <1>2, <2>2, <2>3, <2>4 DEF ValidateMessage
  <1> QED  BY <1>1, <1>2, <1>5 DEF s, m

\* A run begins with nothing built.
LEMMA FreshRecord ==
  ASSUME NEW h, Fresh(h)
  PROVE  Record(h) /\ h.at = "walk" /\ h.ack = "none"
  <1>1. PICK plan \in Seq(StepIDs), thread \in Nat \ {0} : \E depth, parent, root :
          h = NewRun(plan, thread, depth, parent, root)
    BY DEF Fresh
  <1> PICK depth, parent, root : h = NewRun(plan, thread, depth, parent, root)
    BY <1>1
  <1>2. /\ h.at = "walk" /\ h.todo = plan /\ h.thread = thread /\ h.seen = {}
        /\ h.built = <<>> /\ h.ack = "none" /\ h.err = "nil"
        /\ h = [f \in RunFields |-> h[f]]
    BY DEF NewRun, RunFields
  <1>3. Chain(<<>>, thread, {})
    BY DEF Chain, IsList
  <1>4. IsFiniteSet({}) /\ "walk" \in Stops /\ "walk" \notin Gated
    BY FS_EmptySet DEF Stops, Gated
  <1> QED  BY <1>2, <1>3, <1>4 DEF Record

\* A move keeps a run's record in order, and acks for something else only
\* when it is mistaken.
LEMMA MovesKeep ==
  ASSUME NEW g, NEW h, NEW mistaken, g = NoRun \/ Record(g), Moves(g, h, mistaken)
  PROVE  /\ h = NoRun \/ Record(h)
         /\ h.at \notin {"idle", "done"} /\ h.ack = "other" =>
              mistaken \/ (g.at \notin {"idle", "done"} /\ g.ack = "other")
  <1> DEFINE Kept == /\ h = NoRun \/ Record(h)
                     /\ h.at \notin {"idle", "done"} /\ h.ack = "other" =>
                          mistaken \/ (g.at \notin {"idle", "done"} /\ g.ack = "other")
  <1>1. NoRun.at = "idle"
    BY DEF NoRun
  <1>2. CASE Aside(g, h)
    BY <1>1, <1>2, FreshRecord DEF Aside
  <1> SUFFICES ASSUME Record(g), Opens(g, h) \/ Goes(g, h) \/ Acks(g, h, mistaken)
                                 \/ Leaves(g, h) \/ Ends(g, h) \/ Closes(g, h)
               PROVE  Kept
    BY <1>2 DEF Moves
  <1>3. /\ g = [f \in RunFields |-> g[f]] /\ g.at \in Stops /\ g.todo \in Seq(StepIDs)
        /\ g.thread \in Nat \ {0} /\ IsFiniteSet(g.seen) /\ g.err # "unverified"
        /\ g.at \in {"walk", "verified"} => Chain(g.built, g.thread, g.seen)
        /\ g.at \in Gated =>
             /\ g.todo # <<>> /\ IsList(g.built) /\ g.msg = <<g.msg[1]>>
             /\ Chain(Append(g.built, g.msg[1]), g.thread, g.seen)
    BY DEF Record
  <1>4. CASE Opens(g, h)
    <2> DEFINE id == UniqueStepID(g.seen, Head(g.todo))
    <2>0. PICK p : /\ ValidateMessage(Opened(g, p))
                 /\ h = [g EXCEPT !.at = "delivered", !.msg = <<Sign(Opened(g, p), "agent")>>,
                                  !.seen = @ \cup {id}]
      BY <1>4 DEF Opens
    <2> DEFINE m == Sign(Opened(g, p), "agent")
    <2>1. g.at = "walk" /\ g.todo # <<>> /\ Head(g.todo) \in StepIDs
      <3>1. g.at = "walk" /\ g.todo # <<>>
        BY <1>4 DEF Opens
      <3>2. Head(g.todo) \in StepIDs
        BY <1>3, <3>1
      <3> QED  BY <3>1, <3>2
    <2>2. id \notin g.seen
      BY <1>3, <2>1, UniqueIsNew
    <2>3. /\ ValidateMessage(m) /\ m.thread = g.thread /\ m.id = id
          /\ m.prev = IF g.built = <<>> THEN <<>> ELSE Hash(Last(g.built))
      BY <2>0, SignKeeps DEF Opened
    <2> HIDE DEF id, m
    <2>4. /\ h.at = "delivered" /\ h.msg = <<m>> /\ h.seen = g.seen \cup {id}
          /\ h.todo = g.todo /\ h.thread = g.thread /\ h.built = g.built
          /\ h.err = g.err /\ h.ack = g.ack /\ h = [f \in RunFields |-> h[f]]
      BY <1>3, <2>0 DEF RunFields, id, m
    <2>5. Chain(g.built, g.thread, g.seen) /\ IsList(g.built)
      BY <1>3, <2>1 DEF Chain
    <2>6. Chain(Append(g.built, m), g.thread, g.seen \cup {id})
      BY <2>2, <2>3, <2>5, ChainGrows
    <2>7. h.msg = <<h.msg[1]>> /\ h.msg[1] = m
      BY <2>4
    <2>9. IsFiniteSet(g.seen \cup {id})
      BY <1>3, FS_AddElement
    <2>8. "delivered" \in Stops /\ "delivered" \notin {"walk", "verified"}
      BY DEF Stops, Gated
    <2> QED  BY <1>3, <2>1, <2>4, <2>5, <2>6, <2>7, <2>8, <2>9 DEF Record
  <1>5. CASE Goes(g, h)
    <2>0. PICK label : <<g.at, label>> \in Paths /\ h = [g EXCEPT !.at = label]
      BY <1>5 DEF Goes
    <2>1. /\ h.at = label /\ h.msg = g.msg /\ h.seen = g.seen
          /\ h.todo = g.todo /\ h.thread = g.thread /\ h.built = g.built
          /\ h.err = g.err /\ h.ack = g.ack /\ h = [f \in RunFields |-> h[f]]
      BY <1>3, <2>0 DEF RunFields
    <2>2. \/ g.at \in Gated /\ label \in Gated \ {"walk", "verified"}
          \/ g.at = "walk" /\ label = "verified"
      BY <2>0 DEF Paths, Gated
    <2>3. g.at \notin {"idle", "done"} /\ label \in Stops /\ "verified" \notin Gated
      BY <2>2 DEF Gated, Stops
    <2> QED  BY <1>3, <2>1, <2>2, <2>3 DEF Record
  <1>6. CASE Acks(g, h, mistaken)
    <2>0. PICK label, by :
          <<g.at, label>> \in AckPaths /\ (by = "other" => mistaken) /\ h = Acked(g, label, by)
      BY <1>6 DEF Acks
    <2>1. /\ h.at = label /\ h.msg = g.msg /\ h.seen = g.seen
          /\ h.todo = g.todo /\ h.thread = g.thread /\ h.built = g.built
          /\ h.err = g.err /\ h.ack = by /\ h = [f \in RunFields |-> h[f]]
      BY <1>3, <2>0 DEF RunFields, Acked
    <2>2. g.at \in Gated /\ label \in Gated \ {"walk", "verified"}
      BY <2>0 DEF Gated, AckPaths
    <2>3. label \in Stops /\ (by = "other" => mistaken)
      BY <2>0, <2>2 DEF Stops
    <2> QED  BY <1>3, <2>1, <2>2, <2>3 DEF Record
  <1>7. CASE Leaves(g, h)
    <2>0. PICK err \in {"nil", "failed"} : h = [g EXCEPT !.at = "stop", !.err = err]
      BY <1>7 DEF Leaves
    <2>1. /\ h.at = "stop" /\ h.seen = g.seen /\ h.todo = g.todo /\ h.thread = g.thread
          /\ h.err = err /\ h.ack = g.ack /\ h = [f \in RunFields |-> h[f]]
      BY <1>3, <2>0 DEF RunFields
    <2>2. "stop" \in Stops /\ "stop" \notin Gated \cup {"walk", "verified"}
      BY DEF Stops, Gated
    <2>3. g.at \notin {"idle", "done"}
      BY <1>7 DEF Leaves, Stops, Gated
    <2> QED  BY <1>3, <2>1, <2>2, <2>3 DEF Record
  <1>8. CASE Ends(g, h)
    <2>0. PICK err \in {g.err, "failed"} : h = [g EXCEPT !.at = "done", !.err = err]
      BY <1>8 DEF Ends
    <2>1. /\ h.at = "done" /\ h.seen = g.seen /\ h.todo = g.todo /\ h.thread = g.thread
          /\ h.err = err /\ h = [f \in RunFields |-> h[f]]
      BY <1>3, <2>0 DEF RunFields
    <2>2. "done" \in Stops /\ "done" \notin Gated \cup {"walk", "verified"}
      BY DEF Stops, Gated
    <2> QED  BY <1>3, <2>1, <2>2 DEF Record
  <1>9. CASE Closes(g, h)
    <2>1. /\ h.at = "walk" /\ h.seen = g.seen /\ h.todo = Tail(g.todo)
          /\ h.thread = g.thread /\ h.built = g.built \o g.msg
          /\ h.err = g.err /\ h.ack = "none" /\ h = [f \in RunFields |-> h[f]]
      BY <1>3, <1>9 DEF Closes, RunFields
    <2>2. g.at \in Gated /\ "walk" \in Stops /\ "walk" \notin Gated
      BY <1>9 DEF Closes, Gated, Stops
    <2>3. g.built \o g.msg = Append(g.built, g.msg[1])
      <3>1. IsList(g.built) /\ g.msg = <<g.msg[1]>>
        BY <1>3, <2>2
      <3>2. g.built \o <<g.msg[1]>> = Append(g.built, g.msg[1])
        BY <3>1, AppendToList
      <3> QED  BY <3>1, <3>2
    <2>4. Tail(g.todo) \in Seq(StepIDs)
      BY <1>3, <2>2
    <2> QED  BY <1>3, <2>1, <2>2, <2>3, <2>4 DEF Record
  <1> QED  BY <1>4, <1>5, <1>6, <1>7, <1>8, <1>9

\* The answer r has been given is not to its own question.
MistakenAnswer(r) ==
  /\ run[r].at = "ask" /\ call[r].at = "told" /\ call[r].what = "approved"
  /\ call[r].of # Question(r, run[r].msg[1].id)

\* The result r has been given is not of its own task, or not the pinned
\* agent's.
MistakenResult(r) ==
  /\ run[r].at = "remote" /\ exchange[r].at = "told" /\ exchange[r].what = "confirmed"
  /\ ~ (/\ task[r].state = "completed" /\ task[r].of = run[r].msg
        /\ ExpectSigner = "" \/ task[r].result[1].msg.signer = ExpectSigner)

Mistaken(r) == MistakenAnswer(r) \/ MistakenResult(r)

\* What a step of r does to the runs.
Stepped(r) ==
  /\ threadSeq' \in Nat /\ crew' = crew /\ DOMAIN run' = Runners
  /\ Moves(run[r], run'[r], Mistaken(r))
  /\ \A x \in Runners \ {r} : Aside(run[x], run'[x])

\* A run that has left "idle" has a record.
LEMMA LiveRecord ==
  ASSUME RunsInv, NEW r \in Runners, run[r].at # "idle"
  PROVE  Record(run[r])
  BY DEF RunsInv, NoRun

\* A step that changes the run of r alone.
LEMMA SteppedAlone ==
  ASSUME RunsInv, NEW r \in Runners, NEW h, run' = [run EXCEPT ![r] = h],
         Moves(run[r], h, Mistaken(r)), threadSeq' \in Nat, crew' = crew
  PROVE  Stepped(r)
  <1>1. DOMAIN run' = Runners /\ run'[r] = h /\ \A x \in Runners \ {r} : run'[x] = run[x]
    BY DEF RunsInv
  <1> QED  BY <1>1 DEF Stepped, Aside

\* Agent.Run returns, whoever else has changed.
LEMMA SteppedOut ==
  ASSUME RunsInv, NEW r \in Runners, run[r].at \in Stops \ {"stop", "done"},
         NEW err \in {"nil", "failed"}, NEW runs, DOMAIN runs = Runners, runs[r] = run[r],
         \A x \in Runners \ {r} : Aside(run[x], runs[x]),
         ReturnsFrom(runs, r, err)
  PROVE  Stepped(r)
  <1>1. run' = [runs EXCEPT ![r].at = "stop", ![r].err = err]
        /\ threadSeq' = threadSeq /\ crew' = crew
    BY DEF ReturnsFrom
  <1> DEFINE h == [run[r] EXCEPT !.at = "stop", !.err = err]
  <1>2. run'[r] = h /\ DOMAIN run' = Runners /\ \A x \in Runners \ {r} : run'[x] = runs[x]
    BY <1>1
  <1>3. Leaves(run[r], h)
    BY DEF Leaves
  <1>4. Record(run[r])
    BY LiveRecord DEF Stops, Gated
  <1> HIDE DEF h
  <1>5. Moves(run[r], h, Mistaken(r))
    BY <1>3, <1>4 DEF Moves
  <1> QED  BY <1>1, <1>2, <1>5 DEF Stepped, RunsInv

\* The tool's text is acked, whoever else has changed.
LEMMA SteppedText ==
  ASSUME RunsInv, NEW r \in Runners, run[r].at \in {"tool", "spawned"},
         NEW text, NEW runs, DOMAIN runs = Runners, runs[r] = run[r],
         \A x \in Runners \ {r} : Aside(run[x], runs[x]),
         ToolText(runs, r, text)
  PROVE  Stepped(r)
  <1>1. run[r].at \in Stops \ {"stop", "done"}
    BY DEF Stops, Gated
  <1>2. CASE ReturnsFrom(runs, r, "failed")
    BY <1>1, <1>2, SteppedOut
  <1>3. CASE /\ run' = [runs EXCEPT ![r].at = "post", ![r].ack = "tool"]
             /\ threadSeq' = threadSeq /\ crew' = crew
    <2> DEFINE h == [run[r] EXCEPT !.at = "post", !.ack = "tool"]
    <2>1. run'[r] = h /\ DOMAIN run' = Runners /\ \A x \in Runners \ {r} : run'[x] = runs[x]
      BY <1>3
    <2>2. Acks(run[r], h, Mistaken(r))
      <3>1. <<run[r].at, "post">> \in AckPaths
        BY DEF AckPaths
      <3>2. h = Acked(run[r], "post", "tool")
        BY DEF Acked
      <3> HIDE DEF h
      <3> QED  BY <3>1, <3>2 DEF Acks
    <2>3. Record(run[r])
      BY LiveRecord
    <2> HIDE DEF h
    <2>4. Moves(run[r], h, Mistaken(r))
      BY <2>2, <2>3 DEF Moves
    <2> QED  BY <1>3, <2>1, <2>4 DEF Stepped, RunsInv
  <1> QED  BY <1>2, <1>3 DEF ToolText

\* A run goes on at another place.
LEMMA SteppedOn ==
  ASSUME RunsInv, NEW r \in Runners, NEW label, <<run[r].at, label>> \in Paths,
         run' = [run EXCEPT ![r].at = label], threadSeq' \in Nat, crew' = crew
  PROVE  Stepped(r)
  <1> DEFINE h == [run[r] EXCEPT !.at = label]
  <1>1. run' = [run EXCEPT ![r] = h]
    OBVIOUS
  <1>2. Goes(run[r], h)
    BY DEF Goes
  <1>3. Record(run[r])
    BY LiveRecord DEF Paths
  <1> HIDE DEF h
  <1>4. Moves(run[r], h, Mistaken(r))
    BY <1>2, <1>3 DEF Moves
  <1> QED  BY <1>1, <1>4, SteppedAlone

\* Agent.Run returns and no other run changes.
LEMMA SteppedBack ==
  ASSUME RunsInv, NEW r \in Runners, run[r].at \in Stops \ {"stop", "done"},
         NEW err \in {"nil", "failed"}, AgentReturns(r, err)
  PROVE  Stepped(r)
  <1>1. ReturnsFrom(run, r, err) /\ DOMAIN run = Runners
    BY DEF AgentReturns, RunsInv
  <1>2. \A x \in Runners \ {r} : Aside(run[x], run[x])
    BY DEF Aside
  <1> QED  BY <1>1, <1>2, SteppedOut

\* A run acks and no other run changes.
LEMMA SteppedAck ==
  ASSUME RunsInv, NEW r \in Runners, NEW label, <<run[r].at, label>> \in AckPaths,
         NEW by, by = "other" => Mistaken(r), run' = [run EXCEPT ![r].at = label, ![r].ack = by],
         threadSeq' \in Nat, crew' = crew
  PROVE  Stepped(r)
  <1>1. run' = [run EXCEPT ![r] = Acked(run[r], label, by)]
    BY DEF Acked, RunsInv
  <1>2. Acks(run[r], Acked(run[r], label, by), Mistaken(r))
    BY DEF Acks
  <1>3. Record(run[r])
    BY LiveRecord DEF AckPaths
  <1>4. Moves(run[r], Acked(run[r], label, by), Mistaken(r))
    BY <1>2, <1>3 DEF Moves
  <1> QED  BY <1>1, <1>4, SteppedAlone

\* What every step of a run does to the runs.
LEMMA RunMoves ==
  ASSUME RunsInv, NEW r \in Runners, RunStep(r)
  PROVE  Stepped(r)
  <1>1. threadSeq \in Nat /\ DOMAIN run = Runners /\ crew \in Crews
    BY DEF RunsInv
  <1>2. \A label : run[r].at = label /\ label \in Stops \ {"stop", "done"} /\ Fails(r) => Stepped(r)
    BY SteppedBack DEF Fails
  <1>3. Stops = {"delivered", "pre", "tool", "ask", "spawned", "remote", "post", "acked",
                 "walk", "verified", "stop", "done"}
    BY DEF Stops, Gated
  <1>4. CASE Start(r)
    <2> DEFINE h == NewRun(crew.plan[r], threadSeq + 1, 0, r, r)
    <2>1. run[r] = NoRun /\ run' = [run EXCEPT ![r] = h] /\ threadSeq' = threadSeq + 1 /\ crew' = crew
      BY <1>4 DEF Start
    <2>2. crew.plan[r] \in Seq(StepIDs) /\ threadSeq + 1 \in Nat \ {0}
      BY <1>1, CrewAssumption
    <2>3. Fresh(h)
      BY <2>2 DEF Fresh
    <2> HIDE DEF h
    <2>4. Moves(run[r], h, Mistaken(r))
      BY <2>1, <2>3 DEF Moves, Aside
    <2>5. threadSeq' \in Nat
      BY <2>1, <2>2
    <2> QED  BY <2>1, <2>4, <2>5, SteppedAlone
  <1>5. CASE ConfirmStep(r)
    <2>1. run[r].at = "walk" /\ run[r].todo # <<>>
      BY <1>5 DEF ConfirmStep
    <2>2. CASE Fails(r)
      BY <2>1, <2>2, <1>2, <1>3
    <2>3. ASSUME NEW p, ValidateMessage(Opened(run[r], p)),
                 run' = [run EXCEPT ![r].at = "delivered", ![r].msg = <<Sign(Opened(run[r], p), "agent")>>,
                                    ![r].seen = @ \cup {UniqueStepID(run[r].seen, Head(run[r].todo))}],
                 UNCHANGED ownVars
          PROVE  Stepped(r)
      <3> DEFINE g == run[r]
                 h == [g EXCEPT !.at = "delivered", !.msg = <<Sign(Opened(g, p), "agent")>>,
                                !.seen = @ \cup {UniqueStepID(g.seen, Head(g.todo))}]
      <3>1. run' = [run EXCEPT ![r] = h]
        BY <2>3, <1>1
      <3>2. Opens(g, h)
        BY <2>1, <2>3 DEF Opens
      <3>3. Record(g)
        BY <2>1, LiveRecord
      <3> HIDE DEF g, h
      <3>4. Moves(g, h, Mistaken(r))
        BY <3>2, <3>3 DEF Moves
      <3>5. threadSeq' = threadSeq /\ crew' = crew
        BY <2>3 DEF ownVars
      <3> QED  BY <1>1, <3>1, <3>4, <3>5, SteppedAlone DEF g
    <2> QED  BY <1>5, <2>2, <2>3 DEF ConfirmStep, Opened
  <1>6. CASE Paused(r)
    BY <1>2, <1>3, <1>6 DEF Paused
  <1>7. CASE Gate(r)
    <2>1. run[r].at = "delivered"
      BY <1>7 DEF Gate, Through
    <2>2. CASE Fails(r)
      BY <2>1, <2>2, <1>2, <1>3
    <2>3. ASSUME NEW label \in {"pre", "remote"}, run' = [run EXCEPT ![r].at = label],
                 threadSeq' = threadSeq, crew' = crew
          PROVE  Stepped(r)
      <3>1. <<run[r].at, label>> \in Paths
        BY <2>1 DEF Paths
      <3> QED  BY <1>1, <2>3, <3>1, SteppedOn
    <2> QED  BY <1>7, <2>2, <2>3 DEF Gate
  <1>8. CASE Handler(r)
    <2>1. run' = run /\ threadSeq' = threadSeq /\ crew' = crew
      BY <1>8 DEF Handler, ownVars
    <2> QED  BY <1>1, <2>1 DEF Stepped, Moves, Aside
  <1>9. CASE PreHooks(r)
    <2>1. run[r].at = "pre"
      BY <1>9 DEF PreHooks, Through
    <2>2. CASE Fails(r)
      BY <2>1, <2>2, <1>2, <1>3
    <2>3. CASE RunGoes(r, "tool")
      <3>1. <<run[r].at, "tool">> \in Paths
        BY <2>1 DEF Paths
      <3>2. run' = [run EXCEPT ![r].at = "tool"] /\ threadSeq' = threadSeq /\ crew' = crew
        BY <2>3 DEF RunGoes, ownVars
      <3> QED  BY <1>1, <3>1, <3>2, SteppedOn
    <2> QED  BY <1>9, <2>2, <2>3 DEF PreHooks
  <1>10. CASE PostHooks(r)
    <2>1. run[r].at = "post"
      BY <1>10 DEF PostHooks, Through
    <2>2. CASE Fails(r)
      BY <2>1, <2>2, <1>2, <1>3
    <2>3. CASE RunGoes(r, "acked")
      <3>1. <<run[r].at, "acked">> \in Paths
        BY <2>1 DEF Paths
      <3>2. run' = [run EXCEPT ![r].at = "acked"] /\ threadSeq' = threadSeq /\ crew' = crew
        BY <2>3 DEF RunGoes, ownVars
      <3> QED  BY <1>1, <3>1, <3>2, SteppedOn
    <2> QED  BY <1>10, <2>2, <2>3 DEF PostHooks, Enter
  <1>11. CASE RunTool(r)
    <2>1. run[r].at = "tool"
      BY <1>11 DEF RunTool
    <2>2. CASE Fails(r)
      BY <2>1, <2>2, <1>2, <1>3
    <2>3. CASE RunGoes(r, "ask")
      <3>1. <<run[r].at, "ask">> \in Paths
        BY <2>1 DEF Paths
      <3>2. run' = [run EXCEPT ![r].at = "ask"] /\ threadSeq' = threadSeq /\ crew' = crew
        BY <2>3 DEF RunGoes, ownVars
      <3> QED  BY <1>1, <3>1, <3>2, SteppedOn
    <2>4. ASSUME NEW text, ToolText(run, r, text)
          PROVE  Stepped(r)
      <3>1. \A x \in Runners \ {r} : Aside(run[x], run[x])
        BY DEF Aside
      <3> QED  BY <1>1, <2>1, <2>4, <3>1, SteppedText
    <2> QED  BY <1>11, <2>2, <2>3, <2>4 DEF RunTool
  <1>12. CASE Spawn(r)
    <2>1. run[r].at = "tool"
      BY <1>12 DEF Spawn
    <2>2. CASE Fails(r)
      BY <2>1, <2>2, <1>2, <1>3
    <2>3. ASSUME NEW c \in Runners, run[c] = NoRun, threadSeq' = threadSeq + 1, crew' = crew,
                 run' = [run EXCEPT ![r].at = "spawned",
                            ![c] = NewRun(crew.child, threadSeq', SpawnDepth(r), r, run[r].root)]
          PROVE  Stepped(r)
      <3> DEFINE new == NewRun(crew.child, threadSeq + 1, SpawnDepth(r), r, run[r].root)
                 h == [run[r] EXCEPT !.at = "spawned"]
      <3>1. c # r
        BY <2>1, <2>3 DEF NoRun
      <3>2. run' = [run EXCEPT ![r].at = "spawned", ![c] = new]
        BY <2>3
      <3>3. Goes(run[r], h)
        <4>1. <<run[r].at, "spawned">> \in Paths
          BY <2>1 DEF Paths
        <4> QED  BY <4>1 DEF Goes
      <3>4. crew.child \in Seq(StepIDs) /\ threadSeq + 1 \in Nat \ {0}
        BY <1>1, CrewAssumption
      <3>5. Fresh(new)
        BY <3>4 DEF Fresh
      <3> HIDE DEF new
      <3>6. DOMAIN run' = Runners /\ run'[r] = h /\ run'[c] = new
            /\ \A x \in Runners \ {r, c} : run'[x] = run[x]
        BY <1>1, <3>1, <3>2
      <3> HIDE DEF h
      <3>7. Record(run[r])
        BY <2>1, LiveRecord
      <3>8. Moves(run[r], h, Mistaken(r))
        BY <3>3, <3>7 DEF Moves
      <3>9. \A x \in Runners \ {r} : Aside(run[x], run'[x])
        BY <2>3, <3>5, <3>6 DEF Aside
      <3>10. threadSeq' \in Nat
        BY <1>1, <2>3
      <3> QED  BY <2>3, <3>6, <3>8, <3>9, <3>10 DEF Stepped
    <2> QED  BY <1>12, <2>2, <2>3 DEF Spawn
  <1>13. CASE SpawnReturns(r)
    <2>1. run[r].at = "spawned"
      BY <1>13 DEF SpawnReturns
    <2>2. PICK c \in Runners \ {r} :
            /\ run[c].at = "done"
            /\ \/ \E text \in Texts : ToolText([run EXCEPT ![c] = NoRun], r, text)
               \/ ReturnsFrom([run EXCEPT ![c] = NoRun], r, "failed")
      BY <1>13 DEF SpawnReturns
    <2>3. PICK runs : runs = [run EXCEPT ![c] = NoRun]
      OBVIOUS
    <2>4. DOMAIN runs = Runners /\ runs[r] = run[r] /\ \A x \in Runners \ {r} : Aside(run[x], runs[x])
      BY <1>1, <2>2, <2>3 DEF Aside
    <2>5. run[r].at \in Stops \ {"stop", "done"}
      BY <1>3, <2>1
    <2>6. CASE \E text \in Texts : ToolText(runs, r, text)
      <3>1. PICK text \in Texts : ToolText(runs, r, text)
        BY <2>6
      <3> QED  BY <1>1, <2>1, <2>4, <3>1, SteppedText
    <2>7. CASE ReturnsFrom(runs, r, "failed")
      BY <2>4, <2>5, <2>7, SteppedOut
    <2> QED  BY <2>2, <2>3, <2>6, <2>7
  <1>14. CASE AskReturns(r)
    <2>1. run[r].at = "ask" /\ call[r].at = "told"
      BY <1>14 DEF AskReturns
    <2>2. CASE Fails(r)
      BY <2>1, <2>2, <1>2, <1>3
    <2>3. ASSUME NEW by, call[r].what = "approved", Confirmed(r, by),
                 by = IF call[r].of = Question(r, run[r].msg[1].id) THEN "human" ELSE "other"
          PROVE  Stepped(r)
      <3>1. <<run[r].at, "post">> \in AckPaths
        BY <2>1 DEF AckPaths
      <3>2. run' = [run EXCEPT ![r].at = "post", ![r].ack = by] /\ threadSeq' = threadSeq /\ crew' = crew
        BY <2>3 DEF Confirmed, ownVars
      <3>3. by = "other" => Mistaken(r)
        BY <2>1, <2>3 DEF Mistaken, MistakenAnswer
      <3> QED  BY <1>1, <3>1, <3>2, <3>3, SteppedAck
    <2> QED  BY <1>14, <2>2, <2>3 DEF AskReturns
  <1>15. CASE RemoteReturns(r)
    <2>1. run[r].at = "remote" /\ exchange[r].at = "told"
      BY <1>15 DEF RemoteReturns
    <2>2. CASE Fails(r)
      BY <2>1, <2>2, <1>2, <1>3
    <2> DEFINE Right == /\ task[r].state = "completed" /\ task[r].of = run[r].msg
                        /\ ExpectSigner = "" \/ task[r].result[1].msg.signer = ExpectSigner
    <2>3. ASSUME NEW by, exchange[r].what = "confirmed", by = IF Right THEN "remote" ELSE "other",
                 run' = [run EXCEPT ![r].at = "acked", ![r].ack = by], UNCHANGED ownVars
          PROVE  Stepped(r)
      <3>1. <<run[r].at, "acked">> \in AckPaths
        BY <2>1 DEF AckPaths
      <3>2. threadSeq' = threadSeq /\ crew' = crew
        BY <2>3 DEF ownVars
      <3>3. by = "other" => Mistaken(r)
        BY <2>1, <2>3 DEF Mistaken, MistakenResult
      <3> QED  BY <1>1, <2>3, <3>1, <3>2, <3>3, SteppedAck
    <2> QED  BY <1>15, <2>2, <2>3 DEF RemoteReturns
  <1>16. CASE StepDone(r)
    <2> DEFINE g == run[r]
               h == [g EXCEPT !.at = "walk", !.built = @ \o g.msg, !.todo = Tail(@),
                              !.msg = <<>>, !.ack = "none"]
    <2>1. g.at = "acked"
      BY <1>16 DEF StepDone, Through
    <2>2. run' = [run EXCEPT ![r] = h] /\ threadSeq' = threadSeq /\ crew' = crew
      BY <1>1, <1>16 DEF StepDone, ownVars
    <2>3. Closes(g, h)
      BY <2>1 DEF Closes
    <2>4. Record(g)
      BY <2>1, LiveRecord
    <2> HIDE DEF g, h
    <2>5. Moves(g, h, Mistaken(r))
      BY <2>3, <2>4 DEF Moves
    <2> QED  BY <1>1, <2>2, <2>5, SteppedAlone DEF g
  <1>17. CASE WalkEnds(r)
    <2>1. run[r].at = "walk"
      BY <1>17 DEF WalkEnds
    <2>2. CASE AgentReturns(r, "nil")
      BY <2>1, <2>2, <1>3, SteppedBack
    <2>3. CASE RunGoes(r, "verified")
      <3>1. <<run[r].at, "verified">> \in Paths
        BY <2>1 DEF Paths
      <3>2. run' = [run EXCEPT ![r].at = "verified"] /\ threadSeq' = threadSeq /\ crew' = crew
        BY <2>3 DEF RunGoes, ownVars
      <3> QED  BY <1>1, <3>1, <3>2, SteppedOn
    <2>4. run[r].built # <<>> => VerifyThread(run[r].built)
      <3>1. Chain(run[r].built, run[r].thread, run[r].seen)
        BY <2>1, LiveRecord DEF Record
      <3> QED  BY <3>1, ChainVerifies
    <2> QED  BY <1>17, <2>2, <2>3, <2>4 DEF WalkEnds, Enter
  <1>18. CASE ThreadVerified(r)
    <2>1. run[r].at = "verified" /\ AgentReturns(r, "nil")
      BY <1>18 DEF ThreadVerified, Through
    <2> QED  BY <2>1, <1>3, SteppedBack
  <1>19. CASE RunReturns(r)
    <2>1. PICK err \in {run[r].err, "failed"} :
            run' = [run EXCEPT ![r].at = "done", ![r].err = err] /\ UNCHANGED ownVars
      BY <1>19 DEF RunReturns
    <2> DEFINE h == [run[r] EXCEPT !.at = "done", !.err = err]
    <2>2. run' = [run EXCEPT ![r] = h] /\ threadSeq' = threadSeq /\ crew' = crew
      BY <1>1, <2>1 DEF ownVars
    <2>3. run[r].at = "stop"
      BY <1>19 DEF RunReturns, Through
    <2>4. Ends(run[r], h)
      BY <2>3 DEF Ends
    <2>5. Record(run[r])
      BY <2>3, LiveRecord
    <2> HIDE DEF h
    <2>6. Moves(run[r], h, Mistaken(r))
      BY <2>4, <2>5 DEF Moves
    <2> QED  BY <1>1, <2>2, <2>6, SteppedAlone
  <1> QED  BY <1>4, <1>5, <1>6, <1>7, <1>8, <1>9, <1>10, <1>11, <1>12, <1>13, <1>14,
              <1>15, <1>16, <1>17, <1>18, <1>19 DEF RunStep

\* A step that is not a run's leaves the runs alone.
LEMMA OthersStay ==
  ASSUME [CrewNext]_crewVars
  PROVE  \/ \E r \in Runners : RunStep(r)
         \/ UNCHANGED <<run, threadSeq, crew>>
  <1>1. ASSUME NEW r \in Runners, Cancel(r) \/ WaitStep(r) \/ Remote(r)
        PROVE  UNCHANGED <<run, threadSeq, crew>>
    BY <1>1 DEF Cancel, WaitStep, Remote, ownVars
  <1>2. CASE ChangeHooks \/ NotifierStep \/ Peer \/ Noise
    BY <1>2 DEF ChangeHooks, NotifierStep, Peer, Noise, ownVars
  <1>3. CASE UNCHANGED crewVars
    BY <1>3 DEF crewVars
  <1> QED  BY <1>1, <1>2, <1>3 DEF CrewNext

\* Every step keeps the records in order.
LEMMA RunsKept ==
  ASSUME RunsInv, [CrewNext]_crewVars
  PROVE  RunsInv'
  <1>1. ASSUME NEW r \in Runners, RunStep(r)
        PROVE  RunsInv'
    <2>1. Stepped(r)
      BY <1>1, RunMoves
    <2>2. ASSUME NEW x \in Runners
          PROVE  run'[x] = NoRun \/ Record(run'[x])
      <3>1. \E mistaken : Moves(run[x], run'[x], mistaken)
        BY <2>1 DEF Stepped, Moves
      <3>2. run[x] = NoRun \/ Record(run[x])
        BY DEF RunsInv
      <3> QED  BY <3>1, <3>2, MovesKeep
    <2> QED  BY <2>1, <2>2 DEF Stepped, RunsInv
  <1>2. CASE UNCHANGED <<run, threadSeq, crew>>
    BY <1>2 DEF RunsInv
  <1> QED  BY <1>1, <1>2, OthersStay

\* The runs start in order.
LEMMA RunsStart ==
  ASSUME CrewInit
  PROVE  RunsInv
  BY DEF CrewInit, RunsInv

\* The records of the runs are in order: for any plans and step names, and
\* however the runs interleave.
THEOREM RunsInvariance == CrewSpec => []RunsInv
  <1>1. CrewInit => RunsInv
    BY RunsStart
  <1>2. RunsInv /\ [CrewNext]_crewVars => RunsInv'
    BY RunsKept
  <1> QED  BY <1>1, <1>2, PTL DEF CrewSpec

\* The thread a run has built verifies, whatever its steps are called and
\* however often the walk repeats them (run.go uniqueStepID).
THEOREM ThreadsAreVerified == CrewSpec => []ThreadsVerify
  <1>1. RunsInv => ThreadsVerify
    BY LiveRecord DEF ThreadsVerify, Live, Record
  <1> QED  BY <1>1, RunsInvariance, PTL

-----------------------------------------------------------------------------
(* The notifier and the remote exchanges.                                  *)

\* What a step does to the notifier, seen with the runs: all but the last
\* leave the run of every caller that is in a call where it is.
NoteStep ==
  \/ /\ UNCHANGED notifierVars
     /\ \A x \in Runners : run[x].at = "ask" => run'[x] = run[x]
  \/ \E r \in Runners :
       /\ run[r].at = "tool" /\ Ask(r, run[r].msg[1].id)
       /\ run'[r].at = "ask" /\ run'[r].msg = run[r].msg
       /\ \A x \in Runners : run[x].at = "ask" => run'[x] = run[x]
  \/ /\ run' = run
     /\ \/ WriteQuestion \/ ScanAnswer \/ ReadFails
        \/ PeerAnswers \/ PeerCloses \/ PeerNoise
        \/ \E r \in Runners : CancelAsk(r)
  \/ \E r \in Runners :
       /\ run[r].at = "ask" /\ call[r].at = "told"
       /\ Heard(r) /\ UNCHANGED <<pipe, asked, lines, noise, closed>>
       /\ \A x \in Runners \ {r} : run[x].at = "ask" => run'[x] = run[x]

\* What a step does to the exchange of x.
ExchangeStep(x) ==
  \/ /\ exchange'[x] = exchange[x] /\ task'[x] = task[x]
     /\ run[x].at = "remote" => run'[x] = run[x]
  \/ /\ run[x].at = "delivered" /\ run'[x].at = "remote" /\ run'[x].msg = run[x].msg
     /\ exchange'[x] = [at |-> "sending", msg |-> run[x].msg[1]] /\ task'[x] = task[x]
  \/ /\ run' = run
     /\ RemoteSend(x) \/ RemotePoll(x) \/ RemoteFetch(x) \/ RemoteTimeout(x) \/ RemoteProgress(x)
  \/ exchange'[x] = NoExchange /\ task'[x] = task[x]

\* What is aside does not touch a run that is under way.
LEMMA AsideStays ==
  ASSUME NEW g, NEW h, Aside(g, h), g.at \notin {"idle", "done"}
  PROVE  h = g
  BY DEF Aside, NoRun

\* In a step of r the others that are under way stay where they are.
LEMMA SteppedStays ==
  ASSUME NEW r \in Runners, Stepped(r), NEW x \in Runners \ {r},
         run[x].at \notin {"idle", "done"}
  PROVE  run'[x] = run[x]
  BY AsideStays DEF Stepped

\* Every step is one of these to the notifier.
LEMMA NoteSteps ==
  ASSUME RunsInv, [CrewNext]_crewVars
  PROVE  NoteStep
  <1>1. ASSUME NEW r \in Runners, RunStep(r)
        PROVE  NoteStep
    <2>1. Stepped(r)
      BY <1>1, RunMoves
    <2>2. \A x \in Runners \ {r} : run[x].at = "ask" => run'[x] = run[x]
      BY <2>1, SteppedStays
    <2>3. ASSUME UNCHANGED notifierVars, run[r].at # "ask" \/ run' = run
          PROVE  NoteStep
      BY <2>2, <2>3 DEF NoteStep
    <2>4. CASE Start(r)
      BY <2>3, <2>4 DEF Start, NoRun
    <2>5. CASE ConfirmStep(r) \/ Paused(r) \/ WalkEnds(r)
      BY <2>3, <2>5 DEF ConfirmStep, Paused, WalkEnds
    <2>6. CASE Gate(r) \/ PreHooks(r) \/ PostHooks(r) \/ StepDone(r) \/ ThreadVerified(r) \/ RunReturns(r)
      BY <2>3, <2>6 DEF Gate, PreHooks, PostHooks, StepDone, ThreadVerified, RunReturns, Through
    <2>7. CASE Handler(r)
      BY <2>3, <2>7 DEF Handler
    <2>8. CASE Spawn(r) \/ SpawnReturns(r) \/ RemoteReturns(r)
      BY <2>3, <2>8 DEF Spawn, SpawnReturns, RemoteReturns
    <2>9. CASE RunTool(r)
      <3>1. run[r].at = "tool"
        BY <2>9 DEF RunTool
      <3>2. CASE UNCHANGED notifierVars
        BY <2>3, <3>1, <3>2
      <3>3. CASE Ask(r, run[r].msg[1].id) /\ RunGoes(r, "ask")
        <4>1. run' = [run EXCEPT ![r].at = "ask"] /\ DOMAIN run = Runners
          BY <3>3 DEF RunGoes, RunsInv
        <4>2. run[r] = [f \in RunFields |-> run[r][f]]
          BY <3>1, LiveRecord DEF Record
        <4>3. run'[r].at = "ask" /\ run'[r].msg = run[r].msg
          BY <4>1, <4>2 DEF RunFields
        <4> QED  BY <2>2, <3>1, <3>3, <4>3 DEF NoteStep
      <3> QED  BY <2>9, <3>2, <3>3 DEF RunTool
    <2>10. CASE AskReturns(r)
      BY <2>2, <2>10 DEF AskReturns, NoteStep
    <2> QED  BY <1>1, <2>4, <2>5, <2>6, <2>7, <2>8, <2>9, <2>10 DEF RunStep
  <1>2. ASSUME run' = run, UNCHANGED notifierVars
        PROVE  NoteStep
    BY <1>2 DEF NoteStep
  <1>3. ASSUME NEW r \in Runners, Cancel(r) \/ WaitStep(r) \/ Remote(r)
        PROVE  NoteStep
    BY <1>2, <1>3 DEF Cancel, WaitStep, Remote
  <1>4. CASE ChangeHooks
    BY <1>2, <1>4 DEF ChangeHooks
  <1>5. CASE NotifierStep
    BY <1>5 DEF NotifierStep, NoteStep
  <1>6. CASE Peer \/ Noise
    BY <1>6 DEF Peer, Noise, NoteStep
  <1>7. CASE UNCHANGED crewVars
    BY <1>2, <1>7 DEF crewVars
  <1> QED  BY <1>1, <1>3, <1>4, <1>5, <1>6, <1>7 DEF CrewNext

\* An exchange is its caller's.
LEMMA ExchangeAlone ==
  ASSUME DOMAIN exchange = Runners, DOMAIN task = Runners, NEW r \in Runners,
         RemoteSend(r) \/ RemotePoll(r) \/ RemoteFetch(r) \/ RemoteTimeout(r) \/ RemoteProgress(r)
  PROVE  /\ DOMAIN exchange' = Runners /\ DOMAIN task' = Runners
         /\ \A x \in Runners \ {r} : exchange'[x] = exchange[x] /\ task'[x] = task[x]
  <1>1. CASE RemoteSend(r)
    BY <1>1 DEF RemoteSend, ExchangeTold
  <1>2. CASE RemotePoll(r) \/ RemoteFetch(r) \/ RemoteTimeout(r)
    BY <1>2 DEF RemotePoll, RemoteFetch, RemoteTimeout, ExchangeTold
  <1>3. CASE RemoteProgress(r)
    BY <1>3 DEF RemoteProgress
  <1> QED  BY <1>1, <1>2, <1>3

\* Every step is one of these to the exchanges.
LEMMA ExchangeSteps ==
  ASSUME RunsInv, DOMAIN exchange = Runners, DOMAIN task = Runners, [CrewNext]_crewVars
  PROVE  /\ DOMAIN exchange' = Runners /\ DOMAIN task' = Runners
         /\ \A x \in Runners : ExchangeStep(x)
  <1> DEFINE Fine == /\ DOMAIN exchange' = Runners /\ DOMAIN task' = Runners
                     /\ \A x \in Runners : ExchangeStep(x)
  <1> SUFFICES Fine
    OBVIOUS
  <1>1. ASSUME NEW r \in Runners, RunStep(r)
        PROVE  Fine
    <2>1. Stepped(r)
      BY <1>1, RunMoves
    <2>2. \A x \in Runners \ {r} : run[x].at = "remote" => run'[x] = run[x]
      BY <2>1, SteppedStays
    <2>3. ASSUME UNCHANGED a2aVars, run[r].at # "remote" \/ run' = run
          PROVE  Fine
      <3>1. exchange' = exchange /\ task' = task
        BY <2>3 DEF a2aVars
      <3> QED  BY <2>2, <2>3, <3>1 DEF ExchangeStep
    <2>4. CASE Start(r)
      BY <2>3, <2>4 DEF Start, NoRun
    <2>5. CASE ConfirmStep(r) \/ Paused(r) \/ WalkEnds(r)
      BY <2>3, <2>5 DEF ConfirmStep, Paused, WalkEnds
    <2>6. CASE PreHooks(r) \/ PostHooks(r) \/ StepDone(r) \/ ThreadVerified(r) \/ RunReturns(r)
      BY <2>3, <2>6 DEF PreHooks, PostHooks, StepDone, ThreadVerified, RunReturns, Through
    <2>7. CASE Handler(r)
      BY <2>3, <2>7 DEF Handler
    <2>8. CASE Spawn(r) \/ SpawnReturns(r) \/ RunTool(r) \/ AskReturns(r)
      BY <2>3, <2>8 DEF Spawn, SpawnReturns, RunTool, AskReturns
    <2>9. CASE Gate(r)
      <3>1. run[r].at = "delivered"
        BY <2>9 DEF Gate, Through
      <3>2. CASE UNCHANGED a2aVars
        BY <2>3, <3>1, <3>2
      <3>3. CASE run' = [run EXCEPT ![r].at = "remote"] /\ WaitStarts(r, run[r].msg[1])
        <4>1. run[r] = [f \in RunFields |-> run[r][f]] /\ DOMAIN run = Runners
          BY <3>1, LiveRecord DEF Record, RunsInv
        <4>2. run'[r].at = "remote" /\ run'[r].msg = run[r].msg
          BY <3>3, <4>1 DEF RunFields
        <4>3. /\ exchange' = [exchange EXCEPT ![r] = [at |-> "sending", msg |-> run[r].msg[1]]]
              /\ task' = task
          BY <3>3 DEF WaitStarts
        <4>4. /\ DOMAIN exchange' = Runners
              /\ exchange'[r] = [at |-> "sending", msg |-> run[r].msg[1]]
              /\ \A x \in Runners \ {r} : exchange'[x] = exchange[x]
          BY <4>3
        <4>5. ExchangeStep(r)
          BY <3>1, <4>2, <4>3, <4>4 DEF ExchangeStep
        <4>6. \A x \in Runners \ {r} : ExchangeStep(x)
          BY <2>2, <4>3, <4>4 DEF ExchangeStep
        <4> QED  BY <4>3, <4>4, <4>5, <4>6
      <3> QED  BY <2>9, <3>2, <3>3 DEF Gate
    <2>10. CASE RemoteReturns(r)
      <3>1. exchange' = [exchange EXCEPT ![r] = NoExchange] /\ task' = task
        BY <2>10 DEF RemoteReturns
      <3> QED  BY <2>2, <3>1 DEF ExchangeStep
    <2> QED  BY <1>1, <2>4, <2>5, <2>6, <2>7, <2>8, <2>9, <2>10 DEF RunStep
  <1>2. ASSUME run' = run, UNCHANGED a2aVars
        PROVE  Fine
    BY <1>2 DEF a2aVars, ExchangeStep
  <1>3. ASSUME NEW r \in Runners, Cancel(r)
        PROVE  Fine
    BY <1>2, <1>3 DEF Cancel
  <1>4. ASSUME NEW r \in Runners, WaitStep(r) \/ Remote(r)
        PROVE  Fine
    <2>1. RemoteSend(r) \/ RemotePoll(r) \/ RemoteFetch(r) \/ RemoteTimeout(r) \/ RemoteProgress(r)
      BY <1>4 DEF WaitStep, Remote
    <2>2. run' = run
      BY <1>4 DEF WaitStep, Remote
    <2>3. ExchangeStep(r)
      BY <2>1, <2>2 DEF ExchangeStep
    <2>4. \A x \in Runners \ {r} : ExchangeStep(x)
      BY <2>1, <2>2, ExchangeAlone DEF ExchangeStep
    <2> QED  BY <2>1, <2>3, <2>4, ExchangeAlone
  <1>5. CASE ChangeHooks \/ NotifierStep \/ Peer \/ Noise
    BY <1>2, <1>5 DEF ChangeHooks, NotifierStep, Peer, Noise
  <1>6. CASE UNCHANGED crewVars
    BY <1>2, <1>6 DEF crewVars
  <1> HIDE DEF Fine
  <1> QED  BY <1>1, <1>3, <1>4, <1>5, <1>6 DEF CrewNext

\* The lock is free again and its owner, if it is still there, told.
LEMMA LockReleased ==
  ASSUME NEW runs, NEW calls, NEW p, CallsInv(runs, calls, p), p # Free,
         NEW t, t.at = "told", NEW new, new = IF p.live THEN [calls EXCEPT ![p.q.by] = t] ELSE calls
  PROVE  /\ CallsInv(runs, new, Free)
         /\ \A x \in Runners : \/ new[x] = calls[x]
                               \/ p.live /\ new[x] = t /\ p.q = Question(x, runs[x].msg[1].id)
  <1>1. /\ p.live \in BOOLEAN
        /\ p.live => p.q.by \in Runners /\ calls[p.q.by].at = "waiting"
        /\ DOMAIN calls = Runners
    BY DEF CallsInv
  <1>2. \A x \in Runners :
          /\ calls[x].at \in {"none", "waiting", "told"} /\ (calls[x].at # "none" => runs[x].at = "ask")
          /\ calls[x].at = "waiting" => p.live /\ p.q = Question(x, runs[x].msg[1].id)
    BY DEF CallsInv
  <1>3. \A x \in Runners : calls[x].at = "waiting" => p.live /\ x = p.q.by
    <2>1. \A x, id : Question(x, id).by = x
      BY DEF Question
    <2> QED  BY <1>2, <2>1
  <1>4. CASE p.live
    <2>1. DOMAIN new = Runners /\ new[p.q.by] = t /\ \A x \in Runners : x # p.q.by => new[x] = calls[x]
      BY <1>1, <1>4
    <2>2. \A x \in Runners : new[x].at \in {"none", "told"} /\ (new[x].at # "none" => runs[x].at = "ask")
      BY <1>1, <1>2, <1>3, <1>4, <2>1
    <2>3. CallsInv(runs, new, Free)
      BY <2>1, <2>2 DEF CallsInv
    <2> QED  BY <1>1, <1>2, <1>4, <2>1, <2>3
  <1>5. CASE ~p.live
    <2>1. \A x \in Runners : new[x].at \in {"none", "told"} /\ (new[x].at # "none" => runs[x].at = "ask")
      BY <1>2, <1>3, <1>5
    <2>2. CallsInv(runs, new, Free)
      BY <1>1, <1>5, <2>1 DEF CallsInv
    <2> QED  BY <1>5, <2>2
  <1> QED  BY <1>1, <1>4, <1>5

\* Calls that nobody touches go on when the runs that make them do.
LEMMA CallsStay ==
  ASSUME NEW runs, NEW next, NEW calls, NEW p, CallsInv(runs, calls, p),
         \A x \in Runners : calls[x].at # "none" => next[x] = runs[x]
  PROVE  CallsInv(next, calls, p) /\ (AnswersInv(runs, calls) => AnswersInv(next, calls))
  <1>1. CallsInv(next, calls, p)
    BY DEF CallsInv
  <1>2. \A x \in Runners : calls[x].at = "told" => next[x] = runs[x]
    OBVIOUS
  <1> QED  BY <1>1, <1>2 DEF AnswersInv

\* A question is put to the peer, or refused.
LEMMA AskKeeps ==
  ASSUME NotesInv, NEW r \in Runners, run[r].at = "tool", Ask(r, run[r].msg[1].id),
         run'[r].at = "ask", run'[r].msg = run[r].msg,
         \A x \in Runners : run[x].at = "ask" => run'[x] = run[x]
  PROVE  NotesInv'
  <1>1. /\ CallsInv(run, call, pipe) /\ call[r] = NoCall
        /\ asked' = asked /\ lines' = lines /\ noise' = noise /\ closed' = closed
    BY DEF NotesInv, Ask
  <1>2. \A x \in Runners : call[x].at # "none" => x # r /\ run'[x] = run[x]
    BY <1>1 DEF CallsInv, NoCall
  <1>3. CallsInv(run', call, pipe) /\ (AnswersInv(run, call) => AnswersInv(run', call))
    BY <1>1, <1>2, CallsStay
  <1>4. CASE pipe = Free
    <2> DEFINE q == Question(r, run[r].msg[1].id)
               t == [at |-> "waiting"]
               p == [at |-> "writing", q |-> q, live |-> TRUE]
    <2>1. pipe' = p /\ call' = [call EXCEPT ![r] = t] /\ DOMAIN call = Runners
      BY <1>1, <1>4 DEF Ask, CallsInv
    <2>2. t.at = "waiting" /\ p.at = "writing" /\ p.q = q /\ p.live = TRUE
          /\ p = [at |-> p.at, q |-> p.q, live |-> p.live] /\ q.by = r /\ p # Free
      BY DEF Question, Free
    <2> HIDE DEF t, p
    <2>3. DOMAIN call' = Runners /\ call'[r] = t /\ \A x \in Runners : x # r => call'[x] = call[x]
      BY <2>1
    <2>4. \A x \in Runners : x # r => call[x].at # "waiting"
      BY <1>1, <1>4 DEF CallsInv
    <2>5. CallsInv(run', call', p)
      <3>1. p.q = Question(r, run'[r].msg[1].id)
        BY <2>2
      <3> HIDE DEF q
      <3>2. \A x \in Runners : /\ call'[x].at \in {"none", "waiting", "told"}
                               /\ call'[x].at # "none" => run'[x].at = "ask"
        BY <1>3, <2>2, <2>3 DEF CallsInv
      <3>3. \A x \in Runners : call'[x].at = "waiting" => x = r
        BY <2>3, <2>4
      <3>4. p.q.by \in Runners /\ call'[p.q.by].at = "waiting"
        BY <2>2, <2>3
      <3> QED  BY <2>2, <2>3, <3>1, <3>2, <3>3, <3>4 DEF CallsInv
    <2>6. AnswersInv(run', call) => AnswersInv(run', call')
      BY <2>2, <2>3 DEF AnswersInv
    <2>7. StreamInv(pipe, asked, lines, closed) => StreamInv(p, asked, lines, closed)
      BY <1>4, <2>2 DEF StreamInv, Free
    <2> QED  BY <1>1, <1>3, <2>1, <2>5, <2>6, <2>7 DEF NotesInv
  <1>5. CASE pipe # Free
    <2>1. pipe' = pipe /\ call' = [call EXCEPT ![r] = Told("busy")] /\ DOMAIN call = Runners
      BY <1>1, <1>5 DEF Ask, CallsInv
    <2>2. Told("busy").at = "told" /\ Told("busy").what = "busy"
      BY DEF Told
    <2>3. DOMAIN call' = Runners /\ call'[r] = Told("busy")
          /\ \A x \in Runners : x # r => call'[x] = call[x]
      BY <2>1
    <2>4. call[r].at = "none"
      BY <1>1 DEF NoCall
    <2>5. CallsInv(run', call', pipe)
      BY <1>3, <2>2, <2>3, <2>4 DEF CallsInv
    <2>6. AnswersInv(run', call) => AnswersInv(run', call')
      BY <2>2, <2>3 DEF AnswersInv
    <2> QED  BY <1>1, <1>3, <2>1, <2>5, <2>6 DEF NotesInv
  <1> QED  BY <1>4, <1>5

\* The question is written, or the write fails.
LEMMA WriteKeeps ==
  ASSUME NotesInv, run' = run, WriteQuestion
  PROVE  NotesInv'
  <1>1. /\ CallsInv(run, call, pipe) /\ pipe.at = "writing" /\ noise \in Nat
        /\ lines' = lines /\ closed' = closed
    BY DEF NotesInv, WriteQuestion
  <1>2. pipe # Free
    BY <1>1 DEF Free
  <1>3. CASE /\ asked' = asked \cup {pipe.q} /\ pipe' = [pipe EXCEPT !.at = "scanning"]
             /\ call' = call /\ noise' = noise
    <2>1. pipe = [at |-> pipe.at, q |-> pipe.q, live |-> pipe.live]
      BY <1>1, <1>2 DEF CallsInv
    <2>2. /\ pipe' = [at |-> pipe'.at, q |-> pipe'.q, live |-> pipe'.live]
          /\ pipe'.at = "scanning" /\ pipe'.q = pipe.q /\ pipe'.live = pipe.live /\ pipe' # Free
      BY <1>3, <2>1 DEF Free
    <2>3. CallsInv(run, call, pipe')
      BY <1>1, <1>2, <2>2 DEF CallsInv
    <2>4. StreamInv(pipe, asked, lines, closed) => StreamInv(pipe', asked', lines, closed)
      BY <1>1, <1>3, <2>2 DEF StreamInv
    <2> QED  BY <1>1, <1>3, <2>3, <2>4 DEF NotesInv
  <1>4. CASE /\ call' = Answered("error") /\ pipe' = Free
             /\ \/ asked' = asked /\ noise' = noise
                \/ noise' = noise + 1
    <2>1. Told("error").at = "told" /\ Told("error").what = "error"
      BY DEF Told
    <2>2. call' = IF pipe.live THEN [call EXCEPT ![pipe.q.by] = Told("error")] ELSE call
      BY <1>4 DEF Answered
    <2>3. CallsInv(run, call', Free) /\ \A x \in Runners : call'[x] = call[x] \/ call'[x] = Told("error")
      BY <1>1, <1>2, <2>1, <2>2, LockReleased
    <2>4. AnswersInv(run, call) => AnswersInv(run, call')
      BY <2>1, <2>3 DEF AnswersInv
    <2>5. StreamInv(pipe, asked, lines, closed) => StreamInv(Free, asked, lines, closed)
      BY <1>1 DEF StreamInv, Free
    <2>6. CASE asked' = asked /\ noise' = noise
      BY <1>1, <1>4, <2>3, <2>4, <2>5, <2>6 DEF NotesInv
    <2>7. CASE noise' = noise + 1
      <3>1. noise' \in Nat /\ noise' # 0
        BY <1>1, <2>7
      <3> QED  BY <1>4, <2>3, <3>1 DEF NotesInv
    <2> QED  BY <1>4, <2>6, <2>7
  <1> QED  BY <1>3, <1>4 DEF WriteQuestion, EncodeQuestionLine, Noisier

\* The scan ends, with the answer to the owner's question or an error.
LEMMA ScanKeeps ==
  ASSUME NotesInv, run' = run, ScanAnswer
  PROVE  NotesInv'
  <1>1. /\ CallsInv(run, call, pipe) /\ pipe.at = "scanning" /\ pipe' = Free
        /\ asked' = asked /\ noise' = noise /\ closed' = closed
    BY DEF NotesInv, ScanAnswer
  <1>2. pipe # Free /\ Free.at = "free"
    BY <1>1 DEF Free
  <1>3. CASE lines = <<>> /\ closed /\ call' = Answered("error") /\ lines' = lines
    <2>1. Told("error").at = "told" /\ Told("error").what = "error"
      BY DEF Told
    <2>2. call' = IF pipe.live THEN [call EXCEPT ![pipe.q.by] = Told("error")] ELSE call
      BY <1>3 DEF Answered
    <2>3. CallsInv(run, call', Free) /\ \A x \in Runners : call'[x] = call[x] \/ call'[x] = Told("error")
      BY <1>1, <1>2, <2>1, <2>2, LockReleased
    <2>4. AnswersInv(run, call) => AnswersInv(run, call')
      BY <2>1, <2>3 DEF AnswersInv
    <2>5. StreamInv(Free, asked, <<>>, closed)
      BY <1>2, <1>3 DEF StreamInv
    <2> QED  BY <1>1, <1>3, <2>3, <2>4, <2>5 DEF NotesInv
  <1>4. ASSUME NEW n \in 1..Len(lines), lines' = SubSeq(lines, n + 1, Len(lines)),
               NEW what, what = AnswerVerdict(Head(lines), pipe.q),
               call' = IF pipe.live /\ what # "error"
                       THEN [call EXCEPT ![pipe.q.by] = Reply(what, Head(lines).of)]
                       ELSE Answered(what)
        PROVE  NotesInv'
    <2>1. PICK t : t = IF what # "error" THEN Reply(what, Head(lines).of) ELSE Told("error")
      OBVIOUS
    <2>2. t.at = "told" /\ (t.what = "approved" => t.of = Head(lines).of)
      <3>1. CASE what = "error"
        BY <2>1, <3>1 DEF Told
      <3>2. CASE what # "error"
        BY <2>1, <3>2 DEF Reply
      <3> QED  BY <3>1, <3>2
    <2>3. call' = IF pipe.live THEN [call EXCEPT ![pipe.q.by] = t] ELSE call
      <3>1. CASE what = "error"
        BY <1>4, <2>1, <3>1 DEF Answered
      <3>2. CASE what # "error" /\ pipe.live
        BY <1>4, <2>1, <3>2
      <3>3. CASE what # "error" /\ ~pipe.live
        BY <1>4, <2>1, <3>3 DEF Answered
      <3> QED  BY <3>1, <3>2, <3>3
    <2>4. /\ CallsInv(run, call', Free)
          /\ \A x \in Runners : \/ call'[x] = call[x]
                                \/ call'[x] = t /\ pipe.q = Question(x, run[x].msg[1].id)
      BY <1>1, <1>2, <2>2, <2>3, LockReleased
    <2>5. ASSUME noise = 0
          PROVE  StreamInv(Free, asked, lines', closed) /\ AnswersInv(run, call')
      <3>1. StreamInv(pipe, asked, lines, closed) /\ AnswersInv(run, call)
        BY <2>5 DEF NotesInv
      <3>2. lines # <<>>
        BY <1>4
      <3>3. asked = {} /\ Len(lines) = 1 /\ lines = <<lines[1]>> /\ lines[1].of = pipe.q
        BY <1>1, <3>1, <3>2 DEF StreamInv
      <3>4. n = 1 /\ Head(lines) = lines[1]
        BY <1>4, <3>3
      <3>5. lines' = <<>>
        <4>1. PICK x : lines = <<x>>
          BY <3>3
        <4>2. SubSeq(<<x>>, 2, 1) = <<>>
          OBVIOUS
        <4> QED  BY <1>4, <3>3, <3>4, <4>1, <4>2
      <3>6. StreamInv(Free, asked, lines', closed)
        BY <1>2, <3>3, <3>5 DEF StreamInv
      <3>7. AnswersInv(run, call')
        BY <2>2, <2>4, <3>1, <3>3, <3>4 DEF AnswersInv
      <3> QED  BY <3>6, <3>7
    <2> QED  BY <1>1, <2>4, <2>5 DEF NotesInv
  <1> QED  BY <1>3, <1>4 DEF ScanAnswer

\* The scan ends with an error, and the stream goes on.
LEMMA ReadFailsKeeps ==
  ASSUME NotesInv, run' = run, ReadFails
  PROVE  NotesInv'
  <1>1. /\ CallsInv(run, call, pipe) /\ pipe.at = "scanning" /\ pipe' = Free
        /\ noise \in Nat /\ noise' = noise + 1 /\ call' = Answered("error")
    BY DEF NotesInv, ReadFails, Noisier
  <1>2. pipe # Free
    BY <1>1 DEF Free
  <1>3. Told("error").at = "told" /\ Told("error").what = "error"
    BY DEF Told
  <1>4. call' = IF pipe.live THEN [call EXCEPT ![pipe.q.by] = Told("error")] ELSE call
    BY <1>1 DEF Answered
  <1>5. CallsInv(run, call', Free)
    BY <1>1, <1>2, <1>3, <1>4, LockReleased
  <1>6. noise' \in Nat /\ noise' # 0
    BY <1>1
  <1> QED  BY <1>1, <1>5, <1>6 DEF NotesInv

\* The peer answers, closes or sends a line unasked.
LEMMA PeerKeeps ==
  ASSUME NotesInv, run' = run, PeerAnswers \/ PeerCloses \/ PeerNoise
  PROVE  NotesInv'
  <1>1. pipe' = pipe /\ call' = call /\ CallsInv(run, call, pipe) /\ noise \in Nat
    BY DEF PeerAnswers, PeerCloses, PeerNoise, NotesInv
  <1>2. CASE PeerAnswers
    <2>1. PICK q \in asked, yes \in BOOLEAN :
            /\ lines' = Append(lines, [id |-> q.id, approved |-> yes, of |-> q])
            /\ asked' = asked \ {q}
      BY <1>2 DEF PeerAnswers
    <2>2. ~closed /\ closed' = closed /\ noise' = noise
      BY <1>2 DEF PeerAnswers
    <2>3. ASSUME noise = 0
          PROVE  StreamInv(pipe, asked', lines', closed) /\ AnswersInv(run, call)
      <3>1. StreamInv(pipe, asked, lines, closed) /\ AnswersInv(run, call)
        BY <2>3 DEF NotesInv
      <3>2. pipe.at = "scanning" /\ lines = <<>> /\ asked = {pipe.q}
        BY <2>1, <2>2, <3>1 DEF StreamInv
      <3>3. q = pipe.q /\ asked' = {}
        BY <2>1, <3>2
      <3> DEFINE line == [id |-> q.id, approved |-> yes, of |-> q]
      <3>4. line.of = q
        OBVIOUS
      <3> HIDE DEF line
      <3>5. lines' = <<line>> /\ lines'[1] = line /\ Len(lines') = 1 /\ lines' # <<>>
        BY <2>1, <3>2 DEF line
      <3>6. StreamInv(pipe, asked', lines', closed)
        BY <3>2, <3>3, <3>4, <3>5 DEF StreamInv
      <3> QED  BY <3>1, <3>6
    <2> QED  BY <1>1, <2>2, <2>3 DEF NotesInv
  <1>3. CASE PeerCloses
    <2>1. closed' = TRUE /\ asked' = asked /\ lines' = lines /\ noise' = noise
      BY <1>3 DEF PeerCloses
    <2>2. StreamInv(pipe, asked, lines, closed) => StreamInv(pipe, asked, lines, TRUE)
      BY DEF StreamInv
    <2> QED  BY <1>1, <2>1, <2>2 DEF NotesInv
  <1>4. CASE PeerNoise
    <2>1. noise' \in Nat /\ noise' # 0
      BY <1>1, <1>4 DEF PeerNoise, Noisier
    <2> QED  BY <1>1, <2>1 DEF NotesInv
  <1> QED  BY <1>2, <1>3, <1>4

\* A call is canceled; its write or scan keeps the lock.
LEMMA CancelKeeps ==
  ASSUME NotesInv, run' = run, NEW r \in Runners, CancelAsk(r)
  PROVE  NotesInv'
  <1>1. /\ CallsInv(run, call, pipe) /\ call[r].at = "waiting" /\ DOMAIN call = Runners
        /\ call' = [call EXCEPT ![r] = Told("canceled")] /\ pipe' = [pipe EXCEPT !.live = FALSE]
        /\ asked' = asked /\ lines' = lines /\ noise' = noise /\ closed' = closed
    BY DEF NotesInv, CallsInv, CancelAsk
  <1>2. pipe # Free /\ pipe.live /\ pipe.q = Question(r, run[r].msg[1].id)
        /\ pipe = [at |-> pipe.at, q |-> pipe.q, live |-> pipe.live] /\ pipe.at \in {"writing", "scanning"}
    BY <1>1 DEF CallsInv
  <1>3. Told("canceled").at = "told" /\ Told("canceled").what = "canceled"
    BY DEF Told
  <1>4. DOMAIN call' = Runners /\ call'[r] = Told("canceled")
        /\ \A x \in Runners : x # r => call'[x] = call[x]
    BY <1>1
  <1>5. /\ pipe' = [at |-> pipe'.at, q |-> pipe'.q, live |-> pipe'.live]
        /\ pipe'.at = pipe.at /\ pipe'.q = pipe.q /\ pipe'.live = FALSE
    BY <1>1, <1>2
  <1>6. \A x \in Runners : call[x].at = "waiting" => x = r
    <2>1. \A x, id : Question(x, id).by = x
      BY DEF Question
    <2>2. \A x \in Runners : call[x].at = "waiting" => pipe.q = Question(x, run[x].msg[1].id)
      BY <1>1 DEF CallsInv
    <2> QED  BY <1>2, <2>1, <2>2
  <1>7. \A x \in Runners : call'[x].at \in {"none", "told"} /\ (call'[x].at # "none" => run[x].at = "ask")
    BY <1>1, <1>3, <1>4, <1>6 DEF CallsInv
  <1>8. CallsInv(run, call', pipe')
    BY <1>2, <1>4, <1>5, <1>7 DEF CallsInv
  <1>9. AnswersInv(run, call) => AnswersInv(run, call')
    BY <1>3, <1>4 DEF AnswersInv
  <1>10. StreamInv(pipe, asked, lines, closed) => StreamInv(pipe', asked, lines, closed)
    BY <1>5 DEF StreamInv
  <1> QED  BY <1>1, <1>8, <1>9, <1>10 DEF NotesInv

\* Every step keeps the notifier in step.
LEMMA NotesKept ==
  ASSUME NotesInv, NoteStep
  PROVE  NotesInv'
  <1>1. CASE /\ UNCHANGED notifierVars
             /\ \A x \in Runners : run[x].at = "ask" => run'[x] = run[x]
    <2>1. /\ pipe' = pipe /\ call' = call /\ asked' = asked /\ lines' = lines
          /\ noise' = noise /\ closed' = closed /\ CallsInv(run, call, pipe)
      BY <1>1 DEF notifierVars, NotesInv
    <2>2. \A x \in Runners : call[x].at # "none" => run'[x] = run[x]
      BY <1>1, <2>1 DEF CallsInv
    <2>3. CallsInv(run', call, pipe) /\ (AnswersInv(run, call) => AnswersInv(run', call))
      BY <2>1, <2>2, CallsStay
    <2> QED  BY <2>1, <2>3 DEF NotesInv
  <1>2. ASSUME NEW r \in Runners, run[r].at = "tool", Ask(r, run[r].msg[1].id),
               run'[r].at = "ask", run'[r].msg = run[r].msg,
               \A x \in Runners : run[x].at = "ask" => run'[x] = run[x]
        PROVE  NotesInv'
    BY <1>2, AskKeeps
  <1>3. CASE /\ run' = run
             /\ \/ WriteQuestion \/ ScanAnswer \/ ReadFails
                \/ PeerAnswers \/ PeerCloses \/ PeerNoise
    BY <1>3, WriteKeeps, ScanKeeps, ReadFailsKeeps, PeerKeeps
  <1>4. ASSUME NEW r \in Runners, run' = run, CancelAsk(r)
        PROVE  NotesInv'
    BY <1>4, CancelKeeps
  <1>5. ASSUME NEW r \in Runners, run[r].at = "ask", call[r].at = "told", Heard(r),
               UNCHANGED <<pipe, asked, lines, noise, closed>>,
               \A x \in Runners \ {r} : run[x].at = "ask" => run'[x] = run[x]
        PROVE  NotesInv'
    <2>1. CallsInv(run, call, pipe) /\ DOMAIN call = Runners /\ NoCall.at = "none"
      BY DEF NotesInv, CallsInv, NoCall
    <2>2. DOMAIN call' = Runners /\ call'[r] = NoCall
          /\ \A x \in Runners : x # r => call'[x] = call[x]
      BY <1>5, <2>1 DEF Heard
    <2>3. CallsInv(run, call', pipe)
      BY <1>5, <2>1, <2>2 DEF CallsInv
    <2>4. AnswersInv(run, call) => AnswersInv(run, call')
      BY <2>1, <2>2 DEF AnswersInv
    <2>5. \A x \in Runners : call'[x].at # "none" => run'[x] = run[x]
      BY <1>5, <2>1, <2>2 DEF CallsInv
    <2>6. PICK calls : calls = call'
      OBVIOUS
    <2>7. CallsInv(run', calls, pipe) /\ (AnswersInv(run, calls) => AnswersInv(run', calls))
      BY <2>3, <2>5, <2>6, CallsStay
    <2> QED  BY <1>5, <2>3, <2>4, <2>6, <2>7 DEF NotesInv
  <1> QED  BY <1>1, <1>2, <1>3, <1>4, <1>5 DEF NoteStep

\* A remote exchange goes on.
LEMMA RemoteKeeps ==
  ASSUME NEW x \in Runners, DOMAIN exchange = Runners, DOMAIN task = Runners,
         ExchangeInv(run[x], exchange[x], task[x]),
         RemoteSend(x) \/ RemotePoll(x) \/ RemoteFetch(x) \/ RemoteTimeout(x) \/ RemoteProgress(x)
  PROVE  ExchangeInv(run[x], exchange'[x], task'[x])
  <1> DEFINE g == run[x]
             ex == exchange[x]
             tk == task[x]
  <1>1. /\ ex.at \in {"none", "sending", "polling", "fetching", "told"}
        /\ tk = [f \in {"state", "of", "result"} |-> tk[f]]
        /\ ex.at # "none" => g.at = "remote"
        /\ ex.at \in {"sending", "polling", "fetching"} =>
             ex = [at |-> ex.at, msg |-> ex.msg] /\ g.msg = <<ex.msg>>
        /\ ex.at \in {"polling", "fetching"} => tk.of = g.msg
        /\ ex.at = "fetching" => tk.state = "completed"
        /\ ex.at = "told" /\ ex.what = "confirmed" =>
             /\ tk.state = "completed" /\ tk.of = g.msg
             /\ ExpectSigner = "" \/ tk.result[1].msg.signer = ExpectSigner
    BY DEF ExchangeInv
  \* Wait has been told something that confirms nothing.
  <1>2. ASSUME NEW what, what # "confirmed", ExchangeTold(x, what), g.at = "remote",
               NEW new, task'[x] = new, new = [f \in {"state", "of", "result"} |-> new[f]]
        PROVE  ExchangeInv(g, exchange'[x], task'[x])
    <2> DEFINE t == [at |-> "told", what |-> what]
    <2>1. exchange'[x] = t
      BY <1>2 DEF ExchangeTold
    <2>2. t.at = "told" /\ t.what = what
      OBVIOUS
    <2> HIDE DEF t, g
    <2> QED  BY <1>2, <2>1, <2>2 DEF ExchangeInv
  <1>3. CASE RemoteSend(x)
    <2>1. ex.at = "sending" /\ g.at = "remote"
      BY <1>1, <1>3 DEF RemoteSend
    <2> DEFINE new == [NoRemoteTask EXCEPT !.state = "submitted", !.of = <<ex.msg>>]
    <2>2. new.of = <<ex.msg>> /\ new = [f \in {"state", "of", "result"} |-> new[f]]
      BY DEF NoRemoteTask
    <2>3. CASE task' = [task EXCEPT ![x] = new] /\ exchange' = [exchange EXCEPT ![x].at = "polling"]
      <3>1. task'[x] = new
        BY <2>3
      <3>2. exchange'[x] = [ex EXCEPT !.at = "polling"] /\ ex = [at |-> ex.at, msg |-> ex.msg]
        BY <1>1, <2>1, <2>3
      <3>3. exchange'[x].at = "polling" /\ exchange'[x].msg = ex.msg
            /\ exchange'[x] = [at |-> exchange'[x].at, msg |-> exchange'[x].msg]
        BY <3>2
      <3>4. g.msg = <<ex.msg>>
        BY <1>1, <2>1
      <3> HIDE DEF g, ex, tk, new
      <3>5. ExchangeInv(g, exchange'[x], task'[x])
        BY <2>1, <2>2, <3>1, <3>3, <3>4 DEF ExchangeInv
      <3> QED  BY <3>5 DEF g
    <2>4. CASE task' = [task EXCEPT ![x] = new] /\ ExchangeTold(x, "error")
      <3>1. task'[x] = new
        BY <2>4
      <3> HIDE DEF new
      <3> QED  BY <1>2, <2>1, <2>2, <2>4, <3>1
    <2>5. CASE ExchangeTold(x, "error") /\ task' = task
      BY <1>1, <1>2, <2>1, <2>5
    <2> QED  BY <1>3, <2>3, <2>4, <2>5 DEF RemoteSend
  <1>4. CASE RemotePoll(x)
    <2>1. ex.at = "polling" /\ g.at = "remote" /\ task' = task
      BY <1>1, <1>4 DEF RemotePoll
    <2>2. CASE ExchangeTold(x, "error") \/ ExchangeTold(x, "ErrRemoteFailed")
      BY <1>1, <1>2, <2>1, <2>2
    <2>3. CASE task[x].state = "completed" /\ exchange' = [exchange EXCEPT ![x].at = "fetching"]
      <3>1. exchange'[x] = [ex EXCEPT !.at = "fetching"] /\ ex = [at |-> ex.at, msg |-> ex.msg]
        BY <1>1, <2>1, <2>3
      <3>2. exchange'[x].at = "fetching" /\ exchange'[x].msg = ex.msg
            /\ exchange'[x] = [at |-> exchange'[x].at, msg |-> exchange'[x].msg]
        BY <3>1
      <3>3. /\ g.msg = <<ex.msg>> /\ tk.of = g.msg /\ tk.state = "completed" /\ task'[x] = tk
            /\ tk = [f \in {"state", "of", "result"} |-> tk[f]]
        BY <1>1, <2>1, <2>3
      <3> HIDE DEF g, ex, tk
      <3>4. ExchangeInv(g, exchange'[x], task'[x])
        BY <2>1, <3>2, <3>3 DEF ExchangeInv
      <3> QED  BY <3>4 DEF g
    <2> QED  BY <1>4, <2>2, <2>3 DEF RemotePoll
  <1>5. CASE RemoteFetch(x)
    <2>1. ex.at = "fetching" /\ g.at = "remote" /\ task' = task
      BY <1>1, <1>5 DEF RemoteFetch
    <2>2. PICK what : ExchangeTold(x, what) /\ (what = "error" \/ what = ResultVerdict(ex.msg, tk.result[1]))
      BY <1>5 DEF RemoteFetch
    <2>3. CASE what # "confirmed"
      BY <1>1, <1>2, <2>1, <2>2, <2>3
    <2>4. CASE what = "confirmed"
      <3>1. ExpectSigner = "" \/ tk.result[1].msg.signer = ExpectSigner
        BY <2>2, <2>4 DEF ResultVerdict
      <3> DEFINE t == [at |-> "told", what |-> what]
      <3>2. exchange'[x] = t
        BY <2>2 DEF ExchangeTold
      <3>3. t.at = "told"
        OBVIOUS
      <3>4. /\ tk.of = g.msg /\ tk.state = "completed" /\ task'[x] = tk
            /\ tk = [f \in {"state", "of", "result"} |-> tk[f]]
        BY <1>1, <2>1
      <3> HIDE DEF t, g, ex, tk
      <3>5. ExchangeInv(g, exchange'[x], task'[x])
        BY <2>1, <3>1, <3>2, <3>3, <3>4 DEF ExchangeInv
      <3> QED  BY <3>5 DEF g
    <2> QED  BY <2>3, <2>4
  <1>6. CASE RemoteTimeout(x)
    <2>1. g.at = "remote" /\ task' = task /\ ExchangeTold(x, "ErrTimeout")
      BY <1>1, <1>6 DEF RemoteTimeout
    <2> QED  BY <1>1, <1>2, <2>1
  <1>7. CASE RemoteProgress(x)
    <2>1. /\ exchange' = exchange /\ tk.state \in {"submitted", "working"}
          /\ task'[x].of = tk.of
          /\ task'[x] = [f \in {"state", "of", "result"} |-> task'[x][f]]
      BY <1>1, <1>7 DEF RemoteProgress
    <2>2. ex.at # "fetching" /\ ~(ex.at = "told" /\ ex.what = "confirmed")
      BY <1>1, <2>1
    <2> HIDE DEF g, ex, tk
    <2>3. ExchangeInv(g, ex, task'[x])
      BY <1>1, <2>1, <2>2 DEF ExchangeInv
    <2> QED  BY <2>1, <2>3 DEF g, ex
  <1> QED  BY <1>3, <1>4, <1>5, <1>6, <1>7

\* Every step keeps an exchange about the message its run waits for.
LEMMA ExchangeKept ==
  ASSUME RunsInv, NEW x \in Runners, DOMAIN exchange = Runners, DOMAIN task = Runners,
         ExchangeInv(run[x], exchange[x], task[x]), ExchangeStep(x)
  PROVE  ExchangeInv(run'[x], exchange'[x], task'[x])
  <1>1. CASE /\ exchange'[x] = exchange[x] /\ task'[x] = task[x]
             /\ run[x].at = "remote" => run'[x] = run[x]
    <2>1. CASE run[x].at = "remote"
      BY <1>1, <2>1
    <2>2. CASE run[x].at # "remote"
      BY <1>1, <2>2 DEF ExchangeInv
    <2> QED  BY <2>1, <2>2
  <1>2. CASE /\ run[x].at = "delivered" /\ run'[x].at = "remote" /\ run'[x].msg = run[x].msg
             /\ exchange'[x] = [at |-> "sending", msg |-> run[x].msg[1]] /\ task'[x] = task[x]
    <2>1. run[x].msg = <<run[x].msg[1]>>
      BY <1>2, LiveRecord DEF Record, Gated
    <2> DEFINE t == [at |-> "sending", msg |-> run[x].msg[1]]
    <2>2. t.at = "sending" /\ t.msg = run[x].msg[1] /\ t = [at |-> t.at, msg |-> t.msg]
          /\ exchange'[x] = t
      BY <1>2
    <2> HIDE DEF t
    <2>3. task[x] = [f \in {"state", "of", "result"} |-> task[x][f]]
      BY DEF ExchangeInv
    <2> QED  BY <1>2, <2>1, <2>2, <2>3 DEF ExchangeInv
  <1>3. CASE /\ run' = run
             /\ RemoteSend(x) \/ RemotePoll(x) \/ RemoteFetch(x) \/ RemoteTimeout(x) \/ RemoteProgress(x)
    BY <1>3, RemoteKeeps
  <1>4. CASE exchange'[x] = NoExchange /\ task'[x] = task[x]
    <2>1. NoExchange.at = "none"
      BY DEF NoExchange
    <2> QED  BY <1>4, <2>1 DEF ExchangeInv
  <1> QED  BY <1>1, <1>2, <1>3, <1>4 DEF ExchangeStep

\* A stream that may be out of step is not taken for one in step again.
LEMMA NoiseStays ==
  ASSUME NotesInv, NoteStep, noise' = 0
  PROVE  noise = 0
  <1>1. noise' = noise \/ noise' = noise + 1
    BY DEF NoteStep, notifierVars, Ask, WriteQuestion, ScanAnswer, PeerAnswers, PeerCloses,
           PeerNoise, ReadFails, Noisier, CancelAsk
  <1> QED  BY <1>1 DEF NotesInv

\* Every step keeps the acks earned.
LEMMA AcksKept ==
  ASSUME RunsInv, AcksInv, [CrewNext]_crewVars
  PROVE  AcksInv'
  <1>1. NotesInv /\ DOMAIN exchange = Runners /\ DOMAIN task = Runners /\ AcksAreEarned
        /\ \A r \in Runners : ExchangeInv(run[r], exchange[r], task[r])
    BY DEF AcksInv
  <1>2. NoteStep
    BY NoteSteps
  <1>3. NotesInv'
    BY <1>1, <1>2, NotesKept
  <1>4. /\ DOMAIN exchange' = Runners /\ DOMAIN task' = Runners
        /\ \A x \in Runners : ExchangeStep(x)
    BY <1>1, ExchangeSteps
  <1>5. \A x \in Runners : ExchangeInv(run'[x], exchange'[x], task'[x])
    BY <1>1, <1>4, ExchangeKept
  <1>6. ASSUME noise' = 0
        PROVE  \A x \in Runners : run'[x].at \notin {"idle", "done"} => run'[x].ack # "other"
    <2>1. noise = 0
      BY <1>1, <1>2, <1>6, NoiseStays
    <2>2. \A x \in Runners : run[x].at \notin {"idle", "done"} => run[x].ack # "other"
      BY <1>1, <2>1 DEF AcksAreEarned, Live
    <2>3. \A r \in Runners : ~Mistaken(r)
      <3> TAKE r \in Runners
      <3>1. AnswersInv(run, call) /\ ExchangeInv(run[r], exchange[r], task[r])
        BY <1>1, <2>1 DEF NotesInv
      <3>2. ~MistakenAnswer(r)
        BY <3>1 DEF AnswersInv, MistakenAnswer
      <3>3. ~MistakenResult(r)
        BY <3>1 DEF ExchangeInv, MistakenResult
      <3> QED  BY <3>2, <3>3 DEF Mistaken
    <2>4. ASSUME NEW r \in Runners, RunStep(r), NEW x \in Runners
          PROVE  run'[x].at \notin {"idle", "done"} => run'[x].ack # "other"
      <3>1. Moves(run[x], run'[x], FALSE)
        <4>1. Moves(run[r], run'[r], Mistaken(r)) /\ \A y \in Runners \ {r} : Aside(run[y], run'[y])
          BY <2>4, RunMoves DEF Stepped
        <4>2. CASE x = r
          <5>1. Moves(run[r], run'[r], FALSE)
            BY <2>3, <4>1 DEF Moves, Acks
          <5> QED  BY <4>2, <5>1
        <4>3. CASE x # r
          BY <4>1, <4>3 DEF Moves
        <4> QED  BY <4>2, <4>3
      <3>2. run[x] = NoRun \/ Record(run[x])
        BY DEF RunsInv
      <3> QED  BY <2>2, <3>1, <3>2, MovesKeep
    <2>5. CASE run' = run
      BY <2>2, <2>5
    <2> QED  BY <2>4, <2>5, OthersStay
  <1>7. AcksAreEarned'
    BY <1>6 DEF AcksAreEarned, Live
  <1> QED  BY <1>3, <1>4, <1>5, <1>7 DEF AcksInv

\* Nobody has asked, sent or acked anything.
LEMMA AcksStart ==
  ASSUME CrewInit
  PROVE  AcksInv
  <1>1. /\ run = [r \in Runners |-> NoRun] /\ pipe = Free /\ call = [r \in Runners |-> NoCall]
        /\ asked = {} /\ lines = <<>> /\ noise = 0 /\ closed = FALSE
        /\ task = [r \in Runners |-> NoRemoteTask] /\ exchange = [r \in Runners |-> NoExchange]
    BY PlacesAssumption DEF CrewInit, NotifierInit, A2AInit
  <1>2. NoCall.at = "none" /\ NoExchange.at = "none" /\ Free.at = "free" /\ NoRun.at = "idle"
        /\ NoRemoteTask = [f \in {"state", "of", "result"} |-> NoRemoteTask[f]]
    BY DEF NoCall, NoExchange, Free, NoRun, NoRemoteTask
  <1>3. CallsInv(run, call, pipe) /\ AnswersInv(run, call)
    BY <1>1, <1>2 DEF CallsInv, AnswersInv
  <1>4. StreamInv(pipe, asked, lines, closed)
    BY <1>1, <1>2 DEF StreamInv
  <1>5. ExchangeInv(NoRun, NoExchange, NoRemoteTask)
    BY <1>2 DEF ExchangeInv
  <1>6. AcksAreEarned
    BY <1>1, <1>2 DEF AcksAreEarned, Live
  <1> QED  BY <1>1, <1>3, <1>4, <1>5, <1>6 DEF AcksInv, NotesInv

\* An ack is built only from what answers the run's own message: the answer
\* that the notifier returns is to the question the run has asked, and the
\* result of a wait is of the task its message started and of the pinned
\* agent, for any number of runs, cancellations and remote agents
\* (ndjson_notifier.go, a2aack.go).
THEOREM AcksStayEarned == CrewSpec => []AcksAreEarned
  <1>1. CrewInit => AcksInv
    BY AcksStart
  <1>2. RunsInv /\ AcksInv /\ [CrewNext]_crewVars => AcksInv'
    BY AcksKept
  <1>3. AcksInv => AcksAreEarned
    BY DEF AcksInv
  <1> QED  BY <1>1, <1>2, <1>3, RunsInvariance, PTL DEF CrewSpec

=============================================================================

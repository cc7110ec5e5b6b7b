------------------------------- MODULE Hooks -------------------------------
(***************************************************************************)
(* The event bus and the hook registry of package events (src/events):     *)
(* lists of handlers that are changed under a mutex and run outside it.    *)
(*                                                                         *)
(* A list is a Go slice, a length and a backing array: a Fire under way    *)
(* goes on reading the array it got, so what Add and Remove do to an array *)
(* matters.  Add and Remove put their list into a fresh array.  Subscribe  *)
(* appends, in place where the array has room; Emit runs over a copy.      *)
(***************************************************************************)
EXTENDS Naturals, SequencesExt

CONSTANTS
  Firers,     \* those that fire and emit
  HookNames   \* names handlers are registered under

Points == {"pre", "post", "stop"}

EventNames == {"delivered", "acked", "verified"}

VARIABLES
  arrays,   \* the backing arrays made so far
  lists,    \* per point and event name, the slice in the map
  changes,  \* changes made so far
  firing    \* per firer, the Fire or Emit it is in

hookVars == <<arrays, lists, changes, firing>>

NilSlice == [array |-> 0, len |-> 0]

Contents(slice) ==
  IF slice.array = 0 THEN <<>> ELSE SubSeq(arrays[slice.array], 1, slice.len)

NoFiring == [slice |-> NilSlice, copy |-> <<>>, next |-> 1, heard |-> <<>>,
             due |-> <<>>, vetoed |-> FALSE]

\* The lists as the caller set them up, each in an array of its own.
HooksInit(initial) ==
  LET order == <<"pre", "post", "stop", "delivered", "acked", "verified">>
  IN /\ arrays = [i \in DOMAIN order |-> initial[order[i]]]
     /\ lists = [p \in Points \cup EventNames |->
                   IF initial[p] = <<>> THEN NilSlice
                   ELSE [array |-> CHOOSE i \in DOMAIN order : order[i] = p,
                         len |-> Len(initial[p])]]
     /\ changes = 0
     /\ firing = [f \in Firers |-> NoFiring]

\* A list in a fresh array becomes the one of p.
Replace(p, list) ==
  /\ arrays' = Append(arrays, list)
  /\ lists' = [lists EXCEPT ![p] = [array |-> Len(arrays) + 1, len |-> Len(list)]]
  /\ changes' = changes + 1
  /\ UNCHANGED firing

AddHook(p, name) ==
  /\ p \in Points /\ ~Contains(Contents(lists[p]), name)
  /\ Replace(p, Append(Contents(lists[p]), name))

\* The list without its i-th entry.
Without(list, i) == SubSeq(list, 1, i - 1) \o SubSeq(list, i + 1, Len(list))

\* Where name is first in a list.
FirstAt(list, name, i) ==
  /\ i \in DOMAIN list /\ list[i] = name
  /\ \A j \in 1..i - 1 : list[j] # name

\* Mutant of RemoveHook: the entries behind the removed one are moved up in
\* the array itself.
RemoveHookInPlace(p, name) ==
  LET s == lists[p]
      list == Contents(s)
  IN /\ p \in Points
     /\ \E i \in DOMAIN list :
          /\ FirstAt(list, name, i)
          /\ arrays' = [arrays EXCEPT ![s.array] =
                          Without(list, i) \o SubSeq(@, s.len, Len(@))]
          /\ lists' = [lists EXCEPT ![p].len = s.len - 1]
     /\ changes' = changes + 1
     /\ UNCHANGED firing

RemoveHook(p, name) ==
  LET list == Contents(lists[p])
  IN /\ p \in Points
     /\ \E i \in DOMAIN list : FirstAt(list, name, i) /\ Replace(p, Without(list, i))

\* append: into the array where it has room behind the list, or a new one.
Subscribe(e, name) ==
  /\ e \in EventNames
  /\ \/ Replace(e, Append(Contents(lists[e]), name))
     \/ LET s == lists[e]
        IN /\ s.array # 0
           /\ arrays' = [arrays EXCEPT ![s.array] =
                           Append(SubSeq(@, 1, s.len), name)]
           /\ lists' = [lists EXCEPT ![e].len = s.len + 1]
           /\ changes' = changes + 1
           /\ UNCHANGED firing

\* Fire takes the slice, Emit copies it.  due is what the list held then.
StartFiring(f, p) ==
  /\ firing' = [firing EXCEPT ![f] =
       IF p \in Points
       THEN [NoFiring EXCEPT !.slice = lists[p], !.due = Contents(lists[p])]
       ELSE [NoFiring EXCEPT !.copy = Contents(lists[p]), !.due = Contents(lists[p])]]
  /\ UNCHANGED <<arrays, lists, changes>>

FiringLen(f) == firing[f].slice.len + Len(firing[f].copy)

FiringDone(f) == firing[f].vetoed \/ firing[f].next > FiringLen(f)

\* The next handler runs.  A hook may veto or fail, which ends the Fire; a
\* handler of the bus may not.
CallHandler(f) ==
  LET g == firing[f]
      hook == g.slice.array # 0
      name == IF hook THEN arrays[g.slice.array][g.next] ELSE g.copy[g.next]
  IN /\ ~FiringDone(f)
     /\ \E veto \in IF hook THEN BOOLEAN ELSE {FALSE} :
          firing' = [firing EXCEPT ![f].next = @ + 1,
                                   ![f].heard = Append(@, name),
                                   ![f].vetoed = veto]
     /\ UNCHANGED <<arrays, lists, changes>>

-----------------------------------------------------------------------------

\* Adding and removing handlers while a Fire or an Emit runs neither hides a
\* handler from it nor runs one twice: it calls those that were registered
\* when it began, in order, and all of them unless one vetoed.
HooksHeard ==
  \A f \in Firers :
    /\ IsPrefix(firing[f].heard, firing[f].due)
    /\ FiringDone(f) /\ ~firing[f].vetoed => firing[f].heard = firing[f].due

=============================================================================

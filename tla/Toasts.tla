------------------------------- MODULE Toasts -------------------------------
(***************************************************************************)
(* The stack of toasts (ToastManager in src/app.rs, Toast in               *)
(* src/ui/components/toast.rs) as operators on a record: a toast has a     *)
(* group; it leaves by itself after some ticks, or stays until someone     *)
(* dismisses it; while the pointer is on it its time stands still.  All    *)
(* toasts of the program are at one position, Top.  A new toast has an id  *)
(* above all others and goes to the end of the stack, so the stack is the  *)
(* set of its toasts, in the order of their ids.                           *)
(***************************************************************************)
EXTENDS Naturals, FiniteSets

CONSTANT Cap                    \* toasts at a position (6 in the code)

ASSUME CapAssumption == Cap \in Nat \ {0}

NoToast == 0                    \* ids start at 1 here
Sticky  == 0                    \* close_after: None

(* Toast::new, with the buttons of .action *)
Toast(group, closeAfter, actions) ==
  [group |-> group, close_after |-> closeAfter, actions |-> actions]

EmptyManager == [toasts |-> {}, next |-> 1, hovered |-> NoToast]

(* Mutant: a new toast takes the place of all of its group. *)
EvictedAll(t, toast) == t.group = toast.group

Evicted(t, toast) == t.group = toast.group /\ t.close_after # Sticky

New(m, toast) ==
  [id |-> m.next, group |-> toast.group, close_after |-> toast.close_after,
   remaining |-> toast.close_after, actions |-> toast.actions, dismissing |-> FALSE]

ButOldest(toasts) == {t \in toasts: \E u \in toasts: u.id < t.id}

(* push: the toasts of the group that would leave anyway make room at      *)
(* once; of too many that stay the oldest goes.                            *)
Push(m, toast) ==
  LET kept == {t \in m.toasts: ~Evicted(t, toast)}
      room == IF Cardinality(kept) >= Cap THEN ButOldest(kept) ELSE kept
  IN [toasts  |-> room \cup {New(m, toast)},
      next    |-> m.next + 1,
      hovered |-> IF \E t \in m.toasts: t.id = m.hovered /\ Evicted(t, toast)
                    THEN NoToast ELSE m.hovered]

(* dismiss: the exit begins; it is not begun again. *)
Leaving(t) == [t EXCEPT !.dismissing = TRUE]

Dismiss(m, id) ==
  [m EXCEPT !.toasts = {IF t.id = id THEN Leaving(t) ELSE t: t \in @},
            !.hovered = IF @ = id /\ \E t \in m.toasts: t.id = id /\ ~t.dismissing
                          THEN NoToast ELSE @]

Hover(m, id)   == [m EXCEPT !.hovered = id]
Unhover(m, id) == [m EXCEPT !.hovered = IF @ = id THEN NoToast ELSE @]

(* tick *)
Counts(m, t) == t.close_after # Sticky /\ t.id # m.hovered /\ ~t.dismissing

Ticked(m, t) ==
  IF ~Counts(m, t) THEN t
  ELSE IF t.remaining <= 1 THEN Leaving([t EXCEPT !.remaining = 0])
  ELSE [t EXCEPT !.remaining = @ - 1]

Tick(m) == [m EXCEPT !.toasts = {Ticked(m, t): t \in @}]

(* prune_completed, when the exit of id has run *)
Prune(m, id) ==
  [m EXCEPT !.toasts = {t \in @: ~(t.id = id /\ t.dismissing)},
            !.hovered = IF @ = id /\ \E t \in m.toasts: t.id = id /\ t.dismissing
                          THEN NoToast ELSE @]

Shows(m, id) == \E t \in m.toasts: t.id = id
ToastOf(m, id) == CHOOSE t \in m.toasts: t.id = id

IsManager(m) ==
  /\ m.next \in Nat \ {0} /\ m.hovered \in 0..(m.next - 1)
  /\ Cardinality(m.toasts) <= Cap
  /\ \A t \in m.toasts:
       /\ t.id \in 1..(m.next - 1) /\ t.remaining \in 0..t.close_after
       /\ \A u \in m.toasts: t.id = u.id => t = u
=============================================================================

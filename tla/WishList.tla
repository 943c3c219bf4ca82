------------------------------ MODULE WishList ------------------------------
(***************************************************************************)
(* The wishes of Our Space (our-space.tsx): a list that is kept in the     *)
(* browser's storage, whole, at every change.  It is read when the window  *)
(* mounts and at no other time; a list that does not pass the checks is    *)
(* put aside for the default wishes.  The text of a wish is left out: the  *)
(* form admits only what the checks accept.                                *)
(***************************************************************************)
EXTENDS Naturals, SequencesExt

CONSTANTS
    Windows,        \* the tabs that can show the desktop
    MaxWishes,      \* 100
    MaxAdded        \* bound: wishes added

\* The default wishes, and those that are added, are told apart by their ids:
\* createClientId never gives one twice.
DefaultIds == {0}
Ids == DefaultIds \cup 1..MaxAdded

ASSUME WishAssumption == MaxWishes \in Nat \ {0} /\ MaxAdded \in Nat

Absent == [kind |-> "absent", list |-> <<>>]
Broken == [kind |-> "broken", list |-> <<>>]
Stored(list) == [kind |-> "list", list |-> list]

VARIABLES
    wishStore,      \* neko-our-space-wishes-v1: a list, absent, or nothing useful
    opened,         \* the windows that are open
    wishes,         \* what each shows
    saved,          \* what it tells about the storage
    added,          \* what MaxAdded counts
    shared          \* ghost: a write while another window was open

wishVars == <<wishStore, opened, wishes, saved, added, shared>>

Wish == [id: Ids, done: BOOLEAN]

Defaults == <<[id |-> 0, done |-> FALSE]>>

\* readWishes
Accepted(value) ==
    /\ Len(value) <= MaxWishes
    /\ \A i, j \in DOMAIN value : value[i].id = value[j].id => i = j

ReadWishes(value) ==
    IF value = Absent THEN [wishes |-> Defaults, saved |-> TRUE]
    ELSE IF value # Broken /\ Accepted(value.list)
    THEN [wishes |-> value.list, saved |-> TRUE]
    ELSE [wishes |-> Defaults, saved |-> FALSE]

WishTypeOK ==
    /\ wishStore.kind \in {"absent", "broken", "list"} /\ wishStore.list \in Seq(Wish)
    /\ opened \subseteq Windows /\ wishes \in [Windows -> Seq(Wish)]
    /\ saved \in [Windows -> BOOLEAN]
    /\ added \in 0..MaxAdded /\ shared \in BOOLEAN

WishInit ==
    /\ wishStore \in {Absent, Broken}
    /\ opened = {} /\ wishes = [w \in Windows |-> <<>>] /\ saved = [w \in Windows |-> TRUE]
    /\ added = 0 /\ shared = FALSE

OpenSpace(w) ==
    /\ w \notin opened /\ opened' = opened \cup {w}
    /\ wishes' = [wishes EXCEPT ![w] = ReadWishes(wishStore).wishes]
    /\ saved' = [saved EXCEPT ![w] = ReadWishes(wishStore).saved]
    /\ UNCHANGED <<wishStore, added, shared>>

\* The window is closed, or its tab.
CloseSpace(w) ==
    /\ w \in opened /\ opened' = opened \ {w}
    /\ wishes' = [wishes EXCEPT ![w] = <<>>]
    /\ saved' = [saved EXCEPT ![w] = TRUE]
    /\ UNCHANGED <<wishStore, added, shared>>

\* saveWishes: the storage may refuse.
SaveWishes(w, next) ==
    /\ wishes' = [wishes EXCEPT ![w] = next]
    /\ \/ wishStore' = Stored(next) /\ saved' = [saved EXCEPT ![w] = TRUE]
       \/ UNCHANGED wishStore /\ saved' = [saved EXCEPT ![w] = FALSE]
    /\ shared' = (shared \/ opened # {w})
    /\ UNCHANGED opened

Toggle(w, i) ==
    /\ w \in opened /\ i \in DOMAIN wishes[w]
    /\ SaveWishes(w, [wishes[w] EXCEPT ![i].done = ~@])
    /\ UNCHANGED added

RemoveWish(w, i) ==
    /\ w \in opened /\ i \in DOMAIN wishes[w]
    /\ SaveWishes(w, RemoveAt(wishes[w], i))
    /\ UNCHANGED added

\* Slip: one wish more than the checks accept.
AddsOneMore(w) ==
    /\ w \in opened /\ Len(wishes[w]) <= MaxWishes
    /\ added < MaxAdded /\ added' = added + 1
    /\ SaveWishes(w, Append(wishes[w], [id |-> added', done |-> FALSE]))

AddWish(w) ==
    /\ w \in opened /\ Len(wishes[w]) < MaxWishes
    /\ added < MaxAdded /\ added' = added + 1
    /\ SaveWishes(w, Append(wishes[w], [id |-> added', done |-> FALSE]))

WishNext ==
    \E w \in Windows :
       \/ OpenSpace(w) \/ CloseSpace(w) \/ AddWish(w)
       \/ \E i \in 1..MaxWishes : Toggle(w, i) \/ RemoveWish(w, i)

WishSpec == WishInit /\ [][WishNext]_wishVars

-----------------------------------------------------------------------------
(* Properties.                                                             *)

\* A window that says its wishes are kept in this browser shows what the next
\* window will find there -- as long as no two windows wrote at once.
SavedMeansKept ==
    \A w \in Windows :
       ~shared /\ w \in opened /\ saved[w] =>
          ReadWishes(wishStore) = [wishes |-> wishes[w], saved |-> TRUE]

\* Nothing the windows write is refused when it is read, not even when they
\* write over each other.
WrittenIsReadable == wishStore.kind = "list" => Accepted(wishStore.list)

WishesSound == WishTypeOK /\ SavedMeansKept /\ WrittenIsReadable
=============================================================================

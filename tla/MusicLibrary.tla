---------------------------- MODULE MusicLibrary ----------------------------
(***************************************************************************)
(* The collection of saved music (music-session.tsx): every tab holds a    *)
(* copy, writes it whole to the browser's storage, and replaces it by what *)
(* a storage event says another tab wrote.  The storage is shared at once; *)
(* the events come later, in the order of the writes.                      *)
(***************************************************************************)
EXTENDS Naturals, FiniteSets, SequencesExt

CONSTANTS
    Tabs,
    Songs,          \* what can be saved
    MaxSaved,       \* 20
    MaxWrites       \* bound: saves and removals

ASSUME LibraryAssumption == MaxSaved \in Nat /\ MaxWrites \in Nat

VARIABLES
    storage,        \* neko-music-library-v1
    library,        \* the copy of every tab
    restored,       \* the tabs that have restored it
    storageEvents,  \* the storage events a tab has not handled
    writes, overlapped

libraryVars == <<storage, library, restored, storageEvents, writes, overlapped>>

LibraryTypeOK ==
    /\ storage \in Seq(Songs) /\ writes \in 0..MaxWrites
    /\ library \in [Tabs -> Seq(Songs)] /\ restored \subseteq Tabs
    /\ \A t \in Tabs : \A i \in DOMAIN storageEvents[t] : storageEvents[t][i] \in Seq(Songs)
    /\ overlapped \in BOOLEAN

LibraryInit ==
    /\ storage = <<>> /\ library = [t \in Tabs |-> <<>>]
    /\ restored = {} /\ storageEvents = [t \in Tabs |-> <<>>]
    /\ writes = 0 /\ overlapped = FALSE

\* What a list has at some places, in its order.
AtPlaces(list, places) ==
    [k \in 1..Cardinality(places) |->
        list[CHOOSE i \in places : Cardinality({j \in places : j <= i}) = k]]

\* filter
AllBut(list, s) == AtPlaces(list, {i \in DOMAIN list : list[i] # s})

\* restoreMusicItems: at most MaxSaved entries, each once.
Restore(saved) ==
    AtPlaces(saved, {i \in DOMAIN saved : i <= MaxSaved /\ \A j \in 1..i - 1 : saved[j] # saved[i]})

\* The tab mounts: it restores its copy and starts to listen.
Restores(t) ==
    /\ t \notin restored
    /\ restored' = restored \cup {t}
    /\ library' = [library EXCEPT ![t] = Restore(storage)]
    /\ UNCHANGED <<storage, storageEvents, writes, overlapped>>

\* Ghost: a write made while some event is on its way may undo what it tells; a
\* write the storage refuses never reaches the other tabs.
Overlap == overlapped' = (overlapped \/ \E t \in restored : storageEvents[t] # <<>>)

\* persist: the storage may refuse (full, or not allowed); the tab's copy
\* changes all the same.
Persist(t, next) ==
    /\ writes < MaxWrites /\ writes' = writes + 1
    /\ library' = [library EXCEPT ![t] = next]
    /\ \/ /\ storage' = next
          /\ storageEvents' = [u \in Tabs |-> IF u \in restored \ {t} /\ next # storage
                                       THEN Append(storageEvents[u], next) ELSE storageEvents[u]]
          /\ Overlap
       \/ /\ overlapped' = TRUE
          /\ UNCHANGED <<storage, storageEvents>>
    /\ UNCHANGED restored

\* Slip: one more than fits is saved; the next restore drops it.
OneTooMany(t, s) ==
    /\ t \in restored
    /\ Len(AllBut(library[t], s)) <= MaxSaved
    /\ Persist(t, <<s>> \o AllBut(library[t], s))

\* Slip: a song saved again stays where it was, too.
SavesTwice(t, s) ==
    /\ t \in restored
    /\ Len(library[t]) < MaxSaved
    /\ Persist(t, <<s>> \o library[t])

SaveFavorite(t, s) ==
    /\ t \in restored
    /\ Len(AllBut(library[t], s)) < MaxSaved
    /\ Persist(t, <<s>> \o AllBut(library[t], s))

RemoveFavorite(t, s) ==
    /\ Contains(library[t], s)
    /\ Persist(t, AllBut(library[t], s))

\* sync
HandleStorageEvent(t) ==
    /\ storageEvents[t] # <<>>
    /\ library' = [library EXCEPT ![t] = Restore(Head(storageEvents[t]))]
    /\ storageEvents' = [storageEvents EXCEPT ![t] = Tail(@)]
    /\ UNCHANGED <<storage, restored, writes, overlapped>>

LibraryNext ==
    \E t \in Tabs :
       \/ Restores(t) \/ HandleStorageEvent(t)
       \/ \E s \in Songs : SaveFavorite(t, s) \/ RemoveFavorite(t, s)

LibrarySpec == LibraryInit /\ [][LibraryNext]_libraryVars

-----------------------------------------------------------------------------
(* Properties.                                                             *)

\* Reopening the page brings back exactly the collection that was written,
\* nothing dropped by the checks of the restore.
RestoreKeepsAll == Restore(storage) = storage

\* Tabs whose writes neither crossed nor failed show the same collection, the stored one,
\* when the events have been handled.
TabsAgree ==
    ~overlapped => \A t \in restored : storageEvents[t] = <<>> => library[t] = storage

LibrarySound == LibraryTypeOK /\ RestoreKeepsAll /\ TabsAgree
=============================================================================

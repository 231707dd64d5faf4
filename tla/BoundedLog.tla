----------------------------- MODULE BoundedLog -----------------------------
(***************************************************************************)
(* What a buffer that keeps the most recent entries promises: it holds the *)
(* last Capacity entries that were added, in the order they were added.    *)
(* push_history of the message-queue chat server implements it with a ring *)
(* (HistoryRing).                                                          *)
(***************************************************************************)
EXTENDS Naturals, Sequences

CONSTANTS Entries,   \* what can be added
          Capacity   \* how many entries are kept

VARIABLE window      \* the entries kept, oldest first

Init == window = <<>>

Add(e) == window' = IF Len(window) < Capacity THEN Append(window, e)
                                              ELSE Append(Tail(window), e)

Next == \E e \in Entries : Add(e)

Spec == Init /\ [][Next]_window
=============================================================================

------------------------------ MODULE SharedNote ------------------------------
(***************************************************************************)
(* What the docs editor promises for a note that its clients edit together *)
(* and that other writers of the vault edit behind their back: the         *)
(* abstract specification that CollabDocs implements.                      *)
(*                                                                         *)
(* The note has a history that only grows.  An edit is pending from the    *)
(* moment it is typed until a writeback puts it into the history on top of *)
(* everything the last version says, or until it is given up, which only a *)
(* version that came after the one it was typed on justifies.              *)
(***************************************************************************)
EXTENDS Naturals, Sequences, FiniteSets

CONSTANTS Notes, Edits

VARIABLES
  history,   \* note -> its versions: whose text, and which edits on top of it
  fate,      \* edit -> "unmade", "pending", "kept" or "superseded"
  basis      \* edit -> the note, and the version of it, that it was typed on

shared == <<history, fate, basis>>

Last(n) == history[n][Len(history[n])]
Grows(n, text) == history' = [history EXCEPT ![n] = Append(@, text)]
Becomes(es, f) == fate' = [e \in Edits |-> IF e \in es THEN f ELSE fate[e]]
Pending(n) == {e \in Edits : fate[e] = "pending" /\ basis[e].note = n}

\* Somebody else writes the note.
Overwrite(n) ==
  /\ Grows(n, [ext |-> Len(history[n]) + 1, edits |-> {}])
  /\ UNCHANGED <<fate, basis>>

Type(n, e) ==
  /\ fate[e] = "unmade"
  /\ Becomes({e}, "pending")
  /\ \E v \in 1..Len(history[n]) : basis' = [basis EXCEPT ![e] = [note |-> n, version |-> v]]
  /\ UNCHANGED history

WriteBack(n) ==
  \E es \in SUBSET Pending(n) :
    /\ Grows(n, [Last(n) EXCEPT !.edits = @ \cup es])
    /\ Becomes(es, "kept")
    /\ UNCHANGED basis

GiveUp(n) ==
  \E es \in SUBSET {e \in Pending(n) : basis[e].version < Len(history[n])} :
    /\ Becomes(es, "superseded")
    /\ UNCHANGED <<history, basis>>

Init ==
  /\ history = [n \in Notes |-> <<[ext |-> 1, edits |-> {}]>>]
  /\ fate = [e \in Edits |-> "unmade"]
  /\ basis \in [Edits -> [note : Notes, version : {0}]]

Next ==
  \E n \in Notes : Overwrite(n) \/ WriteBack(n) \/ GiveUp(n) \/ \E e \in Edits : Type(n, e)

Spec == Init /\ [][Next]_shared
=============================================================================

---------------------------- MODULE SerialEdits ----------------------------
(***************************************************************************)
(* What the catalog promises the people who edit it: a page is replaced by *)
(* somebody who has read the text it replaces, and a page that was taken   *)
(* down stays down.                                                        *)
(***************************************************************************)
CONSTANTS Pages, Texts, Editors, Unwritten, Removed, Nothing

VARIABLES
  text, \* the text of each page
  held  \* the page and text each editor has read last

Init ==
  /\ text = [p \in Pages |-> Unwritten]
  /\ held = [e \in Editors |-> Nothing]

Sheet(p, t) == [page |-> p, text |-> t]

Write(e, p, t) ==
  /\ text' = [text EXCEPT ![p] = t]
  /\ held' = [held EXCEPT ![e] = Sheet(p, t)]

\* A new page, which its author holds.
Publish(e, p, t) == text[p] = Unwritten /\ Write(e, p, t)

Read(e, p) ==
  /\ text[p] \in Texts
  /\ held' = [held EXCEPT ![e] = Sheet(p, text[p])]
  /\ UNCHANGED text

\* No update is lost: the editor holds what the page says.
Edit(e, p, t) == held[e] = Sheet(p, text[p]) /\ Write(e, p, t)

TakeDown(p) ==
  /\ text[p] \in Texts
  /\ text' = [text EXCEPT ![p] = Removed]
  /\ UNCHANGED held

Next ==
  \E p \in Pages :
    \/ TakeDown(p)
    \/ \E e \in Editors :
         \/ Read(e, p)
         \/ \E t \in Texts : Publish(e, p, t) \/ Edit(e, p, t)

Spec == Init /\ [][Next]_<<text, held>>
=============================================================================

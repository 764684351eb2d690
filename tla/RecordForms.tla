----------------------------- MODULE RecordForms -----------------------------
(***************************************************************************)
(* The dialogs that write one record: New Record and Edit Record, with the *)
(* page that opens and closes them, and the format that the explorer shows *)
(* a value in.  Another client of the database writes the same record.     *)
(*                                                                         *)
(* A text is known by what the code asks of it: how it starts, whether it  *)
(* ends accordingly, whether JSON.parse takes it, whether it has a bar in  *)
(* it.  What the builder makes (RecordFields) is one of the texts.         *)
(***************************************************************************)
EXTENDS Naturals

CONSTANTS
  Texts, EmptyText, Absent, \* values; a value of length 0; no record
  Built,                    \* what the builder may make
  Nothing,                  \* no request, no panel, no error
  NotBuilt                   \* what the builder refused

VARIABLES
  stored,                           \* the record
  newOpen, form, newBusy, newError, \* New Record: keyValid, value in the fields
  newCall,                          \* its request
  edit, editCalls                   \* Edit Record: the text and saving; requests

newVars == <<newOpen, form, newBusy, newError, newCall>>
editVars == <<edit, editCalls>>
vars == <<stored, newVars, editVars>>

Format(t) ==
  CASE t = EmptyText                                -> "empty"
    [] t # EmptyText /\ t.first = "brace" /\ t.closed ->
         IF t.parses THEN "json_object" ELSE "string"
    [] t # EmptyText /\ t.first = "bracket" /\ t.closed ->
         IF t.parses THEN "json_array" ELSE "string"
    [] OTHER                                        -> IF t.bar THEN "token" ELSE "string"

(* raw text, or what the builder made, and whether the key is a uint64. *)
Forms == [keyValid : BOOLEAN, value : Texts \cup {EmptyText, NotBuilt}]

Requests == [op : {"lookup", "save"}, value : Texts, ans : {Nothing, "ok", "notFound", "failed"}]
Panels   == [text : Texts \cup {EmptyText}, saving : BOOLEAN]
Puts     == [value : Texts \cup {EmptyText}, ans : {Nothing, "ok", "failed"}, mine : BOOLEAN]

(* What stands for nothing is no request, panel or answer, and JSON that begins as
   an object, or an array, ends as one. *)
FormsAssumption ==
  /\ Nothing \notin {"ok", "notFound", "failed"}
  /\ Nothing \notin Requests /\ Nothing \notin Panels /\ Nothing \notin Puts
  /\ \A t \in Texts : t.first \in {"brace", "bracket"} /\ t.parses => t.closed

Init ==
  /\ stored \in Texts \cup {EmptyText, Absent}
  /\ newOpen = FALSE /\ newBusy = FALSE /\ newError = Nothing /\ newCall = Nothing
  /\ form = [keyValid |-> TRUE, value |-> EmptyText]
  /\ edit = Nothing /\ editCalls = [i \in 1..2 |-> Nothing]

----------------------------------------------------------------------------
(* New Record.  Its answers act on it whether it is open or not. *)

OpenNew == ~newOpen /\ edit = Nothing /\ newOpen' = TRUE /\ UNCHANGED <<stored, form, newBusy, newError, newCall, editVars>>

(* Escape, the cross and Cancel. *)
CloseNewUnguarded == \* mutant: it can be closed while it writes
  newOpen /\ newOpen' = FALSE /\ UNCHANGED <<stored, form, newBusy, newError, newCall, editVars>>
CloseNew ==
  newOpen /\ ~newBusy /\ newOpen' = FALSE /\ UNCHANGED <<stored, form, newBusy, newError, newCall, editVars>>

(* The key in one of its three modes, the text, the fields of the builder. *)
Type(f) == newOpen /\ form' = f /\ UNCHANGED <<stored, newOpen, newBusy, newError, newCall, editVars>>

Valid(f) == f.keyValid /\ f.value \notin {NotBuilt, EmptyText}
SubmitNew ==
  /\ newOpen /\ ~newBusy
  /\ IF Valid(form)
     THEN /\ newBusy' = TRUE /\ newError' = Nothing
          /\ newCall' = [op |-> "lookup", value |-> form.value, ans |-> Nothing]
     ELSE newError' = "invalid" /\ UNCHANGED <<newBusy, newCall>>
  /\ UNCHANGED <<stored, newOpen, form, editVars>>

(* The record was looked up: save goes on only if it was not there. *)
LookupAnswered ==
  /\ newCall # Nothing /\ newCall.op = "lookup" /\ newCall.ans # Nothing
  /\ IF newCall.ans = "notFound"
     THEN /\ newCall' = [newCall EXCEPT !.op = "save", !.ans = Nothing]
          /\ UNCHANGED <<newBusy, newError>>
     ELSE /\ newError' = (IF newCall.ans = "ok" THEN "exists" ELSE "failed")
          /\ newBusy' = FALSE /\ newCall' = Nothing
  /\ UNCHANGED <<stored, newOpen, form, editVars>>
SaveAnswered ==
  /\ newCall # Nothing /\ newCall.op = "save" /\ newCall.ans # Nothing
  /\ newBusy' = FALSE /\ newCall' = Nothing
  /\ IF newCall.ans = "ok"
     THEN newOpen' = FALSE /\ form' = [keyValid |-> FALSE, value |-> EmptyText] /\ newError' = newError
     ELSE newError' = "failed" /\ UNCHANGED <<newOpen, form>>
  /\ UNCHANGED <<stored, editVars>>

(* The server: a lookup, then a post that creates only. *)
ServeLookup ==
  /\ newCall # Nothing /\ newCall.op = "lookup" /\ newCall.ans = Nothing
  /\ newCall' = [newCall EXCEPT !.ans = IF stored = Absent THEN "notFound" ELSE "ok"]
  /\ UNCHANGED <<stored, newOpen, form, newBusy, newError, editVars>>
(* createOnly of save *)
CreateOnlyOff == FALSE \* mutant: the dialog relies on its lookup
CreateOnly == TRUE
ServeSave ==
  /\ newCall # Nothing /\ newCall.op = "save" /\ newCall.ans = Nothing
  /\ IF CreateOnly /\ stored # Absent
     THEN newCall' = [newCall EXCEPT !.ans = "failed"] /\ stored' = stored
     ELSE newCall' = [newCall EXCEPT !.ans = "ok"] /\ stored' = newCall.value
  /\ UNCHANGED <<newOpen, form, newBusy, newError, editVars>>
(* A request is lost, or the answer to a save that was made. *)
LoseNew ==
  /\ newCall # Nothing /\ (newCall.ans = Nothing \/ (newCall.op = "save" /\ newCall.ans = "ok"))
  /\ newCall' = [newCall EXCEPT !.ans = "failed"]
  /\ UNCHANGED <<stored, newOpen, form, newBusy, newError, editVars>>

----------------------------------------------------------------------------
(* Edit Record.  The panel can be closed while it writes, and opened again: a
   request remembers whether the panel it came from is still there. *)

OpenEdit ==
  /\ edit = Nothing /\ ~newOpen /\ stored # Absent
  /\ edit' = [text |-> stored, saving |-> FALSE]
  /\ UNCHANGED <<stored, newVars, editCalls>>
Disowned == [i \in 1..2 |-> IF editCalls[i] = Nothing THEN Nothing ELSE [editCalls[i] EXCEPT !.mine = FALSE]]
CloseEdit == edit # Nothing /\ edit' = Nothing /\ editCalls' = Disowned /\ UNCHANGED <<stored, newVars>>
TypeEdit(t) == edit # Nothing /\ edit' = [edit EXCEPT !.text = t] /\ UNCHANGED <<stored, newVars, editCalls>>

LooksJSON(t) == t # EmptyText /\ t.first \in {"brace", "bracket"}
CommittableAny(t) == TRUE \* mutant: any text is committed
Committable(t) == LooksJSON(t) => t.parses
CommitEdit ==
  /\ edit # Nothing /\ ~edit.saving /\ Committable(edit.text)
  /\ \E i \in 1..2 :
       /\ editCalls[i] = Nothing /\ \A j \in 1..2 : j < i => editCalls[j] # Nothing
       /\ editCalls' = [editCalls EXCEPT ![i] = [value |-> edit.text, ans |-> Nothing, mine |-> TRUE]]
  /\ edit' = [edit EXCEPT !.saving = TRUE]
  /\ UNCHANGED <<stored, newVars>>

(* update puts whatever is there now; a put can fail, before or after. *)
ServeEdit(i) ==
  /\ editCalls[i] # Nothing /\ editCalls[i].ans = Nothing
  /\ \/ stored' = editCalls[i].value /\ editCalls' = [editCalls EXCEPT ![i].ans = "ok"]
     \/ stored' \in {stored, editCalls[i].value} /\ editCalls' = [editCalls EXCEPT ![i].ans = "failed"]
  /\ UNCHANGED <<newVars, edit>>

(* The page closes the panel that is open, whichever it is. *)
EditAnswered(i) ==
  /\ editCalls[i] # Nothing /\ editCalls[i].ans # Nothing
  /\ editCalls' = [(IF editCalls[i].ans = "ok" THEN Disowned ELSE editCalls) EXCEPT ![i] = Nothing]
  /\ edit' = (IF editCalls[i].ans = "ok" THEN Nothing
              ELSE IF editCalls[i].mine THEN [edit EXCEPT !.saving = FALSE] ELSE edit)
  /\ UNCHANGED <<stored, newVars>>

OtherWrite == \E v \in Texts \cup {EmptyText, Absent} : stored' = v /\ v # stored /\ UNCHANGED <<newVars, editVars>>

Next ==
  \/ OpenNew \/ CloseNew \/ SubmitNew \/ LookupAnswered \/ SaveAnswered
  \/ ServeLookup \/ ServeSave \/ LoseNew
  \/ \E f \in Forms : f.value \in Built \cup {EmptyText, NotBuilt} /\ Type(f)
  \/ OpenEdit \/ CloseEdit \/ CommitEdit \/ OtherWrite
  \/ \E t \in Texts \cup {EmptyText} : TypeEdit(t)
  \/ \E i \in 1..2 : ServeEdit(i) \/ EditAnswered(i)
Spec == Init /\ [][Next]_vars

----------------------------------------------------------------------------
TypeOK ==
  /\ stored \in Texts \cup {EmptyText, Absent} /\ {newOpen, newBusy} \subseteq BOOLEAN /\ form \in Forms
  /\ newError \in {Nothing, "invalid", "exists", "failed"}
  /\ edit # Nothing => edit.text \in Texts \cup {EmptyText}

(* New Record never replaces a record, although another client may create it
   after the dialog looked it up: in no order of the two does a save that the
   server takes change what was there. *)
CreateNeverOverwrites ==
  [][ newCall # Nothing /\ newCall.op = "save" /\ newCall.ans = Nothing /\ newCall' # newCall
      => stored' = stored \/ stored = Absent ]_vars

(* New Record is busy exactly while its own request is under way, and is there
   to show how it ended; Edit Record is saving only while a request of the
   panel that is open is. *)
FormsSettle ==
  /\ newBusy <=> newCall # Nothing
  /\ newBusy => newOpen
  /\ edit # Nothing /\ edit.saving => \E i \in 1..2 : editCalls[i] # Nothing /\ editCalls[i].mine

(* What the edit panel writes is shown as it was typed: a text that begins as
   an object or an array is stored only if the explorer will show it as one. *)
EditKeepsFormat ==
  \A i \in 1..2 : editCalls[i] # Nothing /\ LooksJSON(editCalls[i].value)
                  => Format(editCalls[i].value) \in {"json_object", "json_array"}
==============================================================================

-------------------------- MODULE StudioPartsProofs ---------------------------
(***************************************************************************)
(* Theorems about the dialogs and panels of the Studio, for any of the     *)
(* constants that their modules allow.                                     *)
(***************************************************************************)
EXTENDS Parts, FiniteSetTheorems, SequenceTheorems, WellFoundedInduction, TLAPS

FormsTypes ==
  /\ stored \in Texts \cup {EmptyText, Absent}
  /\ form \in Forms!Forms
  /\ newCall \in {Nothing} \cup Forms!Requests
  /\ edit \in {Nothing} \cup Forms!Panels
  /\ editCalls \in [1..2 -> {Nothing} \cup Forms!Puts]

(* A request of the panel's own is under way only while the panel is there, and
   the answer of the panel's own is the only one that changes it. *)
Owned == \A i \in 1..2 : editCalls[i] # Nothing /\ editCalls[i].mine => edit # Nothing

(* FormsSettle, dialog by dialog. *)
NewSettles == (newBusy <=> newCall # Nothing) /\ (newBusy => newOpen)
PanelSettles ==
  edit # Nothing /\ edit.saving => \E i \in 1..2 : editCalls[i] # Nothing /\ editCalls[i].mine

FormsInv == FormsTypes /\ Owned /\ NewSettles /\ PanelSettles /\ Forms!EditKeepsFormat

----------------------------------------------------------------------------
(* No step of New Record but the server's changes the record, and that one is
   made only where there is none. *)
THEOREM NeverOverwrites == PartsSpec => CreateNeverOverwrites
<1> DEFINE A == newCall # Nothing /\ newCall.op = "save" /\ newCall.ans = Nothing /\ newCall' # newCall
                => stored' = stored \/ stored = Absent
<1>1. [PartsNext]_partsVars => [Forms!Next]_formsVars
  BY DEF PartsNext, Unused, partsVars
<1>2. [Forms!Next]_formsVars => [A]_(Forms!vars)
  <2>0. UNCHANGED formsVars => UNCHANGED Forms!vars
    BY DEF formsVars, Forms!vars, Forms!newVars, Forms!editVars
  <2> SUFFICES ASSUME Forms!Next, newCall # Nothing, newCall.op = "save", newCall.ans = Nothing,
                      newCall' # newCall
               PROVE  stored' = stored \/ stored = Absent
    BY <2>0
  <2> USE DEF Forms!newVars, Forms!editVars
  <2>1. CASE Forms!OpenNew \/ Forms!CloseNew \/ Forms!SubmitNew \/ Forms!LookupAnswered
           \/ Forms!SaveAnswered \/ Forms!ServeLookup \/ Forms!LoseNew
    BY <2>1 DEF Forms!OpenNew, Forms!CloseNew, Forms!SubmitNew, Forms!LookupAnswered,
       Forms!SaveAnswered, Forms!ServeLookup, Forms!LoseNew
  <2>2. CASE Forms!ServeSave
    BY <2>2 DEF Forms!ServeSave, Forms!CreateOnly
  <2>3. CASE \E f \in Forms!Forms : f.value \in Built \cup {EmptyText, NotBuilt} /\ Forms!Type(f)
    BY <2>3 DEF Forms!Type
  <2>4. CASE Forms!OpenEdit \/ Forms!CloseEdit \/ Forms!CommitEdit \/ Forms!OtherWrite
    BY <2>4 DEF Forms!OpenEdit, Forms!CloseEdit, Forms!CommitEdit, Forms!OtherWrite
  <2>5. CASE (\E t \in Texts \cup {EmptyText} : Forms!TypeEdit(t)) \/ (\E i \in 1..2 : Forms!ServeEdit(i) \/ Forms!EditAnswered(i))
    BY <2>5 DEF Forms!TypeEdit, Forms!ServeEdit, Forms!EditAnswered
  <2> QED BY <2>1, <2>2, <2>3, <2>4, <2>5 DEF Forms!Next
<1> QED BY <1>1, <1>2, PTL DEF PartsSpec, CreateNeverOverwrites, Forms!CreateNeverOverwrites

----------------------------------------------------------------------------
LEMMA InitForms == ASSUME Forms!Init PROVE FormsInv
BY DEF Forms!Init, FormsInv, FormsTypes, Owned, NewSettles, PanelSettles, Forms!EditKeepsFormat, Forms!Forms

(* What a committed text is shown as. *)
LEMMA FormatOf ==
  ASSUME Forms!FormsAssumption, NEW t \in Texts \cup {EmptyText}, Forms!LooksJSON(t), Forms!Committable(t)
  PROVE  Forms!Format(t) \in {"json_object", "json_array"}
<1>1. t \in Texts /\ t # EmptyText /\ t.parses /\ t.closed /\ t.first \in {"brace", "bracket"}
  BY DEF Forms!FormsAssumption, Forms!LooksJSON, Forms!Committable
<1>2. CASE t.first = "brace"
  BY <1>1, <1>2 DEF Forms!Format
<1>3. CASE t.first = "bracket"
  BY <1>1, <1>3 DEF Forms!Format
<1> QED BY <1>1, <1>2, <1>3

(* New Record's steps leave the panel alone. *)
LEMMA NewSteps ==
  ASSUME Forms!FormsAssumption, FormsInv, UNCHANGED Forms!editVars,
         \/ Forms!OpenNew \/ Forms!CloseNew \/ Forms!SubmitNew \/ Forms!LookupAnswered \/ Forms!SaveAnswered
         \/ Forms!ServeLookup \/ Forms!ServeSave \/ Forms!LoseNew
         \/ \E f \in Forms!Forms : f.value \in Built \cup {EmptyText, NotBuilt} /\ Forms!Type(f)
  PROVE  FormsInv'
<1> USE DEF FormsInv, Forms!editVars, Forms!FormsAssumption
<1>1. FormsTypes' /\ NewSettles'
  <2>0. newCall # Nothing => newCall \in Forms!Requests
    BY DEF FormsTypes
  <2>1. CASE Forms!OpenNew \/ Forms!CloseNew
    <3>1. FormsTypes'
      BY <2>1 DEF Forms!OpenNew, Forms!CloseNew, FormsTypes
    <3>2. NewSettles'
      BY <2>1 DEF Forms!OpenNew, Forms!CloseNew, NewSettles
    <3> QED BY <3>1, <3>2
  <2>2. CASE Forms!SubmitNew
    <3>1. FormsTypes'
      BY <2>2 DEF Forms!SubmitNew, FormsTypes, Forms!Requests, Forms!Valid, Forms!Forms
    <3>2. NewSettles'
      BY <2>2 DEF Forms!SubmitNew, NewSettles, Forms!Requests, Forms!Valid, Forms!Forms, FormsTypes
    <3> QED BY <3>1, <3>2
  <2>3. CASE Forms!LookupAnswered
    <3>1. FormsTypes'
      BY <2>3, <2>0 DEF Forms!LookupAnswered, FormsTypes, Forms!Requests
    <3>2. NewSettles'
      BY <2>3, <2>0 DEF Forms!LookupAnswered, NewSettles, Forms!Requests
    <3> QED BY <3>1, <3>2
  <2>4. CASE Forms!SaveAnswered
    <3>0. [keyValid |-> FALSE, value |-> EmptyText] \in Forms!Forms
      BY DEF Forms!Forms
    <3>1. FormsTypes'
      BY <2>4, <3>0 DEF Forms!SaveAnswered, FormsTypes
    <3>2. NewSettles'
      BY <2>4, <2>0 DEF Forms!SaveAnswered, NewSettles, Forms!Requests
    <3> QED BY <3>1, <3>2
  <2>5. CASE Forms!ServeLookup
    <3>1. FormsTypes'
      BY <2>5, <2>0 DEF Forms!ServeLookup, FormsTypes, Forms!Requests
    <3>2. NewSettles'
      BY <2>5, <2>0 DEF Forms!ServeLookup, NewSettles, Forms!Requests
    <3> QED BY <3>1, <3>2
  <2>6. CASE Forms!ServeSave
    <3>1. FormsTypes'
      BY <2>6, <2>0 DEF Forms!ServeSave, FormsTypes, Forms!Requests
    <3>2. NewSettles'
      BY <2>6, <2>0 DEF Forms!ServeSave, NewSettles, Forms!Requests
    <3> QED BY <3>1, <3>2
  <2>7. CASE Forms!LoseNew
    <3>1. FormsTypes'
      BY <2>7, <2>0 DEF Forms!LoseNew, FormsTypes, Forms!Requests
    <3>2. NewSettles'
      BY <2>7, <2>0 DEF Forms!LoseNew, NewSettles, Forms!Requests
    <3> QED BY <3>1, <3>2
  <2>8. CASE \E f \in Forms!Forms : f.value \in Built \cup {EmptyText, NotBuilt} /\ Forms!Type(f)
    <3>1. FormsTypes'
      BY <2>8 DEF Forms!Type, FormsTypes
    <3>2. NewSettles'
      BY <2>8 DEF Forms!Type, NewSettles
    <3> QED BY <3>1, <3>2
  <2> QED BY <2>1, <2>2, <2>3, <2>4, <2>5, <2>6, <2>7, <2>8
<1>2. Owned' /\ Forms!EditKeepsFormat'
  BY DEF Owned, Forms!EditKeepsFormat
<1>3. PanelSettles'
  BY DEF PanelSettles
<1> QED BY <1>1, <1>2, <1>3

(* The panel's steps, and another client's, leave New Record alone. *)
LEMMA EditSteps ==
  ASSUME Forms!FormsAssumption, FormsInv, UNCHANGED Forms!newVars,
         \/ Forms!OpenEdit \/ Forms!CloseEdit \/ Forms!CommitEdit \/ Forms!OtherWrite
         \/ (\E t \in Texts \cup {EmptyText} : Forms!TypeEdit(t))
         \/ (\E i \in 1..2 : Forms!ServeEdit(i) \/ Forms!EditAnswered(i))
  PROVE  FormsInv'
<1> USE DEF FormsInv, Forms!newVars
<1>0. NewSettles'
  BY DEF NewSettles
<1>t. /\ Nothing \notin Forms!Requests \cup Forms!Panels \cup Forms!Puts \cup {"ok", "failed"}
      /\ \A i \in 1..2 : editCalls[i] # Nothing => editCalls[i] \in Forms!Puts
      /\ edit # Nothing => edit \in Forms!Panels
  BY DEF Forms!FormsAssumption, FormsTypes
<1>1. CASE Forms!OpenEdit
  <2>1. edit' \in Forms!Panels
    BY <1>1 DEF Forms!OpenEdit, FormsTypes, Forms!Panels
  <2> QED BY <1>0, <1>1, <1>t, <2>1 DEF Forms!OpenEdit, FormsTypes, Owned, PanelSettles,
             Forms!EditKeepsFormat
<1>2. ASSUME FormsTypes, NEW P, P = Forms!Disowned
      PROVE  /\ P \in [1..2 -> {Nothing} \cup Forms!Puts]
             /\ \A i \in 1..2 : P[i] # Nothing => editCalls[i] # Nothing /\ ~P[i].mine
                                    /\ P[i].value = editCalls[i].value
  BY <1>2, <1>t DEF Forms!Disowned, Forms!Puts
<1>3. CASE Forms!CloseEdit
  BY <1>0, <1>2, <1>3 DEF Forms!CloseEdit, FormsTypes, Owned, PanelSettles, Forms!EditKeepsFormat
<1>4. CASE Forms!CommitEdit
  <2> PICK i \in 1..2 :
        editCalls[i] = Nothing
        /\ editCalls' = [editCalls EXCEPT ![i] = [value |-> edit.text, ans |-> Nothing, mine |-> TRUE]]
    BY <1>4 DEF Forms!CommitEdit
  <2>1. /\ edit' \in Forms!Panels /\ edit.text \in Texts \cup {EmptyText} /\ Forms!Committable(edit.text)
        /\ stored' = stored
    BY <1>4, <1>t DEF Forms!CommitEdit, Forms!Panels
  <2>2. [value |-> edit.text, ans |-> Nothing, mine |-> TRUE] \in Forms!Puts
    BY <2>1 DEF Forms!Puts
  <2>3. FormsTypes'
    BY <2>1, <2>2 DEF FormsTypes
  <2>4. editCalls'[i].mine /\ editCalls'[i] # Nothing /\ editCalls'[i].value = edit.text
        /\ \A j \in 1..2 : j # i => editCalls'[j] = editCalls[j]
    BY <1>t, <2>2 DEF FormsTypes
  <2>5. Forms!EditKeepsFormat'
    BY <2>1, <2>4, FormatOf DEF Forms!EditKeepsFormat
  <2> QED BY <1>0, <1>t, <2>1, <2>3, <2>4, <2>5 DEF Owned, PanelSettles
<1>5. CASE Forms!OtherWrite
  BY <1>0, <1>5 DEF Forms!OtherWrite, Forms!editVars, FormsTypes, Owned, PanelSettles,
     Forms!EditKeepsFormat
<1>6. ASSUME NEW t \in Texts \cup {EmptyText}, Forms!TypeEdit(t) PROVE FormsInv'
  <2>1. edit' \in Forms!Panels /\ edit'.saving = edit.saving /\ edit # Nothing
    BY <1>6, <1>t DEF Forms!TypeEdit, Forms!Panels
  <2> QED BY <1>0, <1>6, <1>t, <2>1 DEF Forms!TypeEdit, FormsTypes, Owned, PanelSettles,
             Forms!EditKeepsFormat
<1>7. ASSUME NEW i \in 1..2, Forms!ServeEdit(i) PROVE FormsInv'
  <2>1. /\ editCalls[i] \in Forms!Puts /\ edit' = edit /\ stored' \in {stored, editCalls[i].value}
        /\ \E a \in {"ok", "failed"} : editCalls' = [editCalls EXCEPT ![i].ans = a]
    BY <1>7, <1>t DEF Forms!ServeEdit
  <2>2. /\ editCalls'[i] \in Forms!Puts /\ editCalls'[i].mine = editCalls[i].mine
        /\ editCalls'[i].value = editCalls[i].value
        /\ editCalls' \in [1..2 -> {Nothing} \cup Forms!Puts]
        /\ \A j \in 1..2 : j # i => editCalls'[j] = editCalls[j]
    BY <2>1 DEF FormsTypes, Forms!Puts
  <2>3. FormsTypes'
    BY <2>1, <2>2 DEF FormsTypes, Forms!Puts
  <2>4. editCalls[i] # Nothing /\ editCalls'[i] # Nothing
    BY <1>t, <2>1, <2>2
  <2> QED BY <1>0, <2>1, <2>2, <2>3, <2>4 DEF Owned, PanelSettles, Forms!EditKeepsFormat
<1>8. ASSUME NEW i \in 1..2, Forms!EditAnswered(i) PROVE FormsInv'
  <2>1. stored' = stored /\ editCalls[i] \in Forms!Puts /\ editCalls[i] # Nothing
    BY <1>8, <1>t DEF Forms!EditAnswered
  <2>2. CASE editCalls[i].ans = "ok"
    <3>1. edit' = Nothing /\ editCalls' = [Forms!Disowned EXCEPT ![i] = Nothing]
      BY <1>8, <2>2 DEF Forms!EditAnswered
    <3>2. editCalls' \in [1..2 -> {Nothing} \cup Forms!Puts]
          /\ \A j \in 1..2 : editCalls'[j] # Nothing => editCalls[j] # Nothing /\ ~editCalls'[j].mine
                                  /\ editCalls'[j].value = editCalls[j].value
      BY <1>2, <3>1
    <3> QED BY <1>0, <2>1, <3>1, <3>2 DEF FormsTypes, Owned, PanelSettles, Forms!EditKeepsFormat
  <2>3. CASE editCalls[i].ans # "ok"
    <3>1. editCalls' = [editCalls EXCEPT ![i] = Nothing]
          /\ edit' = IF editCalls[i].mine THEN [edit EXCEPT !.saving = FALSE] ELSE edit
      BY <1>8, <2>3 DEF Forms!EditAnswered
    <3>2. editCalls' \in [1..2 -> {Nothing} \cup Forms!Puts] /\ editCalls'[i] = Nothing
          /\ \A j \in 1..2 : j # i => editCalls'[j] = editCalls[j]
      BY <3>1 DEF FormsTypes
    <3>3. CASE editCalls[i].mine
      <4>1. edit \in Forms!Panels
        BY <1>t, <2>1, <3>3 DEF Owned
      <4>2. edit' \in Forms!Panels /\ ~edit'.saving
        BY <3>1, <3>3, <4>1 DEF Forms!Panels
      <4> QED BY <1>0, <1>t, <2>1, <3>2, <4>2 DEF FormsTypes, Owned, PanelSettles,
                 Forms!EditKeepsFormat
    <3>4. CASE ~editCalls[i].mine
      <4>1. edit' = edit
        BY <3>1, <3>4
      <4> QED BY <1>0, <2>1, <3>2, <3>4, <4>1 DEF FormsTypes, Owned, PanelSettles,
                 Forms!EditKeepsFormat
    <3> QED BY <3>3, <3>4
  <2> QED BY <2>2, <2>3
<1> QED BY <1>1, <1>3, <1>4, <1>5, <1>6, <1>7, <1>8

LEMMA NextForms == ASSUME Forms!FormsAssumption, FormsInv, [Forms!Next]_formsVars PROVE FormsInv'
<1>1. CASE UNCHANGED formsVars
  BY <1>1 DEF formsVars, Forms!newVars, Forms!editVars, FormsInv, FormsTypes, Owned, NewSettles,
     PanelSettles, Forms!EditKeepsFormat
<1>2. CASE Forms!Next
  <2>1. CASE \/ Forms!OpenNew \/ Forms!CloseNew \/ Forms!SubmitNew \/ Forms!LookupAnswered \/ Forms!SaveAnswered
             \/ Forms!ServeLookup \/ Forms!ServeSave \/ Forms!LoseNew
             \/ \E f \in Forms!Forms : f.value \in Built \cup {EmptyText, NotBuilt} /\ Forms!Type(f)
    <3>1. UNCHANGED Forms!editVars
      BY <2>1 DEF Forms!OpenNew, Forms!CloseNew, Forms!SubmitNew, Forms!LookupAnswered,
         Forms!SaveAnswered, Forms!ServeLookup, Forms!ServeSave,
                  Forms!LoseNew, Forms!Type, Forms!editVars
    <3> QED BY <2>1, <3>1, NewSteps
  <2>2. CASE \/ Forms!OpenEdit \/ Forms!CloseEdit \/ Forms!CommitEdit \/ Forms!OtherWrite
             \/ (\E t \in Texts \cup {EmptyText} : Forms!TypeEdit(t))
             \/ (\E i \in 1..2 : Forms!ServeEdit(i) \/ Forms!EditAnswered(i))
    <3>1. UNCHANGED Forms!newVars
      BY <2>2 DEF Forms!OpenEdit, Forms!CloseEdit, Forms!CommitEdit, Forms!OtherWrite,
         Forms!TypeEdit, Forms!ServeEdit, Forms!EditAnswered
    <3> QED BY <2>2, <3>1, EditSteps
  <2> QED BY <1>2, <2>1, <2>2 DEF Forms!Next
<1> QED BY <1>1, <1>2

LEMMA FormsHold == PartsSpec => []FormsInv
<1>1. Forms!FormsAssumption
  BY PartsAssumption DEF PartsAssumption
<1>2. PartsInit => FormsInv
  BY <1>1, InitForms DEF PartsInit
<1>3. FormsInv /\ [PartsNext]_partsVars => FormsInv'
  BY <1>1, NextForms DEF PartsNext, Unused, partsVars
<1> QED BY <1>2, <1>3, PTL DEF PartsSpec

-----------------------------------------------------------------------------
(* API tokens. *)

Fetches == [op : {"fetch"}, id : {Nothing}, ans : {Nothing, Failed} \cup SUBSET Tokens!Ids]
Creates == [op : {"create"}, id : Tokens!Ids \cup {Nothing}, ans : {Nothing, Failed, "ok"}]
Deletes == [op : {"delete"}, id : Tokens!Ids, ans : {Nothing, Failed, "ok"}]
TokensTypes ==
  /\ tokenFile \in SUBSET Tokens!Ids /\ index \in SUBSET Tokens!Ids /\ revoked \in SUBSET Tokens!Ids
  /\ taken \in SUBSET Tokens!Ids
  /\ tokens \in SUBSET Tokens!Ids /\ drawn \in 0..MaxTokens
  /\ tokenCalls \in [Tokens!Slots -> {Nothing} \cup Fetches \cup Creates \cup Deletes]

(* A Create between its two steps: its record is stored and not yet valid. *)
Halfway(s) == Tokens!Waiting(s, "create") /\ tokenCalls[s].id # Nothing
Drawn == 1..drawn

(* A token that is not valid yet is not listed, so nobody has revoked it: not in
   the index, in an answer to the dialog, in its list or in a request to delete. *)
Unlisted(id) ==
  /\ id \notin index \cup tokens \cup revoked
  /\ \A s \in Tokens!Slots : tokenCalls[s] # Nothing =>
       /\ tokenCalls[s].op = "delete" => tokenCalls[s].id # id
       /\ tokenCalls[s].op = "fetch" /\ tokenCalls[s].ans \notin {Nothing, Failed} =>
            id \notin tokenCalls[s].ans

(* Tokens are known to the server and its clients once they are drawn. *)
Known ==
  /\ tokenFile \cup taken \subseteq Drawn /\ revoked \subseteq Drawn /\ tokens \subseteq Drawn
  /\ \A s \in Tokens!Slots : tokenCalls[s] # Nothing =>
       /\ tokenCalls[s].id # Nothing => tokenCalls[s].id \in Drawn
       /\ tokenCalls[s].op = "fetch" /\ tokenCalls[s].ans \notin {Nothing, Failed} =>
            tokenCalls[s].ans \subseteq Drawn

(* TokensBacked is not inductive: a Create that is between its steps could be
   for a token that was revoked, or is about to be. *)
Unrevoked ==
  /\ \A s \in Tokens!Slots : Halfway(s) => tokenCalls[s].id \in tokenFile \cup taken /\ Unlisted(tokenCalls[s].id)
  /\ \A s, t \in Tokens!Slots : Halfway(s) /\ Halfway(t) /\ s # t => tokenCalls[s].id # tokenCalls[t].id

TokensInv == TokensTypes /\ Tokens!TokensBacked /\ Known /\ Unrevoked

LEMMA InitTokens == ASSUME Tokens!TokensAssumption, Tokens!Init PROVE TokensInv
BY DEF Tokens!Init, TokensInv, TokensTypes, Tokens!TokensBacked, Known, Unrevoked, Halfway,
  Tokens!Waiting, Drawn, Unlisted, Tokens!Ids, Tokens!TokensAssumption

(* A request that is not at work on a token: sent anew, or answered. *)
LEMMA SendType ==
  ASSUME TokensTypes, NEW c \in Fetches \cup Creates \cup Deletes, Tokens!Send(c)
  PROVE  tokenCalls' \in [Tokens!Slots -> {Nothing} \cup Fetches \cup Creates \cup Deletes]
BY DEF TokensTypes, Tokens!Send

LEMMA AnswerType ==
  ASSUME TokensTypes, NEW s \in Tokens!Slots, NEW a, tokenCalls[s] # Nothing, Tokens!Answer(s, a),
         \/ tokenCalls[s].op = "fetch" /\ a \in {Nothing, Failed} \cup SUBSET Tokens!Ids
         \/ tokenCalls[s].op # "fetch" /\ a \in {Nothing, Failed, "ok"}
  PROVE  tokenCalls' \in [Tokens!Slots -> {Nothing} \cup Fetches \cup Creates \cup Deletes]
BY DEF TokensTypes, Tokens!Answer, Fetches, Creates, Deletes

LEMMA NextTokensTypes ==
  ASSUME Tokens!TokensAssumption, TokensTypes, [Tokens!Next]_tokensVars
  PROVE  TokensTypes'
<1> USE DEF TokensTypes, Tokens!serverVars, Tokens!dialogVars
<1>0. drawn \in Nat /\ MaxTokens \in Nat
  BY DEF Tokens!TokensAssumption
<1>1. CASE Tokens!Open
  BY <1>1, SendType DEF Tokens!Open, Tokens!Sent, Fetches
<1>2. CASE Tokens!Close \/ Tokens!NewToken \/ Tokens!CancelNew \/ \E b \in BOOLEAN : Tokens!TypeName(b)
  BY <1>2 DEF Tokens!Close, Tokens!NewToken, Tokens!CancelNew, Tokens!TypeName
<1>3. CASE Tokens!HandleCreate
  BY <1>3, SendType DEF Tokens!HandleCreate, Tokens!Sent, Creates
<1>4. ASSUME NEW id \in Tokens!Ids, Tokens!HandleDelete(id) PROVE TokensTypes'
  BY <1>4, SendType DEF Tokens!HandleDelete, Tokens!Sent, Deletes
<1>5. CASE Tokens!Crash
  <2>1. tokenCalls' \in [Tokens!Slots -> {Nothing} \cup Fetches \cup Creates \cup Deletes]
    BY <1>5 DEF Tokens!Crash, Fetches, Creates, Deletes
  <2> QED BY <1>5, <2>1 DEF Tokens!Crash, Tokens!ReloadRead
<1>6. ASSUME NEW s \in Tokens!Slots, Tokens!ServeList(s) PROVE TokensTypes'
  BY <1>6, AnswerType DEF Tokens!ServeList, Tokens!Waiting
<1>7. ASSUME NEW s \in Tokens!Slots, Tokens!CreatePut(s) PROVE TokensTypes'
  <2>1. CASE Tokens!Answer(s, Failed)
    BY <1>0, <1>7, <2>1, AnswerType DEF Tokens!CreatePut, Tokens!Waiting, Tokens!Ids
  <2>2. CASE tokenCalls' = [tokenCalls EXCEPT ![s].id = drawn'] /\ drawn < MaxTokens /\ drawn' = drawn + 1
    <3>1. drawn' \in Tokens!Ids
      BY <1>0, <2>2 DEF Tokens!Ids
    <3>2. tokenCalls' \in [Tokens!Slots -> {Nothing} \cup Fetches \cup Creates \cup Deletes]
      BY <1>7, <2>2, <3>1 DEF Tokens!CreatePut, Tokens!Waiting, Fetches, Creates, Deletes
    <3> QED BY <1>0, <1>7, <2>2, <3>1, <3>2 DEF Tokens!CreatePut
  <2> QED BY <1>7, <2>1, <2>2 DEF Tokens!CreatePut
<1>8. ASSUME NEW s \in Tokens!Slots, Tokens!CreateIndex(s) PROVE TokensTypes'
  <2>1. tokenCalls[s].id \in Tokens!Ids
    BY <1>8 DEF Tokens!CreateIndex, Tokens!Waiting, Fetches, Creates, Deletes
  <2> QED BY <1>8, <2>1, AnswerType DEF Tokens!CreateIndex, Tokens!Waiting
<1>9. ASSUME NEW s \in Tokens!Slots, Tokens!ServeDelete(s) PROVE TokensTypes'
  <2>1. tokenCalls[s].id \in Tokens!Ids
    BY <1>9 DEF Tokens!ServeDelete, Tokens!Waiting, Fetches, Creates, Deletes
  <2>2. \E a \in {Failed, "ok"} : Tokens!Answer(s, a)
    BY <1>9 DEF Tokens!ServeDelete
  <2>3. tokenCalls' \in [Tokens!Slots -> {Nothing} \cup Fetches \cup Creates \cup Deletes]
    BY <1>9, <2>2, AnswerType DEF Tokens!ServeDelete, Tokens!Waiting
  <2> QED BY <1>9, <2>1, <2>3 DEF Tokens!ServeDelete, Tokens!Deleted
<1>10. ASSUME NEW s \in Tokens!Slots, Tokens!Fetched(s) \/ Tokens!Created(s) \/ Tokens!Revoked(s)
       PROVE TokensTypes'
  <2>1. tokenCalls' \in [Tokens!Slots -> {Nothing} \cup Fetches \cup Creates \cup Deletes]
    BY <1>10 DEF Tokens!Fetched, Tokens!Created, Tokens!Revoked, Tokens!Fetch, Tokens!Done,
       Tokens!Sent, Fetches
  <2>2. tokens' \in SUBSET Tokens!Ids
    BY <1>10 DEF Tokens!Fetched, Tokens!Created, Tokens!Revoked, Tokens!Answered, Fetches,
       Creates, Deletes
  <2> QED BY <1>10, <2>1, <2>2 DEF Tokens!Fetched, Tokens!Created, Tokens!Revoked
<1>11. CASE UNCHANGED tokensVars
  BY <1>11 DEF tokensVars
<1>12. ASSUME NEW id \in Tokens!Ids, Tokens!TakeRecord(id) \/ Tokens!ReturnRecord(id) PROVE TokensTypes'
  BY <1>12 DEF Tokens!TakeRecord, Tokens!ReturnRecord
<1> QED BY <1>1, <1>2, <1>3, <1>4, <1>5, <1>6, <1>7, <1>8, <1>9, <1>10, <1>11, <1>12 DEF Tokens!Next

(* A request changes that is not halfway afterwards, and what it brings is no
   token that another is halfway with: the others stay as they are. *)
LEMMA OneCall ==
  ASSUME TokensTypes, TokensTypes', Known, Unrevoked, NEW s \in Tokens!Slots,
         \A t \in Tokens!Slots \ {s} : tokenCalls'[t] = tokenCalls[t],
         ~Halfway(s)',
         UNCHANGED drawn,
         tokenFile' \cup taken' \subseteq Drawn /\ revoked' \subseteq Drawn /\ tokens' \subseteq Drawn,
         tokenCalls'[s] # Nothing =>
           /\ tokenCalls'[s].id # Nothing => tokenCalls'[s].id \in Drawn
           /\ tokenCalls'[s].op = "fetch" /\ tokenCalls'[s].ans \notin {Nothing, Failed} =>
                tokenCalls'[s].ans \subseteq Drawn,
         \A t \in Tokens!Slots \ {s} : Halfway(t) =>
           /\ tokenCalls[t].id \in tokenFile' \cup taken' /\ tokenCalls[t].id \notin index' \cup tokens' \cup revoked'
           /\ tokenCalls'[s] # Nothing =>
                /\ tokenCalls'[s].op = "delete" => tokenCalls'[s].id # tokenCalls[t].id
                /\ tokenCalls'[s].op = "fetch" /\ tokenCalls'[s].ans \notin {Nothing, Failed} =>
                     tokenCalls[t].id \notin tokenCalls'[s].ans
  PROVE  Known' /\ Unrevoked'
<1>1. Known'
  BY DEF Known, Drawn
<1>2. \A t \in Tokens!Slots : Halfway(t)' => t # s /\ Halfway(t) /\ tokenCalls'[t] = tokenCalls[t]
  BY DEF Halfway, Tokens!Waiting
<1>3. ASSUME NEW t \in Tokens!Slots, Halfway(t)'
      PROVE (tokenCalls[t].id \in tokenFile \cup taken /\ Unlisted(tokenCalls[t].id))'
  <2>1. t # s /\ Halfway(t) /\ tokenCalls'[t] = tokenCalls[t]
    BY <1>2, <1>3
  <2>2. tokenCalls[t].id \in tokenFile' \cup taken' /\ tokenCalls[t].id \notin index' \cup tokens' \cup revoked'
    BY <2>1
  <2>3. ASSUME NEW u \in Tokens!Slots, tokenCalls'[u] # Nothing
        PROVE  /\ tokenCalls'[u].op = "delete" => tokenCalls'[u].id # tokenCalls[t].id
               /\ tokenCalls'[u].op = "fetch" /\ tokenCalls'[u].ans \notin {Nothing, Failed} =>
                    tokenCalls[t].id \notin tokenCalls'[u].ans
    <3>1. CASE u = s
      BY <2>1, <2>3, <3>1
    <3>2. CASE u # s
      BY <2>1, <2>3, <3>2 DEF Unrevoked, Unlisted
    <3> QED BY <3>1, <3>2
  <2>4. tokenCalls'[t].id = tokenCalls[t].id
    BY <2>1
  <2>5. Unlisted(tokenCalls[t].id)'
    BY <2>2, <2>3, <2>4 DEF Unlisted
  <2> QED BY <2>2, <2>4, <2>5
<1>4. Unrevoked'
  BY <1>2, <1>3 DEF Unrevoked
<1> QED BY <1>1, <1>4

(* The dialog sends a request for no token, or to delete one of its list. *)
LEMMA Sends ==
  ASSUME TokensInv, TokensTypes', NEW c, Tokens!Send(c), UNCHANGED <<Tokens!serverVars, tokens>>,
         \/ c = Tokens!Sent("fetch", Nothing) \/ c = Tokens!Sent("create", Nothing)
         \/ \E id \in tokens : c = Tokens!Sent("delete", id)
  PROVE  Known' /\ Unrevoked'
<1> PICK s \in Tokens!Slots : tokenCalls[s] = Nothing /\ tokenCalls' = [tokenCalls EXCEPT ![s] = c]
  BY DEF Tokens!Send
<1> USE DEF TokensInv, Tokens!serverVars
<1>1. tokenCalls'[s] = c /\ \A t \in Tokens!Slots \ {s} : tokenCalls'[t] = tokenCalls[t]
  BY DEF TokensTypes
<1>2. c.op \in {"fetch", "create", "delete"} /\ c.ans = Nothing
      /\ (c.op # "delete" => c.id = Nothing) /\ (c.op = "delete" => c.id \in tokens)
  BY DEF Tokens!Sent
<1>3. ~Halfway(s)'
  BY <1>1, <1>2 DEF Halfway, Tokens!Waiting
<1>4. \A t \in Tokens!Slots \ {s} : Halfway(t) =>
        tokenCalls[t].id \in tokenFile \cup taken /\ tokenCalls[t].id \notin index \cup tokens \cup revoked
  BY DEF Unrevoked, Unlisted
<1>5. tokenFile \cup taken \subseteq Drawn /\ revoked \subseteq Drawn /\ tokens \subseteq Drawn
  BY DEF Known
<1> QED BY <1>1, <1>2, <1>3, <1>4, <1>5, OneCall

LEMMA NextTokens == Tokens!TokensAssumption /\ TokensInv /\ [Tokens!Next]_tokensVars => TokensInv'
<1> SUFFICES ASSUME Tokens!TokensAssumption, TokensInv, [Tokens!Next]_tokensVars PROVE TokensInv'
  OBVIOUS
<1>0. TokensTypes'
  BY NextTokensTypes DEF TokensInv
<1>t. drawn \in Nat /\ MaxTokens \in Nat /\ index \subseteq Drawn
      /\ tokenFile \cup taken \subseteq Drawn /\ revoked \subseteq Drawn /\ tokens \subseteq Drawn
  BY DEF Tokens!TokensAssumption, TokensInv, TokensTypes, Known, Tokens!TokensBacked
<1>h. \A t \in Tokens!Slots : Halfway(t) =>
        tokenCalls[t].id \in tokenFile \cup taken /\ tokenCalls[t].id \notin index \cup tokens \cup revoked
  BY DEF TokensInv, Unrevoked, Unlisted
<1> USE DEF Tokens!serverVars, Tokens!dialogVars
<1>1. CASE Tokens!Open \/ Tokens!HandleCreate \/ \E id \in Tokens!Ids : Tokens!HandleDelete(id)
  <2>1. Known' /\ Unrevoked'
    BY <1>0, <1>1, Sends DEF Tokens!Open, Tokens!HandleCreate, Tokens!HandleDelete
  <2> QED BY <1>0, <1>1, <2>1 DEF TokensInv, Tokens!TokensBacked, Tokens!Open,
             Tokens!HandleCreate, Tokens!HandleDelete
<1>2. CASE Tokens!Close \/ Tokens!NewToken \/ Tokens!CancelNew \/ (\E b \in BOOLEAN : Tokens!TypeName(b)) \/ UNCHANGED tokensVars
  <2>1. UNCHANGED <<tokenFile, index, drawn, revoked, taken, tokens, tokenCalls>>
    BY <1>2 DEF Tokens!Close, Tokens!NewToken, Tokens!CancelNew, Tokens!TypeName, tokensVars
  <2> QED BY <1>0, <2>1 DEF TokensInv, Tokens!TokensBacked, Known, Unrevoked, Halfway,
             Tokens!Waiting, Unlisted, Drawn
<1>3. CASE Tokens!Crash
  <2>1. UNCHANGED <<tokenFile, drawn, revoked, taken, tokens>> /\ index' \subseteq tokenFile
    BY <1>3 DEF Tokens!Crash, Tokens!ReloadRead
  <2>2. \A s \in Tokens!Slots : tokenCalls'[s] # Nothing =>
          /\ tokenCalls[s] # Nothing /\ tokenCalls'[s].id = tokenCalls[s].id /\ tokenCalls'[s].op = tokenCalls[s].op
          /\ tokenCalls'[s].ans # Nothing /\ (tokenCalls'[s].ans # Failed => tokenCalls'[s].ans = tokenCalls[s].ans)
    BY <1>3 DEF Tokens!Crash, TokensInv, TokensTypes, Fetches, Creates, Deletes,
       Tokens!TokensAssumption
  <2>3. \A s \in Tokens!Slots : ~Halfway(s)'
    BY <2>2 DEF Halfway, Tokens!Waiting
  <2>4. Unrevoked'
    BY <2>3 DEF Unrevoked
  <2>5. Known'
    BY <2>1, <2>2 DEF TokensInv, Known, Drawn
  <2> QED BY <1>0, <2>1, <2>4, <2>5 DEF TokensInv, Tokens!TokensBacked
<1>4. ASSUME NEW s \in Tokens!Slots, Tokens!ServeList(s) PROVE TokensInv'
  <2>1. tokenCalls'[s] = [tokenCalls[s] EXCEPT !.ans = index] /\ tokenCalls[s] \in Fetches
        /\ \A t \in Tokens!Slots \ {s} : tokenCalls'[t] = tokenCalls[t]
    BY <1>4 DEF Tokens!ServeList, Tokens!Waiting, Tokens!Answer, TokensInv, TokensTypes, Fetches,
       Creates, Deletes
  <2>2. tokenCalls'[s].op = "fetch" /\ tokenCalls'[s].id = Nothing /\ tokenCalls'[s].ans = index
    BY <2>1 DEF Fetches
  <2>3. UNCHANGED <<tokenFile, index, drawn, revoked, taken, tokens>> /\ ~Halfway(s)'
    BY <1>4, <2>2 DEF Tokens!ServeList, Halfway, Tokens!Waiting
  <2>4. Known' /\ Unrevoked'
    BY <1>0, <1>t, <1>h, <2>1, <2>2, <2>3, OneCall DEF TokensInv
  <2> QED BY <1>0, <2>3, <2>4 DEF TokensInv, Tokens!TokensBacked
<1>5. ASSUME NEW s \in Tokens!Slots, Tokens!CreatePut(s) PROVE TokensInv'
  <2>1. /\ tokenCalls[s].id = Nothing /\ tokenCalls[s] \in Creates
        /\ \A t \in Tokens!Slots \ {s} : tokenCalls'[t] = tokenCalls[t]
        /\ UNCHANGED <<index, revoked, taken, tokens>>
    BY <1>5 DEF Tokens!CreatePut, Tokens!Waiting, Tokens!Answer, TokensInv, TokensTypes, Fetches,
       Creates, Deletes
  <2>2. CASE Tokens!Answer(s, Failed)
    <3>1. tokenCalls'[s].op = "create" /\ tokenCalls'[s].id = Nothing /\ tokenCalls'[s].ans = Failed
      BY <2>1, <2>2 DEF Tokens!Answer, TokensInv, TokensTypes, Creates
    <3>2. tokenFile \subseteq tokenFile' /\ tokenFile' \cap Drawn \subseteq tokenFile /\ tokenFile' \subseteq Drawn' /\ drawn' >= drawn /\ drawn' \in Nat
      BY <1>5, <1>t DEF Tokens!CreatePut, Drawn
    <3>3. ~Halfway(s)' /\ Drawn \subseteq Drawn'
      BY <1>t, <3>1, <3>2 DEF Halfway, Tokens!Waiting, Drawn, Tokens!TokensAssumption
    <3>4. Known'
      BY <1>t, <2>1, <3>1, <3>2, <3>3 DEF TokensInv, Known
    <3>5. \A t \in Tokens!Slots : Halfway(t)' => t # s /\ Halfway(t) /\ tokenCalls'[t] = tokenCalls[t]
      BY <2>1, <3>3 DEF Halfway, Tokens!Waiting
    <3>6. \A t \in Tokens!Slots : Halfway(t)' => Unlisted(tokenCalls[t].id)'
      BY <2>1, <3>1, <3>5 DEF TokensInv, Unrevoked, Unlisted
    <3>7. Unrevoked'
      <4>1. \A t \in Tokens!Slots : Halfway(t)' => (tokenCalls[t].id \in tokenFile \cup taken)'
        BY <1>h, <2>1, <3>2, <3>5
      <4>2. \A t, u \in Tokens!Slots : Halfway(t)' /\ Halfway(u)' /\ t # u => tokenCalls'[t].id # tokenCalls'[u].id
        BY <3>5 DEF TokensInv, Unrevoked
      <4> QED BY <3>6, <4>1, <4>2 DEF Unrevoked
    <3>8. Tokens!TokensBacked'
      BY <1>t, <2>1, <3>2 DEF TokensInv, Tokens!TokensBacked
    <3> QED BY <1>0, <3>4, <3>7, <3>8 DEF TokensInv
  <2>3. CASE drawn' = drawn + 1 /\ tokenFile' = tokenFile \cup {drawn'} /\ tokenCalls' = [tokenCalls EXCEPT ![s].id = drawn']
    <3>1. tokenCalls'[s].op = "create" /\ tokenCalls'[s].id = drawn'
      BY <2>1, <2>3 DEF TokensInv, TokensTypes, Creates
    <3>2. drawn' \in Drawn' /\ drawn' \notin Drawn /\ Drawn \subseteq Drawn'
      BY <1>t, <2>3 DEF Drawn
    <3>3. Known'
      BY <1>t, <2>1, <2>3, <3>1, <3>2 DEF TokensInv, Known
    <3>4. \A t \in Tokens!Slots : Halfway(t)' => t = s \/ (Halfway(t) /\ tokenCalls'[t] = tokenCalls[t])
      BY <2>1 DEF Halfway, Tokens!Waiting
    <3>5. Unlisted(tokenCalls[s].id)'
      <4>1. drawn' \notin index' \cup tokens' \cup revoked'
        BY <1>t, <2>1, <3>2
      <4>2. ASSUME NEW t \in Tokens!Slots, tokenCalls'[t] # Nothing
            PROVE  /\ tokenCalls'[t].op = "delete" => tokenCalls'[t].id # drawn'
                   /\ tokenCalls'[t].op = "fetch" /\ tokenCalls'[t].ans \notin {Nothing, Failed} =>
                        drawn' \notin tokenCalls'[t].ans
        <5>1. CASE t = s
          BY <3>1, <5>1
        <5>2. CASE t # s
          <6>1. tokenCalls'[t] = tokenCalls[t] /\ tokenCalls[t] # Nothing
            BY <2>1, <4>2, <5>2
          <6>2. tokenCalls[t].op = "delete" => tokenCalls[t].id # Nothing
            BY <6>1 DEF TokensInv, TokensTypes, Fetches, Creates, Deletes, Tokens!Ids,
               Tokens!TokensAssumption
          <6> QED BY <3>2, <6>1, <6>2 DEF TokensInv, Known
        <5> QED BY <5>1, <5>2
      <4> QED BY <3>1, <4>1, <4>2 DEF Unlisted
    <3>6. \A t \in Tokens!Slots \ {s} : Halfway(t)' => Unlisted(tokenCalls[t].id)'
      BY <2>1, <3>1, <3>4 DEF TokensInv, Unrevoked, Unlisted
    <3>7. \A t \in Tokens!Slots \ {s} : Halfway(t)' => tokenCalls'[t].id \in Drawn
      BY <1>h, <1>t, <3>4
    <3>8. Unrevoked'
      <4>1. \A t \in Tokens!Slots : Halfway(t)' => (tokenCalls[t].id \in tokenFile \cup taken)'
        BY <1>h, <2>1, <2>3, <3>1, <3>4
      <4>2. \A t, u \in Tokens!Slots : Halfway(t)' /\ Halfway(u)' /\ t # u => tokenCalls'[t].id # tokenCalls'[u].id
        BY <3>1, <3>2, <3>4, <3>7 DEF TokensInv, Unrevoked
      <4>3. \A t \in Tokens!Slots : Halfway(t)' => Unlisted(tokenCalls[t].id)'
        BY <3>5, <3>6
      <4> QED BY <4>1, <4>2, <4>3 DEF Unrevoked
    <3>9. Tokens!TokensBacked'
      BY <1>t, <2>1, <2>3, <3>2 DEF TokensInv, Tokens!TokensBacked
    <3> QED BY <1>0, <3>3, <3>8, <3>9 DEF TokensInv
  <2> QED BY <1>5, <2>2, <2>3 DEF Tokens!CreatePut
<1>6. ASSUME NEW s \in Tokens!Slots, Tokens!CreateIndex(s) PROVE TokensInv'
  <2>1. /\ Halfway(s) /\ tokenCalls[s] \in Creates
        /\ \A t \in Tokens!Slots \ {s} : tokenCalls'[t] = tokenCalls[t]
        /\ UNCHANGED <<tokenFile, drawn, revoked, taken, tokens>>
        /\ index' = index \cup {tokenCalls[s].id}
    BY <1>6 DEF Tokens!CreateIndex, Halfway, Tokens!Waiting, Tokens!Answer, TokensInv,
       TokensTypes, Fetches, Creates, Deletes
  <2>2. tokenCalls'[s].op = "create" /\ tokenCalls'[s].id = tokenCalls[s].id /\ tokenCalls'[s].ans = "ok"
    BY <1>6, <2>1 DEF Tokens!CreateIndex, Tokens!Answer, TokensInv, TokensTypes, Creates
  <2>3. tokenCalls[s].id \in tokenFile \cup taken /\ tokenCalls[s].id \notin revoked /\ ~Halfway(s)'
        /\ \A t \in Tokens!Slots \ {s} : Halfway(t) => tokenCalls[t].id # tokenCalls[s].id
    BY <1>h, <2>1, <2>2 DEF TokensInv, Unrevoked, Halfway, Tokens!Waiting, Tokens!TokensAssumption
  <2>4. Known' /\ Unrevoked'
    BY <1>0, <1>t, <1>h, <2>1, <2>2, <2>3, OneCall DEF TokensInv
  <2>5. Tokens!TokensBacked'
    BY <2>1, <2>3 DEF TokensInv, Tokens!TokensBacked
  <2> QED BY <1>0, <2>4, <2>5 DEF TokensInv
<1>7. ASSUME NEW s \in Tokens!Slots, Tokens!ServeDelete(s) PROVE TokensInv'
  <2>1. /\ tokenCalls[s].op = "delete" /\ tokenCalls[s] \in Deletes
        /\ \A t \in Tokens!Slots \ {s} : tokenCalls'[t] = tokenCalls[t]
        /\ UNCHANGED <<drawn, taken, tokens>> /\ index' = index \ {tokenCalls[s].id}
    BY <1>7 DEF Tokens!ServeDelete, Tokens!Waiting, Tokens!Answer, TokensInv, TokensTypes,
       Fetches, Creates, Deletes
  <2>2. tokenCalls'[s].op = "delete" /\ tokenCalls'[s].id = tokenCalls[s].id
    BY <1>7, <2>1 DEF Tokens!ServeDelete, Tokens!Answer, TokensInv, TokensTypes, Deletes
  <2>3. /\ tokenFile' \in {tokenFile, tokenFile \ {tokenCalls[s].id}}
        /\ \/ tokenFile' = tokenFile \ {tokenCalls[s].id} /\ revoked' = revoked \cup {tokenCalls[s].id}
           \/ revoked' = revoked
    BY <1>7 DEF Tokens!ServeDelete, Tokens!Deleted
  <2>4. tokenCalls[s].id \in Drawn /\ ~Halfway(s)'
        /\ \A t \in Tokens!Slots \ {s} : Halfway(t) => tokenCalls[t].id # tokenCalls[s].id
    BY <1>7, <2>1, <2>2 DEF TokensInv, Known, Unrevoked, Unlisted, Halfway, Tokens!Waiting,
       Tokens!ServeDelete, Deletes, Tokens!Ids, Tokens!TokensAssumption
  <2>5. Known' /\ Unrevoked'
    BY <1>0, <1>t, <1>h, <2>1, <2>2, <2>3, <2>4, OneCall DEF TokensInv
  <2> QED BY <1>0, <2>1, <2>3, <2>5 DEF TokensInv, Tokens!TokensBacked
<1>8. ASSUME NEW s \in Tokens!Slots, Tokens!Fetched(s) \/ Tokens!Created(s) \/ Tokens!Revoked(s)
      PROVE TokensInv'
  <2>1. /\ \A t \in Tokens!Slots \ {s} : tokenCalls'[t] = tokenCalls[t]
        /\ tokenCalls'[s] \in {Nothing, Tokens!Sent("fetch", Nothing)}
        /\ UNCHANGED <<tokenFile, index, revoked, taken, drawn>>
    BY <1>8 DEF Tokens!Fetched, Tokens!Created, Tokens!Revoked, Tokens!Fetch, Tokens!Done,
       TokensInv, TokensTypes
  <2>2. ~Halfway(s)'
    BY <2>1 DEF Halfway, Tokens!Waiting, Tokens!Sent
  <2>3. tokens' = tokens \/ (tokenCalls[s] # Nothing /\ tokenCalls[s].op = "fetch" /\ tokens' = tokenCalls[s].ans
                             /\ tokenCalls[s].ans \notin {Nothing, Failed})
    BY <1>8 DEF Tokens!Fetched, Tokens!Created, Tokens!Revoked, Tokens!Answered
  <2>4. tokens' \subseteq Drawn /\ \A t \in Tokens!Slots : Halfway(t) => tokenCalls[t].id \notin tokens'
    BY <1>h, <1>t, <2>3 DEF TokensInv, Known, Unrevoked, Unlisted
  <2>5. Known' /\ Unrevoked'
    BY <1>0, <1>t, <1>h, <2>1, <2>2, <2>4, OneCall DEF TokensInv, Tokens!Sent
  <2> QED BY <1>0, <2>1, <2>5 DEF TokensInv, Tokens!TokensBacked
<1>9. ASSUME NEW id \in Tokens!Ids, Tokens!TakeRecord(id) \/ Tokens!ReturnRecord(id) PROVE TokensInv'
  <2>1. /\ UNCHANGED <<index, drawn, tokens, tokenCalls>>
        /\ \/ /\ tokenFile' = tokenFile \ {id} /\ taken' = taken \cup {id} /\ revoked' = revoked
              /\ id \in tokenFile
           \/ /\ tokenFile' = tokenFile \cup {id} /\ taken' = taken /\ revoked' = revoked \ {id}
              /\ id \in Drawn
    BY <1>9 DEF Tokens!TakeRecord, Tokens!ReturnRecord, Drawn
  <2>2. tokenFile \cup taken \subseteq tokenFile' \cup taken'
    BY <2>1
  <2>3. Known'
    BY <1>t, <2>1 DEF TokensInv, Known, Drawn
  <2>4. Unrevoked'
    BY <2>1, <2>2 DEF TokensInv, Unrevoked, Halfway, Tokens!Waiting, Unlisted
  <2>5. Tokens!TokensBacked'
    BY <2>1, <2>2 DEF TokensInv, Tokens!TokensBacked
  <2> QED BY <1>0, <2>3, <2>4, <2>5 DEF TokensInv
<1> QED BY <1>1, <1>2, <1>3, <1>4, <1>5, <1>6, <1>7, <1>8, <1>9 DEF Tokens!Next

(* Every request that is sent is one. *)
LEMMA SentIsCall ==
  ASSUME Tokens!TokensAssumption, TokensTypes
  PROVE  /\ \A op \in {"fetch", "create"} : Tokens!Sent(op, Nothing) # Nothing
         /\ \A id \in Tokens!Ids : Tokens!Sent("delete", id) # Nothing
         /\ \A s \in Tokens!Slots : tokenCalls[s] # Nothing =>
              \A a \in {Failed, "ok"} \cup SUBSET Tokens!Ids :
                [tokenCalls[s] EXCEPT !.ans = a] # Nothing
<1> USE DEF Tokens!TokensAssumption, Tokens!Calls, Tokens!Ids
<1>1. \A op \in {"fetch", "create"} : Tokens!Sent(op, Nothing) \in Tokens!Calls
  BY DEF Tokens!Sent
<1>2. \A id \in Tokens!Ids : Tokens!Sent("delete", id) \in Tokens!Calls
  BY DEF Tokens!Sent
<1>3. Fetches \cup Creates \cup Deletes \subseteq Tokens!Calls
  BY DEF Fetches, Creates, Deletes
<1>4. ASSUME NEW c \in Tokens!Calls, NEW a \in {Failed, "ok"} \cup SUBSET Tokens!Ids
      PROVE  [c EXCEPT !.ans = a] \in Tokens!Calls
  OBVIOUS
<1> QED BY <1>1, <1>2, <1>3, <1>4 DEF TokensTypes

(* The list is loading only while its request is under way: no other request, and
   no crash, takes that one's place. *)
Fetching(s) == tokenCalls[s] # Nothing /\ tokenCalls[s].op = "fetch"

LEMMA NextSettles ==
  ASSUME Tokens!TokensAssumption, TokensTypes, Tokens!DialogSettles, [Tokens!Next]_tokensVars
  PROVE  Tokens!DialogSettles'
<1> SUFFICES ASSUME fetching' PROVE \E s \in Tokens!Slots : Fetching(s)'
  BY DEF Tokens!DialogSettles, Fetching
<1> USE DEF Tokens!serverVars, Tokens!dialogVars
<1>0. fetching => \E s \in Tokens!Slots : Fetching(s)
  BY DEF Tokens!DialogSettles, Fetching
<1>1. CASE Tokens!Open
  <2>1. PICK s \in Tokens!Slots : tokenCalls' = [tokenCalls EXCEPT ![s] = Tokens!Sent("fetch", Nothing)]
    BY <1>1 DEF Tokens!Open, Tokens!Send
  <2>2. tokenCalls'[s] = Tokens!Sent("fetch", Nothing)
    BY <2>1 DEF TokensTypes
  <2> QED BY <2>2, SentIsCall DEF Fetching, Tokens!Sent
<1>2. CASE \/ Tokens!Close \/ Tokens!NewToken \/ Tokens!CancelNew
           \/ (\E b \in BOOLEAN : Tokens!TypeName(b)) \/ UNCHANGED tokensVars
           \/ (\E id \in Tokens!Ids : Tokens!TakeRecord(id) \/ Tokens!ReturnRecord(id))
  <2>1. UNCHANGED <<fetching, tokenCalls>>
    BY <1>2 DEF Tokens!Close, Tokens!NewToken, Tokens!CancelNew, Tokens!TypeName, tokensVars,
       Tokens!TakeRecord, Tokens!ReturnRecord
  <2> QED BY <1>0, <2>1 DEF Fetching
<1>3. CASE Tokens!HandleCreate \/ \E id \in Tokens!Ids : Tokens!HandleDelete(id)
  <2>1. PICK s \in Tokens!Slots : tokenCalls[s] = Nothing /\ \E c : tokenCalls' = [tokenCalls EXCEPT ![s] = c]
    BY <1>3 DEF Tokens!HandleCreate, Tokens!HandleDelete, Tokens!Send
  <2>2. fetching
    BY <1>3 DEF Tokens!HandleCreate, Tokens!HandleDelete
  <2>3. \A t \in Tokens!Slots \ {s} : tokenCalls'[t] = tokenCalls[t]
    BY <2>1 DEF TokensTypes
  <2> QED BY <1>0, <2>1, <2>2, <2>3 DEF Fetching
<1>4. CASE Tokens!Crash
  <2>1. fetching
    BY <1>4 DEF Tokens!Crash
  <2>2. PICK s \in Tokens!Slots : Fetching(s)
    BY <1>0, <2>1
  <2>3. tokenCalls'[s] \in {tokenCalls[s], [tokenCalls[s] EXCEPT !.ans = Failed]}
    BY <1>4 DEF Tokens!Crash
  <2>4. [tokenCalls[s] EXCEPT !.ans = Failed] # Nothing
    BY <2>2, SentIsCall DEF Fetching
  <2>5. [tokenCalls[s] EXCEPT !.ans = Failed].op = tokenCalls[s].op
    BY <2>2 DEF Fetching, TokensTypes, Fetches, Creates, Deletes
  <2> QED BY <2>2, <2>3, <2>4, <2>5 DEF Fetching
<1>5. ASSUME NEW s \in Tokens!Slots,
             Tokens!ServeList(s) \/ Tokens!CreatePut(s) \/ Tokens!CreateIndex(s) \/ Tokens!ServeDelete(s)
      PROVE  \E t \in Tokens!Slots : Fetching(t)'
  <2>1. fetching /\ tokenCalls[s] # Nothing /\ \A t \in Tokens!Slots \ {s} : tokenCalls'[t] = tokenCalls[t]
    BY <1>5 DEF Tokens!ServeList, Tokens!CreatePut, Tokens!CreateIndex, Tokens!ServeDelete,
                Tokens!Waiting, Tokens!Answer, TokensTypes
  <2>2. PICK t \in Tokens!Slots : Fetching(t)
    BY <1>0, <2>1
  <2>3. CASE t # s
    BY <2>1, <2>2, <2>3 DEF Fetching
  <2>4. CASE t = s
    <3>1. Tokens!ServeList(s)
      BY <1>5, <2>2, <2>4 DEF Fetching, Tokens!CreatePut, Tokens!CreateIndex, Tokens!ServeDelete,
         Tokens!Waiting
    <3>2. tokenCalls'[s] = [tokenCalls[s] EXCEPT !.ans = index] /\ index \in SUBSET Tokens!Ids
      BY <3>1 DEF Tokens!ServeList, Tokens!Answer, TokensTypes
    <3>3. [tokenCalls[s] EXCEPT !.ans = index] # Nothing
      BY <2>1, <3>2, SentIsCall
    <3>4. [tokenCalls[s] EXCEPT !.ans = index].op = tokenCalls[s].op
      BY <2>1 DEF TokensTypes, Fetches, Creates, Deletes
    <3> QED BY <2>2, <2>4, <3>2, <3>3, <3>4 DEF Fetching
  <2> QED BY <2>3, <2>4
<1>6. ASSUME NEW s \in Tokens!Slots, Tokens!Fetched(s) \/ Tokens!Created(s) \/ Tokens!Revoked(s)
      PROVE  \E t \in Tokens!Slots : Fetching(t)'
  <2>1. Tokens!Fetch(s) \/ (Tokens!Done(s) /\ fetching /\ tokenCalls[s].op # "fetch")
    BY <1>6 DEF Tokens!Fetched, Tokens!Created, Tokens!Revoked, Tokens!Answered
  <2>2. CASE Tokens!Fetch(s)
    <3>1. tokenCalls'[s] = Tokens!Sent("fetch", Nothing)
      BY <2>2 DEF Tokens!Fetch, TokensTypes
    <3> QED BY <3>1, SentIsCall DEF Fetching, Tokens!Sent
  <2>3. CASE Tokens!Done(s) /\ fetching /\ tokenCalls[s].op # "fetch"
    <3>1. \A t \in Tokens!Slots \ {s} : tokenCalls'[t] = tokenCalls[t]
      BY <2>3 DEF Tokens!Done, TokensTypes
    <3> QED BY <1>0, <2>3, <3>1 DEF Fetching
  <2> QED BY <2>1, <2>2, <2>3
<1> QED BY <1>1, <1>2, <1>3, <1>4, <1>5, <1>6 DEF Tokens!Next

LEMMA TokensHold == PartsSpec => [](TokensInv /\ Tokens!DialogSettles)
<1>1. Tokens!TokensAssumption
  BY PartsAssumption DEF PartsAssumption
<1>2. PartsInit => TokensInv /\ Tokens!DialogSettles
  BY <1>1, InitTokens DEF PartsInit, Tokens!Init, Tokens!DialogSettles
<1>3. TokensInv /\ Tokens!DialogSettles /\ [PartsNext]_partsVars => (TokensInv /\ Tokens!DialogSettles)'
  <2> SUFFICES ASSUME TokensInv, Tokens!DialogSettles, [PartsNext]_partsVars
               PROVE  TokensInv' /\ Tokens!DialogSettles'
    OBVIOUS
  <2>1. [Tokens!Next]_tokensVars
    BY DEF PartsNext, Unused, partsVars
  <2>2. TokensInv' BY <1>1, <2>1, NextTokens
  <2>3. Tokens!DialogSettles' BY <1>1, <2>1, NextSettles DEF TokensInv
  <2> QED BY <2>2, <2>3
<1> QED BY <1>2, <1>3, PTL DEF PartsSpec

(* A token that is valid has its record, unless a request for keys took it, and one
   whose revocation Delete acknowledged is neither valid nor stored, until such a
   request writes its record back. *)
THEOREM TokensHaveRecords == PartsSpec => []TokensBacked
<1>1. TokensInv => TokensBacked
  BY DEF TokensInv, TokensBacked, In
<1> QED BY <1>1, TokensHold, PTL

(* No dialog is left busy, saving or loading: every answer to its request gives it
   back, whatever was closed, opened, written or restarted meanwhile.  And the
   editor sends an object or an array only if the explorer shows it as one. *)
THEOREM DialogsGiveBack == PartsSpec => []DialogsSettle
<1>1. FormsInv /\ Tokens!DialogSettles => DialogsSettle
  BY DEF FormsInv, NewSettles, PanelSettles, Forms!FormsSettle, DialogsSettle, In
<1> QED BY <1>1, FormsHold, TokensHold, PTL

-----------------------------------------------------------------------------
(* The panel of a user. *)
PanelTypes ==
  /\ shown \in UserRecords /\ userCounts \in (SUBSET UserPrefixes) \cup {Unknown}
  /\ collections = [p \in DOMAIN collections |-> collections[p]]
  /\ userLoads \in [Panel!Slots -> {Idle} \cup Panel!UserLoads]

UnderWay == \E s \in Panel!Slots : userLoads[s] # Idle

(* A load shows one user's records, or none yet; what is still to come is
   on its way. *)
OneOwner == \E u \in UserRecords \cup {Pending} : \A p \in DOMAIN collections : collections[p] = u
Expected ==
  /\ (\E p \in DOMAIN collections : collections[p] = Pending) => UnderWay
  /\ ~ready => UnderWay \/ shown = NoHash \/ userCounts = Unknown

PanelInv == PanelTypes /\ OneOwner /\ Expected

LEMMA InitPanel == ASSUME Panel!Init PROVE PanelInv
BY DEF Panel!Init, Panel!None, PanelInv, PanelTypes, OneOwner, Expected

(* useEffect starts a load unless there is nothing to scan. *)
LEMMA PanelStarts ==
  ASSUME Panel!UserAssumption, PanelInv, NEW u \in UserRecords,
         NEW cs \in (SUBSET UserPrefixes) \cup {Unknown}, shown' = u, userCounts' = cs,
         Panel!Start(u, cs)
  PROVE  PanelInv'
<1>1. CASE u = NoHash \/ cs = Unknown
  <2>1. UNCHANGED <<collections, ready, userLoads>>
    BY <1>1 DEF Panel!Start
  <2> QED BY <1>1, <2>1 DEF PanelInv, PanelTypes, OneOwner, Expected, UnderWay
<1>2. CASE u # NoHash /\ cs # Unknown /\ cs = {}
  <2>1. ready' = TRUE /\ UNCHANGED <<collections, userLoads>>
    BY <1>2 DEF Panel!Start
  <2> QED BY <2>1 DEF PanelInv, PanelTypes, OneOwner, Expected, UnderWay
<1>3. CASE u # NoHash /\ cs # Unknown /\ cs # {}
  <2> DEFINE load == [user |-> u, ans |-> [p \in cs |-> Pending]]
  <2>1. PICK s \in Panel!Slots :
          /\ userLoads' = [userLoads EXCEPT ![s] = load]
          /\ collections' = [p \in cs |-> Pending] /\ ready' = FALSE
    BY <1>3 DEF Panel!Start
  <2>2. load \in Panel!UserLoads
    <3>1. cs \in SUBSET UserPrefixes BY <1>3
    <3>2. [p \in cs |-> Pending] \in [cs -> {Pending, Failed} \cup BOOLEAN] OBVIOUS
    <3> QED BY <3>1, <3>2 DEF Panel!UserLoads
  <2>3. userLoads'[s] = load /\ load # Idle
    BY <2>1, <2>2 DEF PanelInv, PanelTypes, Panel!UserAssumption
  <2>4. UnderWay' BY <2>3 DEF UnderWay
  <2>5. PanelTypes'
    BY <2>1, <2>2 DEF PanelInv, PanelTypes
  <2>6. OneOwner' BY <2>1 DEF OneOwner
  <2> QED BY <2>4, <2>5, <2>6 DEF PanelInv, Expected
<1> QED BY <1>1, <1>2, <1>3

LEMMA NextPanel ==
  ASSUME Panel!UserAssumption, PanelInv, [Panel!Next]_userVars PROVE PanelInv'
<1>1. CASE \E u \in UserRecords : Panel!Show(u)
  <2>1. userCounts \in (SUBSET UserPrefixes) \cup {Unknown}
    BY DEF PanelInv, PanelTypes
  <2> QED BY <1>1, <2>1, PanelStarts DEF Panel!Show
<1>2. CASE \E cs \in (SUBSET UserPrefixes) \cup {Unknown} : Panel!Render(cs)
  BY <1>2, PanelStarts DEF Panel!Render, PanelInv, PanelTypes
<1>3. ASSUME NEW s \in Panel!Slots, NEW p \in UserPrefixes, Panel!ScanAnswered(s, p) PROVE PanelInv'
  <2>0. PICK a \in {(p \in Holds[userLoads[s].user]), Failed} : userLoads' = [userLoads EXCEPT ![s].ans[p] = a]
    BY <1>3, Zenon DEF Panel!ScanAnswered
  <2>a. (p \in Holds[userLoads[s].user]) \in BOOLEAN OBVIOUS
  <2>1. a \in BOOLEAN \cup {Failed} BY <2>0, <2>a
  <2>2. userLoads[s] \in Panel!UserLoads /\ p \in DOMAIN userLoads[s].ans
    BY <1>3 DEF Panel!ScanAnswered, PanelInv, PanelTypes
  <2>3. [userLoads[s] EXCEPT !.ans[p] = a] \in Panel!UserLoads
    <3>1. PICK P \in SUBSET UserPrefixes : userLoads[s].ans \in [P -> {Pending, Failed} \cup BOOLEAN]
      BY <2>2 DEF Panel!UserLoads
    <3>2. [userLoads[s].ans EXCEPT ![p] = a] \in [P -> {Pending, Failed} \cup BOOLEAN]
      BY <2>1, <3>1
    <3>3. [userLoads[s] EXCEPT !.ans[p] = a] = [userLoads[s] EXCEPT !.ans = [userLoads[s].ans EXCEPT ![p] = a]]
      BY <2>2 DEF Panel!UserLoads
    <3> QED BY <2>2, <3>1, <3>2, <3>3 DEF Panel!UserLoads
  <2>4. userLoads' = [userLoads EXCEPT ![s] = [userLoads[s] EXCEPT !.ans[p] = a]]
    BY <2>0, <2>2 DEF PanelInv, PanelTypes
  <2>5. userLoads' \in [Panel!Slots -> {Idle} \cup Panel!UserLoads] /\ userLoads'[s] # Idle
    BY <2>3, <2>4 DEF PanelInv, PanelTypes, Panel!UserAssumption
  <2>6. UNCHANGED <<shown, userCounts, collections, ready>>
    BY <1>3 DEF Panel!ScanAnswered
  <2> QED BY <2>5, <2>6 DEF PanelInv, PanelTypes, OneOwner, Expected, UnderWay
<1>4. ASSUME NEW s \in Panel!Slots, Panel!Finish(s) PROVE PanelInv'
  <2>1. /\ userLoads[s] \in Panel!UserLoads /\ userLoads' = [userLoads EXCEPT ![s] = Idle]
        /\ ready' /\ collections' = Panel!Result(s) /\ UNCHANGED <<shown, userCounts>>
    BY <1>4 DEF Panel!Finish, PanelInv, PanelTypes
  <2>2. userLoads[s].user \in UserRecords /\ \A p \in DOMAIN collections' : collections'[p] = userLoads[s].user
    BY <2>1 DEF Panel!UserLoads, Panel!Result
  <2>3. collections' = [p \in DOMAIN collections' |-> collections'[p]]
    BY <2>1 DEF Panel!Result
  <2>4. PanelTypes' BY <2>1, <2>3 DEF PanelInv, PanelTypes
  <2> QED BY <2>1, <2>2, <2>4 DEF PanelInv, OneOwner, Expected, Panel!UserAssumption
<1>5. CASE UNCHANGED userVars
  BY <1>5 DEF userVars, PanelInv, PanelTypes, OneOwner, Expected, UnderWay
<1> QED BY <1>1, <1>2, <1>3, <1>4, <1>5 DEF Panel!Next

(* However the loads of users overlap and in whatever order they end, the panel
   never mixes the records of two, and with none under way it says what it
   found, or that it found nothing. *)
THEOREM PanelStaysWhole == PartsSpec => []PanelWhole
<1>1. Panel!UserAssumption
  BY PartsAssumption DEF PartsAssumption
<1>2. PartsInit => PanelInv
  BY InitPanel DEF PartsInit
<1>3. PanelInv /\ [PartsNext]_partsVars => PanelInv'
  BY <1>1, NextPanel DEF PartsNext, Unused, partsVars
<1>4. PanelInv => PanelWhole
  <2> SUFFICES ASSUME PanelInv PROVE Panel!PanelWhole
    BY DEF PanelWhole, In
  <2> DEFINE owners == {collections[p] : p \in DOMAIN collections}
  <2>1. PICK u \in UserRecords \cup {Pending} : owners \subseteq {u}
    BY DEF PanelInv, OneOwner
  <2>2. owners \ {Pending} = {} \/ owners \ {Pending} = {u}
    BY <2>1
  <2>3. Panel!Cardinality(owners \ {Pending}) <= 1
    <3>1. Panel!Cardinality(owners \ {Pending}) = Cardinality(owners \ {Pending})
      BY DEF Panel!Cardinality, Cardinality
    <3>2. Cardinality({}) = 0 /\ Cardinality({u}) = 1
      BY FS_EmptySet, FS_Singleton
    <3> QED BY <2>2, <3>1, <3>2
  <2>4. ASSUME \A s \in Panel!Slots : userLoads[s] = Idle
        PROVE  /\ Pending \notin owners
               /\ Panel!SaysNoneFound => collections = Panel!None
               /\ Panel!SaysLoading => shown = NoHash \/ userCounts = Unknown
    <3>1. ~UnderWay BY <2>4 DEF UnderWay
    <3>2. Pending \notin owners BY <3>1 DEF PanelInv, Expected
    <3>3. ASSUME Panel!SaysNoneFound PROVE collections = Panel!None
      <4>1. DOMAIN collections = {} BY <3>2, <3>3 DEF Panel!SaysNoneFound
      <4> QED BY <4>1 DEF PanelInv, PanelTypes, Panel!None
    <3> QED BY <3>1, <3>2, <3>3 DEF PanelInv, Expected, Panel!SaysLoading
  <2> QED BY <2>3, <2>4 DEF Panel!PanelWhole
<1> QED BY <1>2, <1>3, <1>4, PTL DEF PartsSpec
-----------------------------------------------------------------------------
(* The names of the partitions. *)

(* A round that is not aborted is one of the counts there are. *)
RoundOf(r, cs) ==
  /\ r = [todo |-> r.todo, batch |-> r.batch, got |-> r.got, aborted |-> r.aborted]
  /\ r.got = [p \in DOMAIN r.got |-> r.got[p]] /\ r.aborted \in BOOLEAN
  /\ ~r.aborted => r.todo \subseteq cs /\ r.batch \subseteq cs /\ DOMAIN r.got \subseteq cs
NamesInv ==
  /\ counts \subseteq NamePrefixes /\ DOMAIN inferred \subseteq counts
  /\ loads = [s \in Naming!Slots |-> loads[s]]
  /\ \A s \in Naming!Slots : loads[s] # Idle => RoundOf(loads[s], counts)

LEMMA NamesConstants ==
  NamePrefixes \subseteq Nat /\ IsFiniteSet(NamePrefixes) /\ DOMAIN Registered \subseteq NamePrefixes
<1>1. Naming!NamesAssumption
  BY PartsAssumption DEF PartsAssumption
<1>2. Naming!IsFiniteSet(NamePrefixes) = IsFiniteSet(NamePrefixes)
  BY DEF Naming!IsFiniteSet, IsFiniteSet
<1> QED BY <1>1, <1>2 DEF Naming!NamesAssumption

LEMMA InitNames == ASSUME Naming!Init PROVE NamesInv
BY DEF Naming!Init, Naming!NoLabels, NamesInv

(* New counts abort every round there is, and start one of their own. *)
LEMMA NewCountsNames ==
  ASSUME NamesInv, NEW cs \in SUBSET NamePrefixes, Naming!NewCounts(cs) PROVE NamesInv'
<1> DEFINE fresh == Naming!Started(cs)
<1>1. counts' = cs /\ inferred' = Naming!NoLabels /\ DOMAIN inferred' = {}
  BY DEF Naming!NewCounts, Naming!NoLabels
<1>2. PICK s \in Naming!Slots :
        loads' = [t \in Naming!Slots |->
                    IF t = s THEN fresh
                    ELSE IF loads[t] = Idle THEN Idle ELSE [loads[t] EXCEPT !.aborted = TRUE]]
  BY DEF Naming!NewCounts, Naming!Start
<1>3. RoundOf(fresh, cs)
  <2>1. /\ fresh = [todo |-> cs, batch |-> Naming!Range1(cs, BatchSize),
                    got |-> Naming!NoLabels, aborted |-> FALSE]
        /\ Naming!Range1(cs, BatchSize) \subseteq cs
    BY DEF Naming!Started, Naming!Range1
  <2> HIDE DEF fresh
  <2> QED BY <2>1 DEF RoundOf, Naming!NoLabels
<1> HIDE DEF fresh
<1>4. ASSUME NEW t \in Naming!Slots, loads'[t] # Idle PROVE RoundOf(loads'[t], cs)
  <2>1. CASE t = s
    BY <1>2, <1>3, <2>1
  <2>2. CASE t # s
    <3>1. loads[t] # Idle /\ loads'[t] = [loads[t] EXCEPT !.aborted = TRUE]
      BY <1>2, <1>4, <2>2
    <3>2. RoundOf(loads[t], counts)
      BY <3>1 DEF NamesInv
    <3> DEFINE r == loads[t]
    <3>3. loads'[t] = [todo |-> r.todo, batch |-> r.batch, got |-> r.got, aborted |-> TRUE]
      BY <3>1, <3>2 DEF RoundOf
    <3> QED BY <3>2, <3>3 DEF RoundOf
  <2> QED BY <2>1, <2>2
<1>5. loads' = [t \in Naming!Slots |-> loads'[t]]
  BY <1>2
<1> QED BY <1>1, <1>4, <1>5 DEF NamesInv

LEMMA SampledNames ==
  ASSUME NamesInv, NEW s \in Naming!Slots, NEW p \in NamePrefixes, Naming!Sampled(s, p)
  PROVE  NamesInv'
<1> DEFINE r == loads[s]
           Got(rs) == IF rs = Failed \/ r.aborted THEN r.got
                      ELSE [q \in DOMAIN r.got \cup {p} |->
                              IF q = p THEN Naming!InferCollectionName(rs) ELSE r.got[q]]
<1>1. RoundOf(r, counts) /\ p \in r.batch /\ UNCHANGED <<counts, inferred>>
  BY DEF Naming!Sampled, NamesInv
<1>2. PICK rs \in SamplePool \cup {Failed} :
        loads' = [loads EXCEPT ![s].batch = @ \ {p}, ![s].todo = @ \ {p}, ![s].got = Got(rs)]
  BY DEF Naming!Sampled
<1>3. Got(rs) = [q \in DOMAIN Got(rs) |-> Got(rs)[q]] /\ (~r.aborted => DOMAIN Got(rs) \subseteq counts)
  BY <1>1 DEF RoundOf
<1> HIDE DEF Got
<1>4. /\ loads'[s] = [todo |-> r.todo \ {p}, batch |-> r.batch \ {p}, got |-> Got(rs), aborted |-> r.aborted]
      /\ \A t \in Naming!Slots \ {s} : loads'[t] = loads[t]
      /\ loads' = [t \in Naming!Slots |-> loads'[t]]
  BY <1>1, <1>2 DEF NamesInv, RoundOf
<1>5. RoundOf(loads'[s], counts)
  BY <1>1, <1>3, <1>4 DEF RoundOf
<1> QED BY <1>1, <1>4, <1>5 DEF NamesInv

LEMMA BatchDoneNames ==
  ASSUME NamesInv, NEW s \in Naming!Slots, Naming!BatchDone(s) PROVE NamesInv'
<1> DEFINE r == loads[s]
<1>1. RoundOf(r, counts) /\ counts' = counts
  BY DEF Naming!BatchDone, NamesInv
<1>2. DOMAIN inferred' \subseteq counts
  BY <1>1 DEF Naming!BatchDone, Naming!Over, NamesInv, RoundOf
<1>3. /\ \A t \in Naming!Slots \ {s} : loads'[t] = loads[t]
      /\ loads' = [t \in Naming!Slots |-> loads'[t]]
      /\ \/ loads'[s] = Idle
         \/ loads'[s] = [r EXCEPT !.batch = Naming!Range1(r.todo, BatchSize)]
  BY DEF Naming!BatchDone, NamesInv
<1>4. ASSUME loads'[s] # Idle PROVE RoundOf(loads'[s], counts)
  <2>1. loads'[s] = [todo |-> r.todo, batch |-> Naming!Range1(r.todo, BatchSize), got |-> r.got,
                     aborted |-> r.aborted]
    BY <1>1, <1>3, <1>4 DEF RoundOf
  <2>2. Naming!Range1(r.todo, BatchSize) \subseteq r.todo
    BY DEF Naming!Range1
  <2> QED BY <1>1, <2>1, <2>2 DEF RoundOf
<1> QED BY <1>1, <1>2, <1>3, <1>4 DEF NamesInv

LEMMA NextNames ==
  ASSUME NamesInv, Naming!Next \/ UNCHANGED namesVars PROVE NamesInv'
<1>1. CASE UNCHANGED namesVars
  BY <1>1 DEF namesVars, NamesInv
<1> QED BY <1>1, NewCountsNames, SampledNames, BatchDoneNames DEF Naming!Next

(* Labels that do not say their prefix are told apart by it. *)
LEMMA ToldApartDistinct ==
  ASSUME NEW labels, IsFiniteSet(DOMAIN labels), DOMAIN labels \subseteq Nat,
         \A p \in DOMAIN labels : \E x, y : labels[p] = <<x, y, Naming!None>>,
         NEW a \in DOMAIN labels, NEW b \in DOMAIN labels, a # b
  PROVE  Naming!ToldApart(labels)[a] # Naming!ToldApart(labels)[b]
<1> DEFINE told == Naming!ToldApart(labels)
           same == {p \in DOMAIN labels : labels[p] = labels[a]}
<1>1. ASSUME NEW p \in DOMAIN labels
      PROVE  IF Naming!Twice(labels[p], labels) THEN told[p][3] = p
             ELSE told[p] = labels[p] /\ told[p][3] = Naming!None
  <2>1. PICK x, y : labels[p] = <<x, y, Naming!None>>
    OBVIOUS
  <2>2. told[p] = IF Naming!Twice(labels[p], labels) THEN [labels[p] EXCEPT ![3] = p] ELSE labels[p]
    BY DEF Naming!ToldApart
  <2>3. [labels[p] EXCEPT ![3] = p][3] = p /\ labels[p][3] = Naming!None
    BY <2>1
  <2> QED BY <2>2, <2>3
<1>2. a \in Nat /\ b \in Nat /\ Naming!None \notin Nat
  BY DEF Naming!None
<1>3. ASSUME labels[a] = labels[b] PROVE Naming!Twice(labels[a], labels)
  <2>1. IsFiniteSet(same) /\ {a, b} \subseteq same
    BY <1>3, FS_Subset
  <2>2. Cardinality({a, b}) = 2
    <3>1. IsFiniteSet({a}) /\ Cardinality({a}) = 1 BY FS_Singleton
    <3>2. {a, b} = {a} \cup {b} /\ b \notin {a} OBVIOUS
    <3>3. Cardinality({a} \cup {b}) = 1 + 1 BY <3>1, <3>2, FS_AddElement
    <3> QED BY <3>2, <3>3
  <2>3. Cardinality({a, b}) <= Cardinality(same) /\ Cardinality(same) \in Nat
    BY <2>1, FS_Subset, FS_CardinalityType
  <2>4. Naming!Cardinality(same) = Cardinality(same)
    BY DEF Naming!Cardinality, Cardinality
  <2>5. Cardinality(same) > 1 BY <2>2, <2>3
  <2> QED BY <2>4, <2>5 DEF Naming!Twice
<1> HIDE DEF told
<1>4. told[a] # told[b]
  BY <1>1, <1>2, <1>3
<1> QED BY <1>4 DEF told

(* The names the explorer uses are of the partitions there are, whatever rounds of
   samples overlap; and in its list no two partitions have the same name. *)
THEOREM NamesAreRight == PartsSpec => []NamesRight
<1>1. PartsInit => NamesInv
  BY InitNames DEF PartsInit
<1>2. NamesInv /\ [PartsNext]_partsVars => NamesInv'
  BY NextNames DEF PartsNext, Unused, partsVars
<1>3. NamesInv => NamesRight
  <2> SUFFICES ASSUME NamesInv, NEW rs \in SamplePool, NEW p \in NamePrefixes
               PROVE  Naming!Distinct(Naming!BuildPartitionList(
                        [q \in NamePrefixes |-> IF q = p THEN rs ELSE <<>>]))
    BY DEF NamesRight, In, Naming!NamesCurrent, Naming!ListDistinct, NamesInv
  <2> DEFINE recs == [q \in NamePrefixes |-> IF q = p THEN rs ELSE <<>>]
             labels == [q \in Naming!Listed(recs) |-> Naming!ResolveMeta(q, recs)]
  <2>1. counts \subseteq Naming!Listed(recs) /\ Naming!Listed(recs) \subseteq NamePrefixes
    BY NamesConstants DEF Naming!Listed, NamesInv
  <2>2. IsFiniteSet(DOMAIN labels) /\ DOMAIN labels \subseteq Nat
    BY <2>1, NamesConstants, FS_Subset
  <2>3. ASSUME NEW q \in DOMAIN labels PROVE \E x, y : labels[q] = <<x, y, Naming!None>>
    <3>1. \A name : \E x, y : Naming!Named(name) = <<x, y, Naming!None>>
      BY DEF Naming!Named
    <3>2. \E x, y : Naming!Generic(q) = <<x, y, Naming!None>>
      BY DEF Naming!Generic
    <3>3. \E x, y : Naming!Meta(q) = <<x, y, Naming!None>>
      BY <3>1, <3>2 DEF Naming!Meta
    <3>4. labels[q] = Naming!ResolveMeta(q, recs)
      OBVIOUS
    <3> HIDE DEF recs, labels
    <3> QED BY <3>1, <3>2, <3>3, <3>4 DEF Naming!ResolveMeta
  <2>4. DOMAIN Naming!ToldApart(labels) = DOMAIN labels /\ DOMAIN labels = Naming!Listed(recs)
    BY DEF Naming!ToldApart
  <2>5. Naming!BuildPartitionList(recs) = Naming!ToldApart(labels)
    BY DEF Naming!BuildPartitionList
  <2> HIDE DEF recs, labels
  <2>6. Naming!Distinct(Naming!ToldApart(labels))
    BY <2>1, <2>2, <2>3, <2>4, ToldApartDistinct DEF Naming!Distinct
  <2> QED BY <2>5, <2>6 DEF recs
<1> QED BY <1>1, <1>2, <1>3, PTL DEF PartsSpec

-----------------------------------------------------------------------------
(* A set of numbers that is not empty has a least one. *)
LEMMA LeastExists ==
  ASSUME NEW S, S \subseteq Nat, S # {}
  PROVE  \E n \in S : \A m \in S : n <= m
<1> DEFINE Less == {pair \in Nat \X Nat : pair[1] < pair[2]}
<1>1. IsWellFoundedOn(Less, Nat)
  BY NatLessThanWellFounded DEF OpToRel
<1>2. PICK n \in S : \A m \in S : ~(<<m, n>> \in Less)
  BY <1>1, WFMin
<1>3. \A m \in S : ~(m < n)
  BY <1>2
<1> QED BY <1>2, <1>3

-----------------------------------------------------------------------------
(* Loops over lists. *)

(* One turn of each loop: the filter of the list, the builder of fields, the readable
   records of a sample, their scores, and the sum of the confidences at some places. *)
Turn(loop, l, at, acc, i) ==
  CASE loop = "filter"   -> IF Rows!Matches(l[i]) THEN Append(acc, l[i]) ELSE acc
    [] loop = "fields"   -> Fields!BuildField(acc, l[i])
    [] loop = "readable" -> IF l[i].format # "empty" THEN Append(acc, l[i]) ELSE acc
    [] loop = "scores"   -> Naming!Score(acc, Naming!NameFromRecord(l[i]))
    [] loop = "sum"      -> IF i \in at THEN acc + l[i].confidence ELSE acc
Before(loop) == IF loop = "sum" THEN 0 ELSE <<>>
LoopOf(f, n, loop, l, at) ==
  f = [i \in 0..n |-> IF i = 0 THEN Before(loop) ELSE Turn(loop, l, at, f[i - 1], i)]

(* A loop, as a recursive function, has a value after each turn. *)
LEMMA LoopExists ==
  ASSUME NEW n \in Nat, NEW loop, NEW l, NEW at
  PROVE  \E f : LoopOf(f, n, loop, l, at)
<1> DEFINE F(f, i) == IF i = 0 THEN Before(loop) ELSE Turn(loop, l, at, f[i - 1], i)
           S == {d \in Nat : \A f : DOMAIN f = 0..n =>
                                ~ \A i \in 0..n : i <= d => f[i] = F(f, i)}
<1>1. S = {}
  <2> SUFFICES ASSUME S # {} PROVE FALSE OBVIOUS
  <2>1. S \subseteq Nat OBVIOUS
  <2>2. PICK d \in S : \A m \in S : d <= m
    <3> HIDE DEF S
    <3> QED BY <2>1, LeastExists
  <2>3. d \in Nat BY <2>2
  <2>4. CASE d = 0
    <3> DEFINE f == [i \in 0..n |-> Before(loop)]
    <3>1. \A i \in 0..n : i <= d => f[i] = F(f, i)
      <4>1. \A i \in 0..n : i <= d => i = 0 BY <2>4
      <4> QED BY <4>1
    <3>2. DOMAIN f = 0..n OBVIOUS
    <3> HIDE DEF f
    <3> QED BY <2>2, <3>1, <3>2
  <2>5. CASE d > 0
    <3>1. d - 1 \in Nat /\ ~(d <= d - 1) BY <2>3, <2>5
    <3>2. d - 1 \notin S BY <2>2, <3>1
    <3>3. PICK f : DOMAIN f = 0..n /\ \A i \in 0..n : i <= d - 1 => f[i] = F(f, i)
      BY <3>1, <3>2
    <3> DEFINE h == [i \in 0..n |-> F(f, i)]
    <3>4. ASSUME NEW i \in 0..n, i <= d PROVE h[i] = F(h, i)
      <4>1. CASE i = 0 BY <4>1
      <4>2. CASE i # 0
        <5>1. i - 1 \in 0..n /\ i - 1 <= d - 1 BY <2>3, <3>4, <4>2
        <5>2. f[i - 1] = F(f, i - 1) BY <3>3, <5>1
        <5>3. h[i - 1] = F(f, i - 1) BY <5>1
        <5>4. h[i - 1] = f[i - 1] BY <5>2, <5>3
        <5> QED BY <5>4
      <4> QED BY <4>1, <4>2
    <3>5. DOMAIN h = 0..n OBVIOUS
    <3> HIDE DEF h
    <3> QED BY <2>2, <3>4, <3>5
  <2> QED BY <2>3, <2>4, <2>5
<1>2. n \notin S BY <1>1
<1>3. PICK f : DOMAIN f = 0..n /\ \A i \in 0..n : i <= n => f[i] = F(f, i) BY <1>2
<1>4. \A i \in 0..n : f[i] = F(f, i) BY <1>3
<1> DEFINE h == [i \in 0..n |-> F(f, i)]
<1>5. ASSUME NEW i \in 0..n PROVE F(f, i) = F(h, i)
  <2>1. CASE i = 0 BY <2>1
  <2>2. CASE i # 0
    <3>1. i - 1 \in 0..n BY <2>2
    <3>2. h[i - 1] = F(f, i - 1) BY <3>1
    <3>3. h[i - 1] = f[i - 1] BY <1>4, <3>1, <3>2
    <3> QED BY <3>3
  <2> QED BY <2>1, <2>2
<1>6. h = [i \in 0..n |-> F(h, i)] BY <1>5
<1> HIDE DEF h
<1> QED BY <1>6 DEF LoopOf

(* What the filter of the list has after each turn. *)
LEMMA MatchingIs ==
  ASSUME NEW l, Len(l) \in Nat
  PROVE  \E f : /\ Rows!Matching(l) = f[Len(l)] /\ f[0] = <<>>
                /\ \A i \in 1..Len(l) :
                     f[i] = IF Rows!Matches(l[i]) THEN Append(f[i - 1], l[i]) ELSE f[i - 1]
<1> DEFINE Is(f) == f = [i \in 0..Len(l) |->
                           IF i = 0 THEN <<>>
                           ELSE IF Rows!Matches(l[i]) THEN Append(f[i - 1], l[i]) ELSE f[i - 1]]
           upTo == CHOOSE f : Is(f)
<1>1. \E f : Is(f)
  <2>1. PICK f : LoopOf(f, Len(l), "filter", l, {}) BY LoopExists
  <2>2. Is(f) BY <2>1 DEF LoopOf, Before, Turn
  <2> HIDE DEF Is
  <2> QED BY <2>2
<1>2. Is(upTo)
  <2> HIDE DEF Is
  <2> QED BY <1>1
<1>3. Rows!Matching(l) = upTo[Len(l)] BY Zenon DEF Rows!Matching
<1> HIDE DEF upTo
<1>4. 0 \in 0..Len(l) /\ \A i \in 1..Len(l) : i \in 0..Len(l) /\ i # 0 OBVIOUS
<1> QED BY <1>2, <1>3, <1>4

(* What the builder has after each turn. *)
LEMMA BuiltIs ==
  ASSUME NEW l, Len(l) \in Nat
  PROVE  \E f : /\ Fields!BuildFields(l) = f[Len(l)] /\ f[0] = <<>>
                /\ \A i \in 1..Len(l) : f[i] = Fields!BuildField(f[i - 1], l[i])
<1> DEFINE Is(f) == f = [i \in 0..Len(l) |->
                           IF i = 0 THEN <<>> ELSE Fields!BuildField(f[i - 1], l[i])]
           after == CHOOSE f : Is(f)
<1>1. \E f : Is(f)
  <2>1. PICK f : LoopOf(f, Len(l), "fields", l, {}) BY LoopExists
  <2>2. Is(f) BY <2>1 DEF LoopOf, Before, Turn
  <2> HIDE DEF Is
  <2> QED BY <2>2
<1>2. Is(after)
  <2> HIDE DEF Is
  <2> QED BY <1>1
<1>3. Fields!BuildFields(l) = after[Len(l)] BY Zenon DEF Fields!BuildFields
<1> HIDE DEF after
<1>4. 0 \in 0..Len(l) /\ \A i \in 1..Len(l) : i \in 0..Len(l) /\ i # 0 OBVIOUS
<1> QED BY <1>2, <1>3, <1>4

-----------------------------------------------------------------------------
(* The list and its pills. *)

(* The loop keeps as many records as match. *)
LEMMA MatchingCounts ==
  ASSUME NEW l, Len(l) \in Nat, DOMAIN l = 1..Len(l)
  PROVE  Len(Rows!Matching(l)) = Cardinality({i \in 1..Len(l) : Rows!Matches(l[i])})
<1>1. PICK f : /\ Rows!Matching(l) = f[Len(l)] /\ f[0] = <<>>
               /\ \A i \in 1..Len(l) :
                    f[i] = IF Rows!Matches(l[i]) THEN Append(f[i - 1], l[i]) ELSE f[i - 1]
  BY MatchingIs
<1> DEFINE n == Len(l)
           V == {l[j] : j \in 1..n}
           M(i) == {j \in 1..i : Rows!Matches(l[j])}
           P(i) == f[i] \in Seq(V) /\ Len(f[i]) = Cardinality(M(i))
           S == {i \in 0..n : ~P(i)}
<1>3. \A i \in 1..n : l[i] \in V
  OBVIOUS
<1> HIDE DEF V
<1>4. S = {}
  <2> SUFFICES ASSUME S # {} PROVE FALSE
    OBVIOUS
  <2>1. S \subseteq Nat
    OBVIOUS
  <2>2. PICK i \in S : \A m \in S : i <= m
    <3> HIDE DEF S
    <3> QED BY <2>1, LeastExists
  <2>3. CASE i = 0
    <3>1. M(i) = {} /\ f[i] = <<>>
      BY <1>1, <2>3
    <3>2. Cardinality(M(i)) = 0 /\ f[i] \in Seq(V) /\ Len(f[i]) = 0
      <4> HIDE DEF M
      <4> QED BY <3>1, FS_EmptySet
    <3> QED BY <2>2, <3>2
  <2>4. CASE i # 0
    <3>1. i \in 1..n /\ i - 1 \in 0..n /\ ~(i <= i - 1)
      BY <2>2, <2>4
    <3>2. P(i - 1)
      BY <2>2, <3>1
    <3>3. f[i] = IF Rows!Matches(l[i]) THEN Append(f[i - 1], l[i]) ELSE f[i - 1]
      BY <1>1, <3>1
    <3>4. IsFiniteSet(M(i - 1)) /\ Cardinality(M(i - 1)) \in Nat
      <4>1. i - 1 \in Int /\ M(i - 1) \subseteq 1..(i - 1)
        BY <3>1
      <4>2. IsFiniteSet(1..(i - 1))
        BY <4>1, FS_Interval
      <4> HIDE DEF M
      <4> QED BY <4>1, <4>2, FS_Subset, FS_CardinalityType
    <3>5. CASE Rows!Matches(l[i])
      <4>1. M(i) = M(i - 1) \cup {i} /\ i \notin M(i - 1)
        BY <3>1, <3>5
      <4>2. Cardinality(M(i)) = Cardinality(M(i - 1)) + 1
        <5> HIDE DEF M
        <5> QED BY <3>4, <4>1, FS_AddElement
      <4>3. f[i] = Append(f[i - 1], l[i])
        BY <3>3, <3>5
      <4>4. f[i] \in Seq(V) /\ Len(f[i]) = Len(f[i - 1]) + 1
        <5> HIDE DEF M
        <5> QED BY <1>3, <3>1, <3>2, <4>3
      <4> HIDE DEF M
      <4> QED BY <2>2, <3>2, <4>2, <4>4
    <3>6. CASE ~Rows!Matches(l[i])
      <4>1. M(i) = M(i - 1)
        BY <3>1, <3>6
      <4>2. f[i] = f[i - 1]
        BY <3>3, <3>6
      <4> HIDE DEF M
      <4> QED BY <2>2, <3>2, <4>1, <4>2
    <3> QED BY <3>5, <3>6
  <2> QED BY <2>3, <2>4
<1>5. P(n)
  <2>1. n \in 0..n
    OBVIOUS
  <2> HIDE DEF P
  <2> QED BY <1>4, <2>1
<1> QED BY <1>1, <1>5

(* The list is a sequence. *)
ListInv == Len(list) \in Nat /\ DOMAIN list = 1..Len(list)

(* What arrives, and what is chosen, is a list of records. *)
LEMMA NextList == ListInv /\ [Rows!Next]_listingVars => ListInv'
<1> SUFFICES ASSUME ListInv, [Rows!Next]_listingVars PROVE ListInv'
  OBVIOUS
<1>1. list' \in Lists \/ list' = list
  <2>1. CASE UNCHANGED listingVars
    BY <2>1 DEF listingVars
  <2>2. CASE \E l \in Lists, m \in BOOLEAN : Rows!Arrives(l, m) \/ Rows!FetchMore(l, m)
    BY <2>2 DEF Rows!Arrives, Rows!FetchMore
  <2>3. CASE \E l \in Lists : Rows!ChoosePartition(l)
    BY <2>3 DEF Rows!ChoosePartition
  <2>4. CASE \E s \in DOMAIN Rows!StatusCounts \cup {AllStatus} : Rows!SelectStatus(s)
    BY <2>4 DEF Rows!SelectStatus
  <2>5. CASE \E v \in Rows!Views : Rows!SetView(v)
    BY <2>5 DEF Rows!SetView
  <2>6. CASE Rows!Previous \/ Rows!Following
    BY <2>6 DEF Rows!Previous, Rows!Following, Rows!OnBar
  <2>7. CASE Rows!SelectRow \/ Rows!Deselect \/ Rows!Back
    BY <2>7 DEF Rows!SelectRow, Rows!Select, Rows!Deselect, Rows!Back
  <2>8. CASE \E l \in Lists : \E r \in Rows!ToSet(l) : Rows!Select(r)
    BY <2>8 DEF Rows!Select
  <2> QED BY <2>1, <2>2, <2>3, <2>4, <2>5, <2>6, <2>7, <2>8 DEF Rows!Next
<1>2. Rows!ListingAssumption
  BY PartsAssumption DEF PartsAssumption
<1> QED BY <1>1, <1>2 DEF ListInv, Rows!ListingAssumption

(* A pill of the list shows at least as many records as it counts: the count goes by the
   status of the records that have one, the filter by how any status reads. *)
THEOREM PillsAlwaysShow == PartsSpec => []PillsShowCounted
<1>1. PartsInit => ListInv
  BY DEF PartsInit, Rows!Init, ListInv
<1>2. ListInv /\ [PartsNext]_partsVars => ListInv'
  BY NextList DEF PartsNext, Unused, partsVars
<1>3. ListInv => PillsShowCounted
  <2> SUFFICES ASSUME ListInv, NEW s \in DOMAIN Rows!StatusCounts, statusFilter = s
               PROVE  Rows!StatusCounts[s] <= Len(Rows!Filtered)
    BY DEF PillsShowCounted, In, Rows!PillsShowCounted
  <2> DEFINE n == Len(list)
             C == {i \in DOMAIN list : Rows!Pilled(list[i]) /\ list[i].norm = s}
             M == {i \in 1..n : Rows!Matches(list[i])}
  <2>1. n \in Nat /\ DOMAIN list = 1..n
    BY DEF ListInv
  <2>2. Rows!Cardinality(C) = Cardinality(C)
    BY DEF Rows!Cardinality, Cardinality
  <2>3. Rows!StatusCounts[s] = Cardinality(C)
    BY <2>2 DEF Rows!StatusCounts
  <2>4. C \subseteq M /\ M \subseteq 1..n
    BY <2>1 DEF Rows!Matches
  <2>5. IsFiniteSet(1..n) /\ Cardinality(1..n) = n
    BY <2>1, FS_Interval
  <2> HIDE DEF C, M
  <2>6. IsFiniteSet(M) /\ Cardinality(M) <= n
    BY <2>4, <2>5, FS_Subset
  <2>7. Cardinality(C) <= Cardinality(M)
    BY <2>4, <2>6, FS_Subset
  <2>8. IsFiniteSet(C) /\ Cardinality(C) \in Nat /\ Cardinality(M) \in Nat
    BY <2>4, <2>6, FS_Subset, FS_CardinalityType
  <2>9. Len(Rows!Matching(list)) = Cardinality(M)
    BY <2>1, MatchingCounts DEF M
  <2>10. Len(Rows!Filtered) = n \/ Len(Rows!Filtered) = Cardinality(M)
    BY <2>9 DEF Rows!Filtered
  <2> QED BY <2>1, <2>3, <2>6, <2>7, <2>8, <2>10
<1> QED BY <1>1, <1>2, <1>3, PTL DEF PartsSpec

-----------------------------------------------------------------------------
(* The object that the builder makes of the first i fields of a list. *)
SoundTo(l, i) ==
  /\ \A j \in 1..i : l[j].name # Blank /\ Fields!Reads(l[j])
  /\ \A j, k \in 1..i : j # k => l[j].name # l[k].name
NamesTo(l, i) == {l[j].name : j \in 1..i}
ObjectTo(data, l, i) ==
  IF ~SoundTo(l, i) THEN data = NotBuilt
  ELSE /\ data \in [NamesTo(l, i) -> Fields!Types \X FieldTexts] /\ data # NotBuilt
       /\ \A j \in 1..i : data[l[j].name] = <<l[j].type, l[j].value>>

(* A sound list of fields has names of properties only. *)
LEMMA SoundNames ==
  ASSUME NEW l \in Seq(Fields!Field), NEW i \in 0..Len(l), SoundTo(l, i),
         NEW data \in [NamesTo(l, i) -> Fields!Types \X FieldTexts]
  PROVE  data # NotBuilt
<1>1. Fields!FieldsAssumption BY PartsAssumption DEF PartsAssumption
<1>2. NamesTo(l, i) \subseteq FieldNames
  <2> SUFFICES ASSUME NEW j \in 1..i PROVE l[j].name \in FieldNames BY DEF NamesTo
  <2>1. j \in 1..Len(l) BY LenProperties
  <2>2. l[j] \in Fields!Field BY <2>1, ElementOfSeq
  <2>3. l[j].name # Blank BY DEF SoundTo
  <2> QED BY <2>2, <2>3 DEF Fields!Field
<1> QED BY <1>1, <1>2 DEF Fields!FieldsAssumption, Fields!Types

(* One turn of the builder. *)
LEMMA BuildTurn ==
  ASSUME NEW l \in Seq(Fields!Field), NEW i \in 1..Len(l), NEW data, ObjectTo(data, l, i - 1)
  PROVE  ObjectTo(Fields!BuildField(data, l[i]), l, i)
<1> DEFINE after == Fields!BuildField(data, l[i])
           name == l[i].name
<1>0. Len(l) \in Nat BY LenProperties
<1>1. i \in Nat /\ i - 1 \in 0..Len(l) /\ i \in 0..Len(l) BY <1>0
<1>2. \A j \in 1..i : j = i \/ j \in 1..(i - 1) BY <1>1
<1>3. \A j \in 1..(i - 1) : j \in 1..i /\ j # i BY <1>1
<1>i. i \in 1..i BY <1>1
<1>4. l[i] \in Fields!Field BY ElementOfSeq
<1>5. CASE ~SoundTo(l, i - 1)
  <2>1. data = NotBuilt BY <1>5 DEF ObjectTo
  <2>2. after = NotBuilt BY <2>1 DEF Fields!BuildField
  <2>3. ~SoundTo(l, i) BY <1>3, <1>5 DEF SoundTo
  <2> QED BY <2>2, <2>3 DEF ObjectTo
<1>6. CASE SoundTo(l, i - 1)
  <2>1. /\ data \in [NamesTo(l, i - 1) -> Fields!Types \X FieldTexts] /\ data # NotBuilt
        /\ \A j \in 1..(i - 1) : data[l[j].name] = <<l[j].type, l[j].value>>
    BY <1>6 DEF ObjectTo
  <2>2. DOMAIN data = NamesTo(l, i - 1) BY <2>1
  <2>3. CASE name = Blank \/ name \in NamesTo(l, i - 1) \/ ~Fields!Reads(l[i])
    <3>1. after = NotBuilt BY <2>2, <2>3 DEF Fields!BuildField
    <3>2. ~SoundTo(l, i)
      <4>1. CASE name \in NamesTo(l, i - 1)
        <5>1. PICK j \in 1..(i - 1) : name = l[j].name BY <4>1 DEF NamesTo
        <5> QED BY <1>3, <1>i, <5>1 DEF SoundTo
      <4>2. CASE name = Blank \/ ~Fields!Reads(l[i]) BY <1>i, <4>2 DEF SoundTo
      <4> QED BY <2>3, <4>1, <4>2
    <3> QED BY <3>1, <3>2 DEF ObjectTo
  <2>4. CASE ~(name = Blank \/ name \in NamesTo(l, i - 1) \/ ~Fields!Reads(l[i]))
    <3>1. after = [n \in NamesTo(l, i - 1) \cup {name} |->
                     IF n = name THEN <<l[i].type, l[i].value>> ELSE data[n]]
      BY <2>1, <2>2, <2>4 DEF Fields!BuildField
    <3>2. NamesTo(l, i) = NamesTo(l, i - 1) \cup {name}
      BY <1>2, <1>3, <1>i DEF NamesTo
    <3>3. SoundTo(l, i)
      <4>1. \A j \in 1..(i - 1) : l[j].name # name BY <2>4 DEF NamesTo
      <4> QED BY <1>2, <1>6, <2>4, <4>1 DEF SoundTo
    <3>4. <<l[i].type, l[i].value>> \in Fields!Types \X FieldTexts BY <1>4 DEF Fields!Field
    <3>5. after \in [NamesTo(l, i) -> Fields!Types \X FieldTexts]
      <4> HIDE DEF name
      <4> QED BY <2>1, <3>1, <3>2, <3>4
    <3>6. ASSUME NEW j \in 1..i PROVE after[l[j].name] = <<l[j].type, l[j].value>>
      <4>1. CASE j = i BY <3>1, <4>1
      <4>2. CASE j # i
        <5>1. j \in 1..(i - 1) BY <1>2, <4>2
        <5>2. l[j].name \in NamesTo(l, i - 1) /\ l[j].name # name BY <2>4, <5>1 DEF NamesTo
        <5> QED BY <2>1, <3>1, <5>1, <5>2
      <4> QED BY <4>1, <4>2
    <3> HIDE DEF after
    <3>7. after # NotBuilt BY <1>1, <3>3, <3>5, SoundNames
    <3>8. ObjectTo(after, l, i) BY <3>3, <3>5, <3>6, <3>7 DEF ObjectTo
    <3> QED BY <3>8 DEF after
  <2> QED BY <2>3, <2>4
<1> QED BY <1>5, <1>6

(* The builder is exact for any list of fields. *)
LEMMA BuilderIs ==
  ASSUME NEW l \in Seq(Fields!Field)
  PROVE  ObjectTo(Fields!BuildFields(l), l, Len(l))
<1>1. Len(l) \in Nat BY LenProperties
<1>2. PICK f : /\ Fields!BuildFields(l) = f[Len(l)] /\ f[0] = <<>>
               /\ \A i \in 1..Len(l) : f[i] = Fields!BuildField(f[i - 1], l[i])
  BY <1>1, BuiltIs
<1> DEFINE S == {i \in 0..Len(l) : ~ObjectTo(f[i], l, i)}
<1>3. S = {}
  <2> SUFFICES ASSUME S # {} PROVE FALSE OBVIOUS
  <2>1. S \subseteq Nat OBVIOUS
  <2>2. PICK i \in S : \A m \in S : i <= m
    <3> HIDE DEF S
    <3> QED BY <2>1, LeastExists
  <2>3. CASE i = 0
    <3>1. NamesTo(l, 0) = {} /\ SoundTo(l, 0) BY DEF NamesTo, SoundTo
    <3>2. <<>> \in [{} -> Fields!Types \X FieldTexts]
      <4>1. <<>> \in Seq(Fields!Types \X FieldTexts) /\ Len(<<>>) = 0 BY EmptySeq
      <4>2. <<>> \in [1..0 -> Fields!Types \X FieldTexts] BY <4>1, LenProperties
      <4> QED BY <4>2
    <3>3. <<>> # NotBuilt
      <4>1. 0 \in 0..Len(l) BY <1>1
      <4> QED BY <3>1, <3>2, <4>1, SoundNames
    <3>4. ObjectTo(<<>>, l, 0) BY <3>1, <3>2, <3>3 DEF ObjectTo
    <3> QED BY <1>2, <2>2, <2>3, <3>4
  <2>4. CASE i # 0
    <3>1. i \in 1..Len(l) /\ i - 1 \in 0..Len(l) /\ ~(i <= i - 1) BY <1>1, <2>2, <2>4
    <3>2. ObjectTo(f[i - 1], l, i - 1) BY <2>2, <3>1
    <3>3. ObjectTo(Fields!BuildField(f[i - 1], l[i]), l, i) BY <3>1, <3>2, BuildTurn
    <3> QED BY <1>2, <2>2, <3>1, <3>3
  <2> QED BY <2>3, <2>4
<1>4. Len(l) \in 0..Len(l) BY <1>1
<1> QED BY <1>2, <1>3, <1>4

(* The editor's list of fields. *)
FieldsInv == fields \in Seq(Fields!Field)

(* Adding, changing and removing a property leaves a list of fields. *)
LEMMA NextFields == FieldsInv /\ [Fields!Next]_fieldsVars => FieldsInv'
<1> SUFFICES ASSUME FieldsInv, [Fields!Next]_fieldsVars PROVE FieldsInv'
  OBVIOUS
<1>0. Fields!FieldsAssumption BY PartsAssumption DEF PartsAssumption
<1>n. [name |-> Blank, type |-> "string", value |-> EmptyField] \in Fields!Field
  BY <1>0 DEF Fields!FieldsAssumption, Fields!Field, Fields!Types
<1>1. CASE UNCHANGED fieldsVars BY <1>1 DEF fieldsVars, FieldsInv
<1>2. CASE Fields!AddProperty
  BY <1>2, <1>n, AppendProperties DEF Fields!AddProperty, FieldsInv
<1>3. ASSUME NEW i \in DOMAIN fields, Fields!RemoveProperty(i) PROVE FieldsInv'
  <2>1. Len(fields) \in Nat /\ DOMAIN fields = 1..Len(fields) BY LenProperties DEF FieldsInv
  <2>2. \A j \in 1..Len(fields) : fields[j] \in Fields!Field BY ElementOfSeq DEF FieldsInv
  <2>3. SubSeq(fields, 1, i - 1) \in Seq(Fields!Field)
    <3>1. 1 \in Int /\ i - 1 \in Int /\ \A j \in 1..(i - 1) : fields[j] \in Fields!Field BY <2>1, <2>2
    <3> QED BY <3>1, SubSeqProperties
  <2>4. SubSeq(fields, i + 1, Len(fields)) \in Seq(Fields!Field)
    <3>1. i + 1 \in Int /\ Len(fields) \in Int /\ \A j \in (i + 1)..Len(fields) : fields[j] \in Fields!Field
      BY <2>1, <2>2
    <3> QED BY <3>1, SubSeqProperties
  <2>5. fields' = SubSeq(fields, 1, i - 1) \o SubSeq(fields, i + 1, Len(fields))
    BY <1>3 DEF Fields!RemoveProperty, Fields!RemoveAt
  <2> QED BY <2>3, <2>4, <2>5, ConcatProperties DEF FieldsInv
<1>4. ASSUME NEW i \in DOMAIN fields, NEW e \in Fields!Field, Fields!UpdateField(i, e) PROVE FieldsInv'
  <2>1. i \in 1..Len(fields) BY LenProperties DEF FieldsInv
  <2> QED BY <1>4, <2>1, ExceptSeq DEF Fields!UpdateField, FieldsInv
<1>5. ASSUME NEW i \in DOMAIN fields
      PROVE  /\ \A n \in FieldNames \cup {Blank} : [fields[i] EXCEPT !.name = n] \in Fields!Field
             /\ \A t \in Fields!Types : [fields[i] EXCEPT !.type = t] \in Fields!Field
             /\ \A v \in FieldTexts : [fields[i] EXCEPT !.value = v] \in Fields!Field
  <2>1. i \in 1..Len(fields) BY LenProperties DEF FieldsInv
  <2>2. fields[i] \in Fields!Field BY <2>1, ElementOfSeq DEF FieldsInv
  <2> QED BY <2>2 DEF Fields!Field
<1> QED BY <1>1, <1>2, <1>3, <1>4, <1>5 DEF Fields!Next

(* The builder refuses a list of properties exactly when a name is blank or given
   twice or a text cannot be read; else the object has what was entered. *)
LEMMA BuilderHolds == PartsSpec => []In("fields", Fields!BuilderExact)
<1>1. PartsInit => FieldsInv
  <2> SUFFICES ASSUME PartsInit PROVE FieldsInv OBVIOUS
  <2>0. Fields!FieldsAssumption BY PartsAssumption DEF PartsAssumption
  <2>1. [name |-> Blank, type |-> "string", value |-> EmptyField] \in Fields!Field
    BY <2>0 DEF Fields!FieldsAssumption, Fields!Field, Fields!Types
  <2>2. fields = <<[name |-> Blank, type |-> "string", value |-> EmptyField]>>
    BY DEF PartsInit, Fields!Init
  <2> QED BY <2>1, <2>2 DEF FieldsInv
<1>2. FieldsInv /\ [PartsNext]_partsVars => FieldsInv'
  BY NextFields DEF PartsNext, Unused, partsVars
<1>3. FieldsInv => In("fields", Fields!BuilderExact)
  <2> SUFFICES ASSUME FieldsInv PROVE Fields!BuilderExact BY DEF In
  <2>1. ObjectTo(Fields!BuildFields(fields), fields, Len(fields)) BY BuilderIs DEF FieldsInv
  <2>2. DOMAIN fields = 1..Len(fields) BY LenProperties DEF FieldsInv
  <2>3. Fields!Sound(fields) <=> SoundTo(fields, Len(fields)) BY <2>2 DEF Fields!Sound, SoundTo
  <2> QED BY <2>1, <2>2, <2>3 DEF Fields!BuilderExact, ObjectTo, NamesTo
<1> QED BY <1>1, <1>2, <1>3, PTL DEF PartsSpec

-----------------------------------------------------------------------------
(* What the readable records of a sample are after each turn. *)
LEMMA ReadableIs ==
  ASSUME NEW l, Len(l) \in Nat
  PROVE  \E f : /\ Naming!Readable(l) = f[Len(l)] /\ f[0] = <<>>
                /\ \A i \in 1..Len(l) :
                     f[i] = IF l[i].format # "empty" THEN Append(f[i - 1], l[i]) ELSE f[i - 1]
<1> DEFINE Is(f) == f = [i \in 0..Len(l) |->
                           IF i = 0 THEN <<>>
                           ELSE IF l[i].format # "empty" THEN Append(f[i - 1], l[i]) ELSE f[i - 1]]
           upTo == CHOOSE f : Is(f)
<1>1. \E f : Is(f)
  <2>1. PICK f : LoopOf(f, Len(l), "readable", l, {}) BY LoopExists
  <2>2. Is(f) BY <2>1 DEF LoopOf, Before, Turn
  <2> HIDE DEF Is
  <2> QED BY <2>2
<1>2. Is(upTo)
  <2> HIDE DEF Is
  <2> QED BY <1>1
<1>3. Naming!Readable(l) = upTo[Len(l)] BY Zenon DEF Naming!Readable
<1> HIDE DEF upTo
<1>4. 0 \in 0..Len(l) /\ \A i \in 1..Len(l) : i \in 0..Len(l) /\ i # 0 OBVIOUS
<1> QED BY <1>2, <1>3, <1>4

(* What the scores are after each turn. *)
LEMMA ScoresAre ==
  ASSUME NEW l, Len(l) \in Nat
  PROVE  \E f : /\ Naming!Scores(l) = f[Len(l)] /\ f[0] = <<>>
                /\ \A i \in 1..Len(l) : f[i] = Naming!Score(f[i - 1], Naming!NameFromRecord(l[i]))
<1> DEFINE Is(f) == f = [i \in 0..Len(l) |->
                           IF i = 0 THEN <<>>
                           ELSE Naming!Score(f[i - 1], Naming!NameFromRecord(l[i]))]
           after == CHOOSE f : Is(f)
<1>1. \E f : Is(f)
  <2>1. PICK f : LoopOf(f, Len(l), "scores", l, {}) BY LoopExists
  <2>2. Is(f) BY <2>1 DEF LoopOf, Before, Turn
  <2> HIDE DEF Is
  <2> QED BY <2>2
<1>2. Is(after)
  <2> HIDE DEF Is
  <2> QED BY <1>1
<1>3. Naming!Scores(l) = after[Len(l)] BY Zenon DEF Naming!Scores
<1> HIDE DEF after
<1>4. 0 \in 0..Len(l) /\ \A i \in 1..Len(l) : i \in 0..Len(l) /\ i # 0 OBVIOUS
<1> QED BY <1>2, <1>3, <1>4

(* The sum of a label's confidences after each place. *)
Total(names, label) ==
  CHOOSE f : f = [i \in 0..Len(names) |->
                    IF i = 0 THEN 0
                    ELSE IF i \in Naming!PlacesOf(names, label) THEN f[i - 1] + names[i].confidence
                    ELSE f[i - 1]]

(* It begins at nothing, and each place of the label adds its confidence. *)
LEMMA TotalIs ==
  ASSUME NEW names, Len(names) \in Nat, NEW label
  PROVE  /\ Naming!SumOf(names, label) = Total(names, label)[Len(names)]
         /\ Total(names, label)[0] = 0
         /\ \A i \in 1..Len(names) :
              Total(names, label)[i] =
                IF i \in Naming!PlacesOf(names, label)
                THEN Total(names, label)[i - 1] + names[i].confidence
                ELSE Total(names, label)[i - 1]
<1> DEFINE at == Naming!PlacesOf(names, label)
           Is(f) == f = [i \in 0..Len(names) |->
                           IF i = 0 THEN 0
                           ELSE IF i \in at THEN f[i - 1] + names[i].confidence ELSE f[i - 1]]
           upTo == CHOOSE f : Is(f)
<1>1. \E f : Is(f)
  <2> HIDE DEF at
  <2>1. PICK f : LoopOf(f, Len(names), "sum", names, at) BY LoopExists
  <2>2. Is(f) BY <2>1 DEF LoopOf, Before, Turn
  <2> HIDE DEF Is
  <2> QED BY <2>2
<1>2. Is(upTo)
  <2> HIDE DEF Is
  <2> QED BY <1>1
<1>3. upTo = Total(names, label) BY Zenon DEF Total
<1>4. Naming!SumOf(names, label) = upTo[Len(names)] BY Zenon DEF Naming!SumOf
<1> HIDE DEF upTo, at
<1>5. 0 \in 0..Len(names) /\ \A i \in 1..Len(names) : i \in 0..Len(names) /\ i # 0 OBVIOUS
<1>6. upTo[0] = 0 /\ \A i \in 1..Len(names) :
        upTo[i] = IF i \in at THEN upTo[i - 1] + names[i].confidence ELSE upTo[i - 1]
  BY <1>2, <1>5
<1> QED BY <1>3, <1>4, <1>6 DEF at

-----------------------------------------------------------------------------
(* The readable records of a sample are records of it. *)
LEMMA ReadableType ==
  ASSUME NEW R, NEW l \in Seq(R)
  PROVE  Naming!Readable(l) \in Seq(R)
<1>1. Len(l) \in Nat BY LenProperties
<1>2. PICK f : /\ Naming!Readable(l) = f[Len(l)] /\ f[0] = <<>>
               /\ \A i \in 1..Len(l) :
                    f[i] = IF l[i].format # "empty" THEN Append(f[i - 1], l[i]) ELSE f[i - 1]
  BY <1>1, ReadableIs
<1> DEFINE S == {i \in 0..Len(l) : f[i] \notin Seq(R)}
<1>3. S = {}
  <2> SUFFICES ASSUME S # {} PROVE FALSE OBVIOUS
  <2>1. S \subseteq Nat OBVIOUS
  <2>2. PICK i \in S : \A m \in S : i <= m
    <3> HIDE DEF S
    <3> QED BY <2>1, LeastExists
  <2>3. CASE i = 0 BY <1>2, <2>2, <2>3, EmptySeq
  <2>4. CASE i # 0
    <3>1. i \in 1..Len(l) /\ i - 1 \in 0..Len(l) /\ ~(i <= i - 1) BY <1>1, <2>2, <2>4
    <3>2. f[i - 1] \in Seq(R) /\ l[i] \in R BY <2>2, <3>1, ElementOfSeq
    <3>3. Append(f[i - 1], l[i]) \in Seq(R) BY <3>2, AppendProperties
    <3> QED BY <1>2, <2>2, <3>1, <3>2, <3>3
  <2> QED BY <2>3, <2>4
<1>4. Len(l) \in 0..Len(l) BY <1>1
<1> QED BY <1>2, <1>3, <1>4

(* The least and the largest number of a set. *)
LEMMA LeastIs ==
  ASSUME NEW S, S \subseteq Nat, S # {}
  PROVE  Naming!Min(S) \in S /\ \A m \in S : Naming!Min(S) <= m
<1>1. \E n \in S : \A m \in S : n <= m BY LeastExists
<1> QED BY <1>1 DEF Naming!Min

(* The larger of two numbers. *)
LEMMA LargerIs ==
  ASSUME NEW a \in Nat, NEW b \in Nat
  PROVE  Naming!Max({a, b}) = IF a >= b THEN a ELSE b
BY DEF Naming!Max

(* What is known of a record's name. *)
IsName(c) == \E l : \E n \in 1..5 : c = Naming!Name(l, n)

(* Each rule gives a name. *)
LEMMA RulesName ==
  /\ DOMAIN Naming!Rules = 1..10
  /\ \A i \in 1..10 : IsName(Naming!Rules[i].name)
<1> DEFINE R == Naming!Rules
<1>1. DOMAIN R = 1..10 BY DEF Naming!Rules
<1>2. /\ R[1].name = Naming!Name("TagName", 5) /\ R[2].name = Naming!Name("NestedName", 4)
      /\ R[3].name = Naming!Name("Products", 4) /\ R[4].name = Naming!Name("Telemetry", 4)
      /\ R[5].name = Naming!Name("Users", 4)
  BY DEF Naming!Rules, Naming!Rule
<1>3. /\ R[6].name = Naming!Name("System Users", 4) /\ R[7].name = Naming!Name("Tokens", 4)
      /\ R[8].name = Naming!Name("SubjectName", 3) /\ R[9].name = Naming!Name("OtherSubjectName", 3)
      /\ R[10].name = Naming!Name("WeakTagName", 2)
  BY DEF Naming!Rules, Naming!Rule
<1> HIDE DEF R
<1>4. \A l : \A n \in 1..5 : IsName(Naming!Name(l, n)) BY DEF IsName
<1>5. ASSUME NEW i \in 1..10 PROVE IsName(R[i].name)
  <2>1. \/ i = 1 \/ i = 2 \/ i = 3 \/ i = 4 \/ i = 5
        \/ i = 6 \/ i = 7 \/ i = 8 \/ i = 9 \/ i = 10
    OBVIOUS
  <2>2. 2 \in 1..5 /\ 3 \in 1..5 /\ 4 \in 1..5 /\ 5 \in 1..5 OBVIOUS
  <2> QED BY <1>2, <1>3, <1>4, <2>1, <2>2
<1> QED BY <1>1, <1>5 DEF R

(* The labels there are. *)
Labels == {c.label : c \in Naming!Candidates}

(* A name has a label and a confidence, and is told apart from none. *)
LEMMA CandidatesAre ==
  \A c \in Naming!Candidates : c.confidence \in 1..5 /\ c.label \in Labels /\ c # NoName
<1> SUFFICES ASSUME NEW c \in Naming!Candidates
             PROVE  c.confidence \in 1..5 /\ c.label \in Labels /\ c # NoName
  OBVIOUS
<1>1. c # NoName BY PartsAssumption DEF PartsAssumption, Naming!NamesAssumption
<1>2. IsName(c)
  <2>1. CASE \E i \in DOMAIN Naming!Rules : c = Naming!Rules[i].name BY <2>1, RulesName
  <2>2. CASE c \in {Naming!Name("Tokens", 3), Naming!Name("User Index", 3), Naming!Name("Index Pointers", 2)}
    <3>1. 2 \in 1..5 /\ 3 \in 1..5 OBVIOUS
    <3>2. \A l : \A n \in 1..5 : IsName(Naming!Name(l, n)) BY DEF IsName
    <3> QED BY <2>2, <3>1, <3>2
  <2> QED BY <2>1, <2>2 DEF Naming!Candidates
<1>3. c.confidence \in 1..5 BY <1>2 DEF IsName, Naming!Name
<1> QED BY <1>1, <1>3 DEF Labels

(* A record has one of the names, or none. *)
LEMMA RecordsName == \A r : Naming!NameFromRecord(r) \in Naming!Candidates \cup {NoName}
<1> SUFFICES ASSUME NEW r PROVE Naming!NameFromRecord(r) \in Naming!Candidates \cup {NoName}
  OBVIOUS
<1>1. ASSUME NEW has PROVE Naming!NameFromFields(has) \in Naming!Candidates \cup {NoName}
  <2> DEFINE hits == {i \in DOMAIN Naming!Rules : Naming!Applies(Naming!Rules[i], has)}
  <2>1. CASE hits = {} BY <2>1 DEF Naming!NameFromFields
  <2>2. CASE hits # {}
    <3>1. hits \subseteq Nat BY RulesName
    <3>2. Naming!Min(hits) \in hits
      <4> HIDE DEF hits
      <4> QED BY <2>2, <3>1, LeastIs
    <3>3. Naming!NameFromFields(has) = Naming!Rules[Naming!Min(hits)].name
      BY <2>2 DEF Naming!NameFromFields
    <3>4. Naming!Min(hits) \in DOMAIN Naming!Rules BY <3>2
    <3> HIDE DEF hits
    <3> QED BY <3>3, <3>4 DEF Naming!Candidates
  <2> QED BY <2>1, <2>2
<1>2. CASE r.format = "json_object" BY <1>1, <1>2 DEF Naming!NameFromRecord
<1>3. CASE r.format # "json_object" BY <1>3 DEF Naming!NameFromRecord, Naming!Candidates
<1> QED BY <1>2, <1>3

-----------------------------------------------------------------------------
(* Scores. *)
ScoreOf == [label : Labels, score : Nat, count : Nat, confidence : Nat]

(* The places of a label among the first i. *)
At(names, label, i) == {j \in Naming!PlacesOf(names, label) : j <= i}

(* What has been summed for a label after i places. *)
Summed(names, i) == \A label :
  /\ Total(names, label)[i] \in Nat /\ Total(names, label)[i] <= 5 * i
  /\ At(names, label, i) = {} => Total(names, label)[i] = 0

(* What the scores tell after i places: of each label there, its sum, its count and its
   largest confidence, in the order the labels were met. *)
Scored(sc, names, a, i) ==
  LET at == At(names, sc[a].label, i)
  IN  /\ at # {} /\ sc[a].score = Total(names, sc[a].label)[i] /\ sc[a].count = Cardinality(at)
      /\ \E j \in at : names[j].confidence = sc[a].confidence
      /\ \A j \in at : names[j].confidence <= sc[a].confidence
MetBefore(sc, names, a, b, i) ==
  \E x \in At(names, sc[a].label, i) : \A y \in At(names, sc[b].label, i) : x < y
Kept(sc, names, i) ==
  /\ sc \in Seq(ScoreOf)
  /\ \A a \in 1..Len(sc) : Scored(sc, names, a, i)
  /\ \A a, b \in 1..Len(sc) : a < b => MetBefore(sc, names, a, b, i)
  /\ \A j \in 1..i : names[j] # NoName => \E a \in 1..Len(sc) : sc[a].label = names[j].label

NamesOf(n) == [1..n -> Naming!Candidates \cup {NoName}]

(* The names of a sample, as a sequence. *)
LEMMA NamesLen == ASSUME NEW n \in Nat, NEW names \in NamesOf(n) PROVE Len(names) = n /\ DOMAIN names = 1..n
<1>1. names \in Seq(Naming!Candidates \cup {NoName}) BY SeqDef DEF NamesOf
<1>2. DOMAIN names = 1..n BY DEF NamesOf
<1>3. Len(names) \in Nat /\ DOMAIN names = 1..Len(names) BY <1>1, LenProperties
<1> QED BY <1>2, <1>3

(* One place more. *)
LEMMA AtGrows ==
  ASSUME NEW n \in Nat, NEW names \in NamesOf(n), NEW i \in 1..n, NEW label
  PROVE  /\ At(names, label, i) =
              IF names[i] # NoName /\ names[i].label = label
              THEN At(names, label, i - 1) \cup {i} ELSE At(names, label, i - 1)
         /\ \A j \in At(names, label, i - 1) : j \in 1..n /\ j < i
         /\ At(names, label, i) \subseteq 1..n
<1>1. DOMAIN names = 1..n BY NamesLen
<1>2. \A j \in 1..n : j <= i <=> j = i \/ j <= i - 1 OBVIOUS
<1> QED BY <1>1, <1>2 DEF At, Naming!PlacesOf

(* What a place adds to the sums. *)
LEMMA SumGrows ==
  ASSUME NEW n \in Nat, NEW names \in NamesOf(n), NEW i \in 1..n, Summed(names, i - 1)
  PROVE  /\ Summed(names, i)
         /\ \A label : Total(names, label)[i] =
              IF names[i] # NoName /\ names[i].label = label
              THEN Total(names, label)[i - 1] + names[i].confidence ELSE Total(names, label)[i - 1]
<1>1. DOMAIN names = 1..n /\ Len(names) = n BY NamesLen
<1>2. \A label : i \in Naming!PlacesOf(names, label) <=> names[i] # NoName /\ names[i].label = label
  BY <1>1 DEF Naming!PlacesOf
<1>3. \A label : Total(names, label)[i] =
              IF names[i] # NoName /\ names[i].label = label
              THEN Total(names, label)[i - 1] + names[i].confidence ELSE Total(names, label)[i - 1]
  <2> SUFFICES ASSUME NEW label
               PROVE  Total(names, label)[i] =
                        IF names[i] # NoName /\ names[i].label = label
                        THEN Total(names, label)[i - 1] + names[i].confidence
                        ELSE Total(names, label)[i - 1]
    OBVIOUS
  <2>1. Total(names, label)[i] = IF i \in Naming!PlacesOf(names, label)
                                 THEN Total(names, label)[i - 1] + names[i].confidence
                                 ELSE Total(names, label)[i - 1]
    BY <1>1, TotalIs
  <2> QED BY <1>2, <2>1
<1>4. names[i] # NoName => names[i].confidence \in 1..5
  <2>1. names[i] \in Naming!Candidates \cup {NoName} BY DEF NamesOf
  <2> QED BY <2>1, CandidatesAre
<1>5. ASSUME NEW label
      PROVE  /\ Total(names, label)[i] \in Nat /\ Total(names, label)[i] <= 5 * i
             /\ At(names, label, i) = {} => Total(names, label)[i] = 0
  <2>1. /\ Total(names, label)[i - 1] \in Nat /\ Total(names, label)[i - 1] <= 5 * (i - 1)
        /\ At(names, label, i - 1) = {} => Total(names, label)[i - 1] = 0
    BY DEF Summed
  <2>2. CASE names[i] # NoName /\ names[i].label = label
    <3>1. At(names, label, i) # {} BY SMTT(30), ZenonT(20), <2>2, AtGrows
    <3>2. Total(names, label)[i] = Total(names, label)[i - 1] + names[i].confidence BY <1>3, <2>2
    <3> QED BY <1>4, <2>1, <2>2, <3>1, <3>2
  <2>3. CASE ~(names[i] # NoName /\ names[i].label = label)
    <3>1. At(names, label, i) = At(names, label, i - 1) BY <2>3, AtGrows
    <3>2. Total(names, label)[i] = Total(names, label)[i - 1] BY <1>3, <2>3
    <3> QED BY <2>1, <3>1, <3>2
  <2> QED BY <2>2, <2>3
<1> QED BY <1>3, <1>5 DEF Summed

(* What stays of a score that the place has nothing to do with. *)
LEMMA ScoredStays ==
  ASSUME NEW n \in Nat, NEW names \in NamesOf(n), NEW i \in 1..n, Summed(names, i - 1),
         NEW sc, NEW a, Scored(sc, names, a, i - 1),
         ~(names[i] # NoName /\ names[i].label = sc[a].label),
         NEW new, NEW b, new[b] = sc[a]
  PROVE  Scored(new, names, b, i)
<1>1. At(names, sc[a].label, i) = At(names, sc[a].label, i - 1) BY AtGrows
<1>2. Total(names, sc[a].label)[i] = Total(names, sc[a].label)[i - 1] BY SumGrows
<1> QED BY <1>1, <1>2 DEF Scored

(* What is met before stays so: a place more is behind those there were. *)
LEMMA BeforeStays ==
  ASSUME NEW n \in Nat, NEW names \in NamesOf(n), NEW i \in 1..n,
         NEW sc, NEW a, NEW b, MetBefore(sc, names, a, b, i - 1),
         NEW new, new[a].label = sc[a].label, new[b].label = sc[b].label
  PROVE  MetBefore(new, names, a, b, i)
<1>1. PICK x \in At(names, sc[a].label, i - 1) : \A y \in At(names, sc[b].label, i - 1) : x < y
  BY DEF MetBefore
<1>2. x \in At(names, sc[a].label, i) /\ x < i BY AtGrows
<1>3. \A y \in At(names, sc[b].label, i) : y = i \/ y \in At(names, sc[b].label, i - 1) BY AtGrows
<1> QED BY <1>1, <1>2, <1>3 DEF MetBefore

(* A place without a name changes nothing. *)
LEMMA NoneKeeps ==
  ASSUME NEW n \in Nat, NEW names \in NamesOf(n), NEW i \in 1..n, Summed(names, i - 1),
         NEW sc, Kept(sc, names, i - 1), names[i] = NoName
  PROVE  Kept(Naming!Score(sc, names[i]), names, i)
<1>1. Naming!Score(sc, names[i]) = sc BY DEF Naming!Score
<1>2. \A j \in 1..i : j = i \/ j \in 1..(i - 1) OBVIOUS
<1>3. \A a \in 1..Len(sc) : Scored(sc, names, a, i) BY ScoredStays DEF Kept
<1>4. \A a, b \in 1..Len(sc) : a < b => MetBefore(sc, names, a, b, i) BY BeforeStays DEF Kept
<1> QED BY <1>1, <1>2, <1>3, <1>4 DEF Kept

(* A label that was not met before is put last. *)
LEMMA NewKeeps ==
  ASSUME NEW n \in Nat, NEW names \in NamesOf(n), NEW i \in 1..n, Summed(names, i - 1),
         NEW sc, Kept(sc, names, i - 1), names[i] # NoName, ~Naming!Met(sc, names[i].label)
  PROVE  Kept(Naming!Score(sc, names[i]), names, i)
<1> DEFINE c == names[i]
           e == [label |-> c.label, score |-> c.confidence, count |-> 1, confidence |-> c.confidence]
           new == Append(sc, e)
<1>1. sc \in Seq(ScoreOf) /\ Len(sc) \in Nat /\ DOMAIN sc = 1..Len(sc) BY LenProperties DEF Kept
<1>2. c.confidence \in 1..5 /\ c.label \in Labels
  <2>1. names[i] \in Naming!Candidates \cup {NoName} BY DEF NamesOf
  <2> QED BY <2>1, CandidatesAre
<1>3. e \in ScoreOf BY <1>2 DEF ScoreOf
<1>4. Naming!Score(sc, c) = new BY DEF Naming!Score
<1>5. /\ new \in Seq(ScoreOf) /\ Len(new) = Len(sc) + 1 /\ new[Len(sc) + 1] = e
      /\ \A a \in 1..Len(sc) : new[a] = sc[a]
  BY <1>1, <1>3, AppendProperties
<1>6. \A a \in 1..Len(sc) : sc[a].label # c.label BY <1>1 DEF Naming!Met
<1>7. DOMAIN names = 1..n BY NamesLen
<1>8. At(names, c.label, i - 1) = {}
  <2> SUFFICES ASSUME NEW j \in At(names, c.label, i - 1) PROVE FALSE OBVIOUS
  <2>1. j \in 1..(i - 1) /\ names[j] # NoName /\ names[j].label = c.label
    BY <1>7 DEF At, Naming!PlacesOf
  <2> QED BY <1>6, <2>1 DEF Kept
<1>9. At(names, c.label, i) = {i} BY <1>8, AtGrows
<1>10. Total(names, c.label)[i] = c.confidence
  <2>1. Total(names, c.label)[i - 1] = 0 BY <1>8 DEF Summed
  <2>2. Total(names, c.label)[i] = Total(names, c.label)[i - 1] + c.confidence BY SumGrows
  <2> QED BY <1>2, <2>1, <2>2
<1> HIDE DEF new
<1>11. \A a \in 1..Len(new) : a = Len(sc) + 1 \/ a \in 1..Len(sc) BY <1>1, <1>5
<1>12. ASSUME NEW a \in 1..Len(new) PROVE Scored(new, names, a, i)
  <2>1. CASE a \in 1..Len(sc)
    <3>1. Scored(sc, names, a, i - 1) /\ new[a] = sc[a] BY <1>5, <2>1 DEF Kept
    <3>2. sc[a].label # c.label BY <1>6, <2>1
    <3> QED BY <3>1, <3>2, ScoredStays
  <2>2. CASE a = Len(sc) + 1
    <3>1. /\ new[a].label = c.label /\ new[a].score = c.confidence /\ new[a].count = 1
          /\ new[a].confidence = c.confidence
      BY <1>5, <2>2
    <3>2. Cardinality({i}) = 1 BY FS_Singleton
    <3>3. At(names, new[a].label, i) = {i} BY <1>9, <3>1
    <3>4. c.confidence <= c.confidence BY <1>2
    <3> QED BY <1>10, <3>1, <3>2, <3>3, <3>4 DEF Scored
  <2> QED BY <1>11, <2>1, <2>2
<1>13. ASSUME NEW a \in 1..Len(new), NEW b \in 1..Len(new), a < b PROVE MetBefore(new, names, a, b, i)
  <2>1. a \in 1..Len(sc) BY <1>1, <1>5, <1>13
  <2>2. CASE b \in 1..Len(sc)
    <3>1. MetBefore(sc, names, a, b, i - 1) BY <1>13, <2>1, <2>2 DEF Kept
    <3>2. new[a].label = sc[a].label /\ new[b].label = sc[b].label BY <1>5, <2>1, <2>2
    <3> QED BY <3>1, <3>2, BeforeStays
  <2>3. CASE b = Len(sc) + 1
    <3>1. Scored(sc, names, a, i - 1) /\ new[a] = sc[a] BY <1>5, <2>1 DEF Kept
    <3>2. PICK x : x \in At(names, sc[a].label, i - 1) BY <3>1 DEF Scored
    <3>3. x \in At(names, sc[a].label, i) /\ x < i
      <4>1. sc[a].label # c.label BY <1>6, <2>1
      <4>2. At(names, sc[a].label, i) = At(names, sc[a].label, i - 1) BY <4>1, AtGrows
      <4>3. \A y \in At(names, sc[a].label, i - 1) : y < i BY AtGrows
      <4> QED BY <3>2, <4>2, <4>3
    <3>4. At(names, new[b].label, i) = {i} BY <1>5, <1>9, <2>3
    <3> QED BY <3>1, <3>3, <3>4 DEF MetBefore
  <2> QED BY <1>11, <2>2, <2>3
<1>14. ASSUME NEW j \in 1..i, names[j] # NoName PROVE \E a \in 1..Len(new) : new[a].label = names[j].label
  <2>1. CASE j = i
    <3>1. Len(sc) + 1 \in 1..Len(new) BY <1>1, <1>5
    <3> QED BY <1>5, <2>1, <3>1
  <2>2. CASE j # i
    <3>1. j \in 1..(i - 1) BY <2>2
    <3>2. PICK a \in 1..Len(sc) : sc[a].label = names[j].label BY <1>14, <3>1 DEF Kept
    <3>3. a \in 1..Len(new) /\ new[a] = sc[a] BY <1>1, <1>5
    <3> QED BY <3>2, <3>3
  <2> QED BY <2>1, <2>2
<1>15. Kept(new, names, i) BY <1>5, <1>12, <1>13, <1>14 DEF Kept
<1> QED BY <1>4, <1>15

(* A label that was met before: its score grows. *)
LEMMA MetKeeps ==
  ASSUME NEW n \in Nat, NEW names \in NamesOf(n), NEW i \in 1..n, Summed(names, i - 1),
         NEW sc, Kept(sc, names, i - 1), names[i] # NoName, Naming!Met(sc, names[i].label)
  PROVE  Kept(Naming!Score(sc, names[i]), names, i)
<1> DEFINE c == names[i]
           raised(r) == [r EXCEPT !.score = @ + c.confidence, !.count = @ + 1,
                                !.confidence = Naming!Max({@, c.confidence})]
           new == [j \in DOMAIN sc |-> IF sc[j].label # c.label THEN sc[j] ELSE raised(sc[j])]
<1>1. sc \in Seq(ScoreOf) /\ Len(sc) \in Nat /\ DOMAIN sc = 1..Len(sc) BY LenProperties DEF Kept
<1>2. c.confidence \in 1..5
  <2>1. names[i] \in Naming!Candidates \cup {NoName} BY DEF NamesOf
  <2> QED BY <2>1, CandidatesAre
<1>3. Naming!Score(sc, c) = new BY DEF Naming!Score
<1>4. \A a \in 1..Len(sc) : sc[a] \in ScoreOf BY <1>1, ElementOfSeq
<1>5. ASSUME NEW r \in ScoreOf
      PROVE  /\ raised(r) \in ScoreOf /\ raised(r).label = r.label
             /\ raised(r).score = r.score + c.confidence /\ raised(r).count = r.count + 1
             /\ raised(r).confidence = IF r.confidence >= c.confidence THEN r.confidence ELSE c.confidence
  <2>1. r.confidence \in Nat /\ c.confidence \in Nat BY <1>2 DEF ScoreOf
  <2>2. Naming!Max({r.confidence, c.confidence})
          = IF r.confidence >= c.confidence THEN r.confidence ELSE c.confidence
    BY <2>1, LargerIs
  <2>3. Naming!Max({r.confidence, c.confidence}) \in Nat BY <2>1, <2>2
  <2>4. PICK k \in Nat, m \in Nat : k = c.confidence /\ m = Naming!Max({r.confidence, c.confidence})
    BY <2>1, <2>3
  <2>5. raised(r) = [r EXCEPT !.score = r.score + k, !.count = r.count + 1, !.confidence = m] BY <2>4
  <2> HIDE DEF raised, c
  <2>6. /\ raised(r) \in ScoreOf /\ raised(r).label = r.label /\ raised(r).score = r.score + k
        /\ raised(r).count = r.count + 1 /\ raised(r).confidence = m
    <3>1. r.label \in Labels /\ r.score \in Nat /\ r.count \in Nat BY DEF ScoreOf
    <3>2. raised(r) = [label |-> r.label, score |-> r.score + k, count |-> r.count + 1, confidence |-> m]
      BY <2>5 DEF ScoreOf
    <3> QED BY <3>1, <3>2 DEF ScoreOf
  <2> QED BY <2>2, <2>4, <2>6
<1>6. ASSUME NEW a \in 1..Len(sc)
      PROVE  new[a] = IF sc[a].label # c.label THEN sc[a] ELSE raised(sc[a])
  BY <1>1
<1> HIDE DEF raised
<1>7. ASSUME NEW a \in 1..Len(sc) PROVE new[a] \in ScoreOf /\ new[a].label = sc[a].label
  <2> HIDE DEF new
  <2> QED BY <1>4, <1>5, <1>6
<1>8. new \in Seq(ScoreOf) /\ Len(new) = Len(sc)
  <2>1. DOMAIN new = 1..Len(sc) BY <1>1
  <2>2. new = [a \in 1..Len(sc) |-> new[a]] BY <1>1
  <2> HIDE DEF new
  <2>3. new \in [1..Len(sc) -> ScoreOf] BY <1>7, <2>2
  <2>4. new \in Seq(ScoreOf) BY <1>1, <2>3, SeqDef
  <2>5. Len(new) \in Nat /\ DOMAIN new = 1..Len(new) BY <2>4, LenProperties
  <2> QED BY <1>1, <2>1, <2>4, <2>5
<1> HIDE DEF new
<1>9. ASSUME NEW a \in 1..Len(sc) PROVE Scored(new, names, a, i)
  <2>0. Scored(sc, names, a, i - 1) BY DEF Kept
  <2>1. CASE sc[a].label # c.label
    <3>1. new[a] = sc[a] BY <1>6, <2>1
    <3> QED BY <2>0, <2>1, <3>1, ScoredStays
  <2>2. CASE sc[a].label = c.label
    <3> DEFINE old == At(names, c.label, i - 1)
               at == At(names, c.label, i)
    <3>1. new[a] = raised(sc[a]) /\ sc[a] \in ScoreOf BY <1>4, <1>6, <2>2
    <3>2. /\ new[a].label = c.label
          /\ new[a].score = sc[a].score + c.confidence /\ new[a].count = sc[a].count + 1
          /\ new[a].confidence = IF sc[a].confidence >= c.confidence THEN sc[a].confidence ELSE c.confidence
      BY <1>5, <2>2, <3>1
    <3>3. /\ old # {} /\ sc[a].score = Total(names, c.label)[i - 1] /\ sc[a].count = Cardinality(old)
          /\ \E j \in old : names[j].confidence = sc[a].confidence
          /\ \A j \in old : names[j].confidence <= sc[a].confidence
      BY <2>0, <2>2 DEF Scored
    <3>4. at = old \cup {i} /\ i \notin old /\ old \subseteq 1..n
      <4>1. at = old \cup {i} BY AtGrows
      <4>2. \A j \in old : j \in 1..n /\ j < i BY AtGrows
      <4> HIDE DEF old, at
      <4> QED BY <4>1, <4>2
    <3>5. Total(names, c.label)[i] = Total(names, c.label)[i - 1] + c.confidence BY SumGrows
    <3> HIDE DEF old, at
    <3>6. Cardinality(at) = Cardinality(old) + 1
      <4>1. IsFiniteSet(1..n) BY FS_Interval
      <4>2. IsFiniteSet(old) BY <3>4, <4>1, FS_Subset
      <4> QED BY <3>4, <4>2, FS_AddElement
    <3>7. sc[a].confidence \in Nat /\ c.confidence \in Nat BY <1>2, <3>1 DEF ScoreOf
    <3>8. \E j \in at : names[j].confidence = new[a].confidence BY <3>2, <3>3, <3>4
    <3>9. ASSUME NEW j \in at PROVE names[j].confidence <= new[a].confidence
      <4>1. CASE j = i BY <3>2, <3>7, <4>1
      <4>2. CASE j # i
        <5>1. j \in old BY <3>4, <4>2
        <5>2. j \in 1..n /\ names[j].confidence <= sc[a].confidence BY <3>3, <3>4, <5>1
        <5>3. names[j] \in Naming!Candidates
          <6>1. names[j] \in Naming!Candidates \cup {NoName} BY <5>2 DEF NamesOf
          <6>2. names[j] # NoName BY <5>1 DEF old, At, Naming!PlacesOf
          <6> QED BY <6>1, <6>2
        <5>4. names[j].confidence \in Nat BY <5>3, CandidatesAre
        <5> QED BY <3>2, <3>7, <5>2, <5>4
      <4> QED BY <4>1, <4>2
    <3>10. at # {} BY <3>4
    <3> QED BY <3>2, <3>3, <3>5, <3>6, <3>8, <3>9, <3>10 DEF Scored, at
  <2> QED BY <2>1, <2>2
<1>10. ASSUME NEW a \in 1..Len(sc), NEW b \in 1..Len(sc), a < b PROVE MetBefore(new, names, a, b, i)
  <2>1. MetBefore(sc, names, a, b, i - 1) BY <1>10 DEF Kept
  <2> QED BY <1>7, <2>1, BeforeStays
<1>11. ASSUME NEW j \in 1..i, names[j] # NoName PROVE \E a \in 1..Len(sc) : new[a].label = names[j].label
  <2>1. CASE j = i
    <3>1. PICK a \in 1..Len(sc) : sc[a].label = c.label BY <1>1 DEF Naming!Met
    <3> QED BY <1>7, <2>1, <3>1
  <2>2. CASE j # i
    <3>1. j \in 1..(i - 1) BY <2>2
    <3>2. PICK a \in 1..Len(sc) : sc[a].label = names[j].label BY <1>11, <3>1 DEF Kept
    <3> QED BY <1>7, <3>2
  <2> QED BY <2>1, <2>2
<1>12. Kept(new, names, i) BY <1>8, <1>9, <1>10, <1>11 DEF Kept
<1> QED BY <1>3, <1>12

(* The names of a sample. *)
LEMMA EvidenceNames ==
  ASSUME NEW R, NEW l \in Seq(R)
  PROVE  /\ Len(l) \in Nat /\ DOMAIN l = 1..Len(l) /\ Naming!Evidence(l) \in NamesOf(Len(l))
         /\ \A i \in 1..Len(l) : Naming!Evidence(l)[i] = Naming!NameFromRecord(l[i])
<1>1. Len(l) \in Nat /\ DOMAIN l = 1..Len(l) BY LenProperties
<1>2. \A i \in 1..Len(l) : Naming!NameFromRecord(l[i]) \in Naming!Candidates \cup {NoName} BY RecordsName
<1> QED BY <1>1, <1>2 DEF Naming!Evidence, NamesOf

(* The loop scores what it should. *)
LEMMA ScoresKept ==
  ASSUME NEW R, NEW l \in Seq(R)
  PROVE  /\ Kept(Naming!Scores(l), Naming!Evidence(l), Len(l))
         /\ Summed(Naming!Evidence(l), Len(l))
<1> DEFINE n == Len(l)
           names == Naming!Evidence(l)
<1>1. n \in Nat /\ names \in NamesOf(n) /\ \A i \in 1..n : names[i] = Naming!NameFromRecord(l[i])
  BY EvidenceNames
<1>2. PICK f : /\ Naming!Scores(l) = f[n] /\ f[0] = <<>>
               /\ \A i \in 1..n : f[i] = Naming!Score(f[i - 1], Naming!NameFromRecord(l[i]))
  BY <1>1, ScoresAre
<1> HIDE DEF n, names
<1> DEFINE S == {i \in 0..n : ~(Kept(f[i], names, i) /\ Summed(names, i))}
<1>3. S = {}
  <2> SUFFICES ASSUME S # {} PROVE FALSE OBVIOUS
  <2>1. S \subseteq Nat OBVIOUS
  <2>2. PICK i \in S : \A m \in S : i <= m
    <3> HIDE DEF S
    <3> QED BY <2>1, LeastExists
  <2>3. CASE i = 0
    <3>1. <<>> \in Seq(ScoreOf) /\ Len(<<>>) = 0 BY EmptySeq
    <3>2. Kept(<<>>, names, 0)
      <4>1. 1..Len(<<>>) = {} /\ 1..0 = {} BY <3>1
      <4> QED BY <3>1, <4>1 DEF Kept
    <3>3. \A label : Total(names, label)[0] = 0
      <4>1. Len(names) \in Nat BY <1>1, NamesLen
      <4> QED BY <4>1, TotalIs
    <3>4. Summed(names, 0) BY <3>3 DEF Summed
    <3> QED BY <1>2, <2>2, <2>3, <3>2, <3>4
  <2>4. CASE i # 0
    <3>1. i \in 1..n /\ i - 1 \in 0..n /\ ~(i <= i - 1) BY <1>1, <2>2, <2>4
    <3>2. Kept(f[i - 1], names, i - 1) /\ Summed(names, i - 1) BY <2>2, <3>1
    <3>3. f[i] = Naming!Score(f[i - 1], names[i]) BY <1>1, <1>2, <3>1
    <3>4. Kept(Naming!Score(f[i - 1], names[i]), names, i)
      BY <1>1, <3>1, <3>2, NoneKeeps, NewKeeps, MetKeeps
    <3>5. Summed(names, i) BY <1>1, <3>1, <3>2, SumGrows
    <3> QED BY <2>2, <3>3, <3>4, <3>5
  <2> QED BY <2>3, <2>4
<1>4. n \in 0..n BY <1>1
<1>5. Kept(f[n], names, n) /\ Summed(names, n) BY <1>3, <1>4
<1> QED BY <1>2, <1>5 DEF n, names

(* The first of those with the highest score. *)
Best(sc, i) == \A j \in 1..Len(sc) :
  sc[j].score < sc[i].score \/ (sc[j].score = sc[i].score /\ i <= j)

(* There is one. *)
LEMMA BestExists ==
  ASSUME NEW sc, Len(sc) \in Nat \ {0}, NEW m \in Nat,
         \A a \in 1..Len(sc) : sc[a].score \in Nat /\ sc[a].score <= m
  PROVE  \E i \in 1..Len(sc) : Best(sc, i)
<1> DEFINE T == {m - sc[a].score : a \in 1..Len(sc)}
<1>1. T \subseteq Nat /\ T # {}
  <2>1. 1 \in 1..Len(sc) OBVIOUS
  <2> QED BY <2>1
<1>2. PICK t \in T : \A u \in T : t <= u
  <2> HIDE DEF T
  <2> QED BY <1>1, LeastExists
<1>3. PICK a \in 1..Len(sc) : t = m - sc[a].score BY <1>2
<1>4. \A b \in 1..Len(sc) : sc[b].score <= sc[a].score
  <2> SUFFICES ASSUME NEW b \in 1..Len(sc) PROVE sc[b].score <= sc[a].score OBVIOUS
  <2>1. t <= m - sc[b].score BY <1>2
  <2>2. sc[a].score \in Nat /\ sc[b].score \in Nat OBVIOUS
  <2> QED BY <1>3, <2>1, <2>2
<1> DEFINE U == {b \in 1..Len(sc) : sc[b].score = sc[a].score}
<1>5. U \subseteq Nat /\ U # {}
  <2>1. a \in U BY <1>3
  <2>2. U \subseteq Nat OBVIOUS
  <2> QED BY <2>1, <2>2
<1>6. PICK i \in U : \A b \in U : i <= b
  <2> HIDE DEF U
  <2> QED BY <1>5, LeastExists
<1>7. i \in 1..Len(sc) /\ sc[i].score = sc[a].score BY <1>6
<1>8. ASSUME NEW j \in 1..Len(sc) PROVE sc[j].score < sc[i].score \/ (sc[j].score = sc[i].score /\ i <= j)
  <2>1. CASE sc[j].score = sc[a].score BY <1>6, <1>7, <2>1
  <2>2. CASE sc[j].score # sc[a].score
    <3>1. sc[j].score <= sc[a].score /\ sc[j].score \in Nat /\ sc[a].score \in Nat BY <1>3, <1>4
    <3> QED BY <1>7, <2>2, <3>1
  <2> QED BY <2>1, <2>2
<1> QED BY <1>7, <1>8 DEF Best

(* The best score is the favourite's: the scores are the labels there are, each with its
   sum; of equal sums the first score is the one that was met first; and two labels
   that were met at the same place are one. *)
LEMMA BestIsFavourite ==
  ASSUME NEW n \in Nat, NEW names \in NamesOf(n), NEW sc, Kept(sc, names, n), Summed(names, n)
  PROVE  Naming!BestOf(sc, n) = Naming!Favourite(names)
<1> DEFINE m == Len(sc)
           P(l) == Naming!PlacesOf(names, l)
           S(l) == Naming!SumOf(names, l)
           LB == Naming!LabelsIn(names)
           best == CHOOSE i \in DOMAIN sc : \A j \in DOMAIN sc :
                     sc[j].score < sc[i].score \/ (sc[j].score = sc[i].score /\ i <= j)
           L == sc[best].label
           chosen == {l \in LB : Naming!Trusted(names, l) /\ \A k \in LB : Naming!Beats(names, l, k)}
<1>1. DOMAIN names = 1..n /\ Len(names) = n BY NamesLen
<1>2. m \in Nat /\ DOMAIN sc = 1..m /\ \A a \in 1..m : sc[a] \in ScoreOf
  <2>1. sc \in Seq(ScoreOf) BY DEF Kept
  <2> QED BY <2>1, LenProperties, ElementOfSeq
<1>3. \A l : P(l) = At(names, l, n) /\ P(l) \subseteq 1..n /\ P(l) \subseteq Nat
  BY <1>1 DEF At, Naming!PlacesOf
<1>4. \A l : S(l) = Total(names, l)[n] /\ S(l) \in Nat /\ S(l) <= 5 * n BY <1>1, TotalIs DEF Summed
<1>5. \A l : \A j \in P(l) : names[j] # NoName /\ names[j].label = l /\ names[j].confidence \in 1..5
  <2>1. \A j \in 1..n : names[j] \in Naming!Candidates \cup {NoName} BY DEF NamesOf
  <2> QED BY <1>3, <2>1, CandidatesAre DEF Naming!PlacesOf
<1>6. ASSUME NEW a \in 1..m
      PROVE  /\ P(sc[a].label) # {} /\ sc[a].score = S(sc[a].label)
             /\ sc[a].count = Cardinality(P(sc[a].label))
             /\ \E j \in P(sc[a].label) : names[j].confidence = sc[a].confidence
             /\ \A j \in P(sc[a].label) : names[j].confidence <= sc[a].confidence
  <2>1. Scored(sc, names, a, n) BY DEF Kept
  <2> HIDE DEF P, S
  <2> QED BY <1>3, <1>4, <2>1 DEF Scored
<1>7. LB = {sc[a].label : a \in 1..m}
  <2>1. ASSUME NEW a \in 1..m PROVE sc[a].label \in LB
    <3>1. PICK j \in P(sc[a].label) : TRUE BY <1>6
    <3>2. j \in DOMAIN names /\ names[j] # NoName /\ names[j].label = sc[a].label
      BY <1>1, <1>3, <1>5, <3>1
    <3> QED BY <3>2 DEF Naming!LabelsIn
  <2>2. ASSUME NEW l \in LB PROVE \E a \in 1..m : l = sc[a].label
    <3>1. PICK j \in 1..n : names[j] # NoName /\ l = names[j].label BY <1>1, <2>2 DEF Naming!LabelsIn
    <3> QED BY <3>1 DEF Kept
  <2> QED BY <2>1, <2>2
<1>8. Naming!Favourite(names) = IF chosen = {} THEN NoName ELSE CHOOSE l \in chosen : TRUE
  BY DEF Naming!Favourite
<1>9. Naming!BestOf(sc, n) = IF sc = <<>> \/ (sc[best].confidence <= 2 /\ sc[best].count # n) THEN NoName
                             ELSE L
  BY DEF Naming!BestOf
<1>10. CASE m = 0
  <2>1. sc = <<>>
    <3>1. sc \in Seq(ScoreOf) BY DEF Kept
    <3> QED BY <1>10, <3>1, EmptySeq
  <2>2. LB = {}
    <3> HIDE DEF LB
    <3>1. \A a \in 1..m : FALSE BY <1>10
    <3> QED BY <1>7, <3>1
  <2>3. chosen = {}
    <3> HIDE DEF LB
    <3> QED BY <2>2
  <2> QED BY <1>8, <1>9, <2>1, <2>3
<1>11. CASE m # 0
  <2>1. sc # <<>>
    <3>1. sc \in Seq(ScoreOf) BY DEF Kept
    <3> QED BY <1>11, <3>1, EmptySeq
  <2>2. best \in 1..m /\ Best(sc, best)
    <3>1. m \in Nat \ {0} BY <1>2, <1>11
    <3>2. \A a \in 1..m : sc[a].score \in Nat /\ sc[a].score <= 5 * n
      <4> HIDE DEF S, P, m
      <4> QED BY <1>4, <1>6
    <3>3. 5 * n \in Nat OBVIOUS
    <3>4. PICK first \in 1..m : Best(sc, first)
      <4> HIDE DEF S, P
      <4> QED BY <3>1, <3>2, <3>3, BestExists
    <3>5. \E i \in DOMAIN sc : \A j \in DOMAIN sc :
            sc[j].score < sc[i].score \/ (sc[j].score = sc[i].score /\ i <= j)
      BY <1>2, <3>4 DEF Best
    <3> QED BY <1>2, <3>5 DEF Best
  <2> HIDE DEF best
  <2>3. L \in LB /\ P(L) # {} BY <1>6, <1>7, <2>2
  <2>4. ASSUME NEW k \in LB PROVE Naming!Beats(names, L, k)
    <3>1. PICK b \in 1..m : k = sc[b].label BY <1>7
    <3>2. sc[best].score = S(L) /\ sc[b].score = S(k) /\ P(L) # {} /\ P(k) # {} BY <1>6, <2>2, <3>1
    <3>3. S(k) < S(L) \/ (S(k) = S(L) /\ best <= b) BY <2>2, <3>2 DEF Best
    <3>4. CASE S(k) < S(L) BY <1>4, <3>4 DEF Naming!Beats
    <3>5. CASE S(k) = S(L) /\ best <= b
      <4>1. CASE best = b
        <5>1. k = L BY <3>1, <4>1
        <5>2. Naming!Min(P(L)) \in Nat
          <6> HIDE DEF P
          <6> QED BY <1>3, <3>2, LeastIs
        <5> QED BY <3>5, <5>1, <5>2 DEF Naming!Beats
      <4>2. CASE best < b
        <5>1. MetBefore(sc, names, best, b, n) BY <2>2, <4>2 DEF Kept
        <5>2. PICK x \in P(L) : \A y \in P(k) : x < y
          <6> HIDE DEF P
          <6> QED BY <1>3, <3>1, <5>1 DEF MetBefore
        <5>3. /\ Naming!Min(P(L)) \in P(L) /\ Naming!Min(P(L)) <= x
              /\ Naming!Min(P(k)) \in P(k) /\ x < Naming!Min(P(k))
          <6> HIDE DEF P
          <6> QED BY <1>3, <3>2, <5>2, LeastIs
        <5>4. x \in Nat /\ Naming!Min(P(L)) \in Nat /\ Naming!Min(P(k)) \in Nat BY <1>3, <5>2, <5>3
        <5>5. Naming!Min(P(L)) <= Naming!Min(P(k)) BY <5>3, <5>4
        <5> QED BY <3>5, <5>5 DEF Naming!Beats
      <4>3. best \in Nat /\ b \in Nat BY <1>2, <2>2
      <4> QED BY <3>5, <4>1, <4>2, <4>3
    <3> QED BY <3>3, <3>4, <3>5
  <2>5. ASSUME NEW l \in LB, \A k \in LB : Naming!Beats(names, l, k) PROVE l = L
    <3>1. PICK a \in 1..m : l = sc[a].label BY <1>7
    <3>2. P(l) # {} BY <1>6, <3>1
    <3>3. Naming!Beats(names, l, L) /\ Naming!Beats(names, L, l) BY <2>3, <2>4, <2>5
    <3>4. /\ S(l) \in Nat /\ S(L) \in Nat
          /\ Naming!Min(P(l)) \in P(l) /\ Naming!Min(P(L)) \in P(L)
      <4> HIDE DEF S, P
      <4> QED BY <1>3, <1>4, <2>3, <3>2, LeastIs
    <3>5. Naming!Min(P(l)) \in Nat /\ Naming!Min(P(L)) \in Nat BY <1>3, <3>4
    <3>6. Naming!Min(P(l)) = Naming!Min(P(L)) BY <3>3, <3>4, <3>5 DEF Naming!Beats
    <3> QED BY <1>5, <3>4, <3>6
  <2>6. Naming!Trusted(names, L) <=> ~(sc[best].confidence <= 2 /\ sc[best].count # n)
    <3>1. /\ sc[best].count = Cardinality(P(L))
          /\ \E j \in P(L) : names[j].confidence = sc[best].confidence
          /\ \A j \in P(L) : names[j].confidence <= sc[best].confidence
      BY <1>6, <2>2
    <3>2. sc[best].confidence \in Nat
      <4>1. sc[best] \in ScoreOf BY <1>2, <2>2
      <4> QED BY <4>1 DEF ScoreOf
    <3>3. (\E i \in P(L) : names[i].confidence > 2) <=> ~(sc[best].confidence <= 2)
      <4>1. \A j \in P(L) : names[j].confidence \in Nat BY <1>5
      <4> HIDE DEF P
      <4> QED BY <3>1, <3>2, <4>1
    <3>4. P(L) = 1..n <=> Cardinality(P(L)) = n
      <4>1. IsFiniteSet(1..n) /\ Cardinality(1..n) = n BY FS_Interval
      <4> HIDE DEF P
      <4> QED BY <1>3, <4>1, FS_Subset
    <3> QED BY <1>1, <3>1, <3>3, <3>4 DEF Naming!Trusted
  <2>7. CASE Naming!Trusted(names, L)
    <3>1. chosen = {L} BY <2>3, <2>4, <2>5, <2>7
    <3>2. Naming!Favourite(names) = L
      <4> HIDE DEF chosen, L
      <4> QED BY <1>8, <3>1
    <3> QED BY <1>9, <2>1, <2>6, <2>7, <3>2
  <2>8. CASE ~Naming!Trusted(names, L)
    <3>1. chosen = {} BY <2>5, <2>8
    <3>2. Naming!Favourite(names) = NoName
      <4> HIDE DEF chosen
      <4> QED BY <1>8, <3>1
    <3> QED BY <1>9, <2>1, <2>6, <2>8, <3>2
  <2> QED BY <2>7, <2>8
<1> QED BY <1>10, <1>11

(* A collection is called by the label that most of its sample is evidence of, for
   samples of any length and of any records. *)
LEMMA NamedByEvidence ==
  ASSUME NEW R, NEW sample \in Seq(R)
  PROVE  Naming!InferCollectionName(sample) = Naming!Favourite(Naming!Evidence(Naming!Readable(sample)))
<1> DEFINE seen == Naming!Readable(sample)
<1>2. seen \in Seq(R) BY ReadableType
<1> HIDE DEF seen
<1>3. /\ Len(seen) \in Nat /\ Naming!Evidence(seen) \in NamesOf(Len(seen))
      /\ Kept(Naming!Scores(seen), Naming!Evidence(seen), Len(seen))
      /\ Summed(Naming!Evidence(seen), Len(seen))
  BY <1>2, EvidenceNames, ScoresKept
<1>4. Naming!BestOf(Naming!Scores(seen), Len(seen)) = Naming!Favourite(Naming!Evidence(seen))
  BY <1>3, BestIsFavourite
<1> QED BY <1>4 DEF seen, Naming!InferCollectionName

(* So it is for the samples that a run checks. *)
LEMMA InferenceHolds == Naming!InferenceExact
<1> SUFFICES ASSUME NEW k \in 0..3, NEW sample \in [1..k -> SampleRecords]
             PROVE  Naming!InferCollectionName(sample) = Naming!Favourite(Naming!Evidence(Naming!Readable(sample)))
  BY DEF Naming!InferenceExact
<1>1. sample \in Seq(SampleRecords)
  <2>1. k \in Nat OBVIOUS
  <2> QED BY <2>1, SeqDef
<1> QED BY <1>1, NamedByEvidence

(* What the Studio makes of lists it is given is exact, whatever is in them: the builder
   refuses a list of properties exactly when a name is blank or given twice or a text
   cannot be read, and else the object has what was entered; and a collection is called
   by the label that most of its sample is evidence of. *)
THEOREM ComputedHolds == PartsSpec => []ComputedExact
<1>1. Naming!InferenceExact => In("names", Naming!InferenceExact) BY DEF In
<1>2. In("names", Naming!InferenceExact) BY <1>1, InferenceHolds
<1>3. In("fields", Fields!BuilderExact) => ComputedExact BY <1>2 DEF ComputedExact
<1> QED BY <1>3, BuilderHolds, PTL
=============================================================================

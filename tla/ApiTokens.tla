------------------------------ MODULE ApiTokens ------------------------------
(***************************************************************************)
(* API tokens: TokenStore's records in the engine and its index in memory, *)
(* which is all that Validate reads, the handlers that change them, and    *)
(* the Studio's dialog over them.  The server crashes and starts again.    *)
(*                                                                         *)
(* A token is known by its id, which Create draws at random: ids are taken *)
(* in order here.  Names, roles, masks and the button Copy are left out.   *)
(* The requests for keys reach the partition of the tokens, too: they take *)
(* a token's record away or write it back, and the index hears nothing of  *)
(* it.  Copies of it at other keys, and records no Create wrote, are not   *)
(* followed.                                                               *)
(***************************************************************************)
EXTENDS Naturals, FiniteSets

CONSTANTS
  MaxTokens,  \* bound: tokens ever created
  MaxCalls,   \* bound: requests of the dialog under way
  MaxCrashes, \* bound: restarts of the server
  MaxOthers,  \* bound: records that other writers take
  Nothing, Failed \* no request, secret or answer yet; an error

(* A request of the dialog: what is asked, of which token, and the answer. *)
Calls == [op : {"fetch", "create", "delete"}, id : (1..MaxTokens) \cup {Nothing},
          ans : {Nothing, Failed, "ok"} \cup SUBSET (1..MaxTokens)]

(* What stands for nothing is no id, no request and no answer. *)
TokensAssumption ==
  /\ MaxTokens \in Nat
  /\ Nothing \notin 1..MaxTokens /\ Nothing \notin Calls /\ Nothing \notin {"ok", Failed}

VARIABLES
  stored, index, drawn, crashes,                     \* the server
  revoked,                \* history: those whose revocation was acknowledged and stands
  taken,                  \* history: those whose record another writer took
  open, tokens, loading, creating, newName, newSecret, \* the dialog
  calls                                              \* its requests

serverVars == <<stored, index, drawn, crashes, revoked, taken>>
dialogVars == <<open, tokens, loading, creating, newName, newSecret>>
vars == <<serverVars, dialogVars, calls>>

Ids == 1..MaxTokens
Slots == 1..MaxCalls

Init ==
  /\ stored = {} /\ index = {} /\ drawn = 0 /\ crashes = 0 /\ revoked = {}
  /\ taken = {}
  /\ open = FALSE /\ tokens = {} /\ loading = FALSE /\ creating = FALSE
  /\ newName = FALSE /\ newSecret = Nothing
  /\ calls = [s \in Slots |-> Nothing]

Sent(op, id) == [op |-> op, id |-> id, ans |-> Nothing]
Send(c) == \E s \in Slots :
  /\ calls[s] = Nothing /\ \A t \in Slots : t < s => calls[t] # Nothing
  /\ calls' = [calls EXCEPT ![s] = c]

----------------------------------------------------------------------------
(* The dialog. *)

(* Its effect fetches the list whenever it is opened. *)
Open ==
  /\ ~open /\ open' = TRUE /\ loading' = TRUE /\ newSecret' = Nothing /\ newName' = FALSE
  /\ Send(Sent("fetch", Nothing)) /\ UNCHANGED <<serverVars, tokens, creating>>
Close == open /\ open' = FALSE /\ UNCHANGED <<serverVars, tokens, loading, creating, newName, newSecret, calls>>
NewToken == open /\ ~creating /\ creating' = TRUE /\ UNCHANGED <<serverVars, open, tokens, loading, newName, newSecret, calls>>
CancelNew == open /\ creating /\ creating' = FALSE /\ UNCHANGED <<serverVars, open, tokens, loading, newName, newSecret, calls>>
TypeName(b) == open /\ creating /\ newName' = b /\ newName # b /\ UNCHANGED <<serverVars, open, tokens, loading, creating, newSecret, calls>>
(* Nothing stops a second submit while the first is under way. *)
HandleCreate ==
  /\ open /\ creating /\ newName
  /\ Send(Sent("create", Nothing)) /\ UNCHANGED <<serverVars, dialogVars>>
(* A row of the list. *)
HandleDelete(id) ==
  /\ open /\ ~loading /\ id \in tokens
  /\ Send(Sent("delete", id)) /\ UNCHANGED <<serverVars, dialogVars>>

----------------------------------------------------------------------------
(* The server. *)

Answer(s, a) == calls' = [calls EXCEPT ![s].ans = a]
Waiting(s, op) == calls[s] # Nothing /\ calls[s].op = op /\ calls[s].ans = Nothing

ServeList(s) == Waiting(s, "fetch") /\ Answer(s, index) /\ UNCHANGED <<serverVars, dialogVars>>

(* Create puts the record, which can fail before or after, and adds the token
   to the index in a second step. *)
CreatePut(s) ==
  /\ Waiting(s, "create") /\ calls[s].id = Nothing
  /\ \/ /\ drawn < MaxTokens /\ drawn' = drawn + 1 /\ stored' = stored \cup {drawn'}
        /\ calls' = [calls EXCEPT ![s].id = drawn'] \/ Answer(s, Failed)
     \/ Answer(s, Failed) /\ UNCHANGED <<stored, drawn>>
  /\ UNCHANGED <<index, crashes, revoked, taken, dialogVars>>
CreateIndex(s) ==
  /\ Waiting(s, "create") /\ calls[s].id # Nothing
  /\ index' = index \cup {calls[s].id} /\ Answer(s, "ok")
  /\ UNCHANGED <<stored, drawn, crashes, revoked, taken, dialogVars>>

(* Delete holds the store's lock: the index first, then the engine, whose
   failure is reported but not undone. *)
DeletedIndexOnly(id) == stored' = stored \* mutant: the record is left behind
Deleted(id) == stored' = stored \ {id}
ServeDelete(s) ==
  /\ Waiting(s, "delete")
  /\ index' = index \ {calls[s].id}
  /\ \/ Deleted(calls[s].id) /\ Answer(s, "ok") /\ revoked' = revoked \cup {calls[s].id}
     \/ stored' \in {stored, stored \ {calls[s].id}} /\ Answer(s, Failed) /\ revoked' = revoked
  /\ UNCHANGED <<drawn, crashes, taken, dialogVars>>

(* A crash loses the index and what was under way; NewTokenStore reloads the
   index from the engine.  Its error is dropped, and the index stays empty; a record
   that cannot be read as a token is passed over. *)
ReloadRead == SUBSET stored
Crash ==
  /\ crashes < MaxCrashes /\ crashes' = crashes + 1
  /\ index' \in ReloadRead
  /\ calls' = [s \in Slots |-> IF calls[s] # Nothing /\ calls[s].ans = Nothing
                               THEN [calls[s] EXCEPT !.ans = Failed] ELSE calls[s]]
  /\ UNCHANGED <<stored, drawn, revoked, taken, dialogVars>>

(* DeleteKey, the deletion of a user, or PutKey with what is no token; and PutKey
   with the token's own record. *)
TakeRecord(id) ==
  /\ id \in stored /\ Cardinality(taken \cup {id}) <= MaxOthers
  /\ stored' = stored \ {id} /\ taken' = taken \cup {id}
  /\ UNCHANGED <<index, drawn, crashes, revoked, dialogVars, calls>>
ReturnRecord(id) ==
  /\ id \in (1..drawn) \ stored
  /\ stored' = stored \cup {id} /\ revoked' = revoked \ {id}
  /\ UNCHANGED <<index, drawn, crashes, taken, dialogVars, calls>>

----------------------------------------------------------------------------
(* What comes back: a create or a revocation that went well fetches the list. *)

Answered(s, op) == calls[s] # Nothing /\ calls[s].op = op /\ calls[s].ans # Nothing
Fetch(s) == calls' = [calls EXCEPT ![s] = Sent("fetch", Nothing)] /\ loading' = TRUE
Done(s) == calls' = [calls EXCEPT ![s] = Nothing]

Fetched(s) ==
  /\ Answered(s, "fetch") /\ loading' = FALSE /\ Done(s)
  /\ tokens' = (IF calls[s].ans = Failed THEN tokens ELSE calls[s].ans)
  /\ UNCHANGED <<serverVars, open, creating, newName, newSecret>>
Created(s) ==
  /\ Answered(s, "create")
  /\ IF calls[s].ans = "ok"
     THEN newSecret' = calls[s].id /\ newName' = FALSE /\ creating' = FALSE /\ Fetch(s)
     ELSE Done(s) /\ UNCHANGED <<newSecret, newName, creating, loading>>
  /\ UNCHANGED <<serverVars, open, tokens>>
RevokedStuck(s) == \* mutant: loading is set and nothing is fetched
  /\ Answered(s, "delete") /\ loading' = TRUE /\ Done(s)
  /\ UNCHANGED <<serverVars, open, tokens, creating, newName, newSecret>>
Revoked(s) ==
  /\ Answered(s, "delete")
  /\ IF calls[s].ans = "ok" THEN Fetch(s) ELSE Done(s) /\ UNCHANGED loading
  /\ UNCHANGED <<serverVars, open, tokens, creating, newName, newSecret>>

Next ==
  \/ Open \/ Close \/ NewToken \/ CancelNew \/ HandleCreate \/ Crash
  \/ \E b \in BOOLEAN : TypeName(b)
  \/ \E id \in Ids : HandleDelete(id) \/ TakeRecord(id) \/ ReturnRecord(id)
  \/ \E s \in Slots :
       \/ ServeList(s) \/ CreatePut(s) \/ CreateIndex(s) \/ ServeDelete(s)
       \/ Fetched(s) \/ Created(s) \/ Revoked(s)
Spec == Init /\ [][Next]_vars

----------------------------------------------------------------------------
TypeOK ==
  /\ {stored, index, revoked, taken, tokens} \subseteq SUBSET Ids /\ drawn \in 0..MaxTokens
  /\ {open, loading, creating, newName} \subseteq BOOLEAN
  /\ newSecret \in Ids \cup {Nothing}

(* A token that is valid has its record, where the next start looks for it, unless
   another writer has taken it.  One whose revocation was acknowledged is neither valid
   nor stored, until its record is written back: no start makes it valid again,
   whatever fails or crashes between the two steps of Create or in Delete.  A token need
   not be valid after a restart: NewTokenStore drops Reload's error and loads none. *)
TokensBacked ==
  /\ index \subseteq stored \cup taken
  /\ revoked \cap (index \cup stored) = {}

(* The list is not left loading. *)
DialogSettles == loading => \E s \in Slots : calls[s] # Nothing /\ calls[s].op = "fetch"
==============================================================================

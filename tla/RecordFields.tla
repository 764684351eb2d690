---------------------------- MODULE RecordFields -----------------------------
(***************************************************************************)
(* The structured editor of a new record: a list of properties that the    *)
(* user adds, changes and removes, and the object that buildFields makes   *)
(* of it.  A field's value is what the text in it can be read as.          *)
(***************************************************************************)
EXTENDS Naturals, SequencesExt

CONSTANTS
  Names, Blank,         \* names of properties; the blank one
  FieldTexts,           \* texts that are typed: [number, json] of each
  EmptyText,            \* what a new field holds
  MaxFields,            \* bound: fields in the editor
  NotBuilt

(* That an object was not built is told apart from every object there is. *)
FieldsAssumption ==
  /\ EmptyText \in FieldTexts
  /\ \A S \in SUBSET Names : NotBuilt \notin [S -> {"string", "number", "boolean", "json"} \X FieldTexts]

VARIABLE fields

Types == {"string", "number", "boolean", "json"}
Field == [name : Names \cup {Blank}, type : Types, value : FieldTexts]

(* A value of the object: what the text was read as, or not at all. *)
Reads(f) ==
  CASE f.type = "number" -> f.value.number
    [] f.type = "json"   -> f.value.json
    [] OTHER             -> TRUE

(* One turn of the loop: data so far, or NotBuilt once something was wrong. *)
BuildFieldOverwriting(data, f) == \* mutant: a property given twice is not noticed
  IF data = NotBuilt \/ f.name = Blank \/ ~Reads(f) THEN NotBuilt
  ELSE [n \in DOMAIN data \cup {f.name} |-> IF n = f.name THEN <<f.type, f.value>> ELSE data[n]]
BuildField(data, f) ==
  IF data = NotBuilt \/ f.name = Blank \/ f.name \in DOMAIN data \/ ~Reads(f) THEN NotBuilt
  ELSE [n \in DOMAIN data \cup {f.name} |-> IF n = f.name THEN <<f.type, f.value>> ELSE data[n]]
BuildFields(list) ==
  LET after[i \in 0..Len(list)] == IF i = 0 THEN <<>> ELSE BuildField(after[i - 1], list[i])
  IN  after[Len(list)]

----------------------------------------------------------------------------
Init == fields = <<[name |-> Blank, type |-> "string", value |-> EmptyText]>>

AddProperty ==
  /\ Len(fields) < MaxFields
  /\ fields' = Append(fields, [name |-> Blank, type |-> "string", value |-> EmptyText])
UpdateField(i, f) == fields' = [fields EXCEPT ![i] = f]
RemoveProperty(i) == fields' = RemoveAt(fields, i)

Next ==
  \/ AddProperty
  \/ \E i \in DOMAIN fields : RemoveProperty(i)
  \/ \E i \in DOMAIN fields :
       \/ \E n \in Names \cup {Blank} : UpdateField(i, [fields[i] EXCEPT !.name = n])
       \/ \E t \in Types : UpdateField(i, [fields[i] EXCEPT !.type = t])
       \/ \E v \in FieldTexts : UpdateField(i, [fields[i] EXCEPT !.value = v])

----------------------------------------------------------------------------
(* The builder refuses a list exactly when a name is blank or given twice or a
   text cannot be read as its type; otherwise every property of the list, and
   nothing else, is in the object, with the value it was given. *)
Sound(list) ==
  /\ \A i \in DOMAIN list : list[i].name # Blank /\ Reads(list[i])
  /\ \A i, j \in DOMAIN list : i # j => list[i].name # list[j].name
BuilderExact ==
  LET data == BuildFields(fields)
  IN  IF ~Sound(fields) THEN data = NotBuilt
      ELSE /\ data # NotBuilt
           /\ DOMAIN data = {fields[i].name : i \in DOMAIN fields}
           /\ \A i \in DOMAIN fields : data[fields[i].name] = <<fields[i].type, fields[i].value>>
==============================================================================

------------------------------- MODULE JsonBody -------------------------------
(***************************************************************************)
(* The JSON objects that packets are made of (net/json_body.cpp): a body   *)
(* is a pointer into a yyjson document that it owns or only looks at.      *)
(*                                                                         *)
(* A document has one scalar field and one field that may be an object of  *)
(* a scalar, which is as deep as packets are copied and taken apart.       *)
(* meant is what each body would hold if bodies were values.               *)
(***************************************************************************)
EXTENDS Naturals

CONSTANTS
  Body,        \* the variables of type JsonBody
  Doc,         \* bound: yyjson documents
  NoDoc,       \* a null pointer
  Scalar       \* the values of a scalar field

VARIABLES
  heap,        \* the documents, "freed" where there is none
  doc, root, owns,  \* doc_, root_ and owns_ of each body
  lent,        \* the body that an iteration lends a view of
  meant        \* the value that each body should have

vars == <<heap, doc, root, owns, lent, meant>>

Field == Scalar \cup {"absent"}
Tree == [s : Field, o : Field \cup {"none"}]
Freed == [s |-> "freed", o |-> "freed"]
Empty == [s |-> "absent", o |-> "none"]

TypeOK ==
  /\ heap \in [Doc -> Tree \cup {Freed}]
  /\ doc \in [Body -> Doc \cup {NoDoc}]
  /\ root \in [Body -> {"root", "o"}]
  /\ owns \in [Body -> BOOLEAN]
  /\ lent \in Body \cup {NoDoc}
  /\ meant \in [Body -> Tree]

Alive == {d \in Doc : heap[d] # Freed}

\* The object at a field of a document, or the document's root.
At(d, r) == IF r = "root" THEN heap[d] ELSE [s |-> heap[d].o, o |-> "none"]

Value(b) == IF doc[b] = NoDoc THEN Empty ELSE At(doc[b], root[b])

\* The field that is an object, as an object.
Child(tree) == IF tree.o = "none" THEN Empty ELSE [s |-> tree.o, o |-> "none"]

Init ==
  /\ heap = [d \in Doc |-> Freed]
  /\ doc = [b \in Body |-> NoDoc] /\ root = [b \in Body |-> "root"]
  /\ owns = [b \in Body |-> FALSE]
  /\ lent = NoDoc
  /\ meant = [b \in Body |-> Empty]

\* While a body is iterated its callback only reads it.
Idle(b) == lent # b

-----------------------------------------------------------------------------

\* A body gets a document of its own with a tree in it, in place of the one that
\* it owned.
Own(b, tree, value) ==
  /\ Idle(b)
  /\ \E d \in Doc \ Alive :
       /\ heap' = [e \in Doc |-> IF e = d THEN tree
                                 ELSE IF owns[b] /\ e = doc[b] THEN Freed ELSE heap[e]]
       /\ doc' = [doc EXCEPT ![b] = d]
  /\ root' = [root EXCEPT ![b] = "root"]
  /\ owns' = [owns EXCEPT ![b] = TRUE]
  /\ meant' = [meant EXCEPT ![b] = value]
  /\ UNCHANGED lent

\* A default-constructed body, or one that could not be parsed, is empty.
Parse(b) == \E tree \in Tree : Own(b, tree, tree)

\* The copy is deep.
\* Mutant: the copy has the document of the original.
CopyPointer(b, c) ==
  /\ Idle(b) /\ doc[c] # NoDoc
  /\ heap' = [e \in Doc |-> IF owns[b] /\ e = doc[b] /\ b # c THEN Freed ELSE heap[e]]
  /\ doc' = [doc EXCEPT ![b] = doc[c]] /\ root' = [root EXCEPT ![b] = root[c]]
  /\ owns' = [owns EXCEPT ![b] = TRUE]
  /\ meant' = [meant EXCEPT ![b] = meant[c]]
  /\ UNCHANGED lent

Copy(b, c) == b # c /\ Own(b, Value(c), meant[c])

\* A moved-from body has no document; a body that is moved to frees its own.
\* Mutant: it does not.
MoveOver(b, c) ==
  /\ b # c /\ Idle(b) /\ Idle(c)
  /\ doc' = [doc EXCEPT ![b] = doc[c], ![c] = NoDoc]
  /\ root' = [root EXCEPT ![b] = root[c], ![c] = "root"]
  /\ owns' = [owns EXCEPT ![b] = owns[c], ![c] = FALSE]
  /\ meant' = [meant EXCEPT ![b] = meant[c], ![c] = Empty]
  /\ UNCHANGED <<heap, lent>>

Move(b, c) ==
  /\ b # c /\ Idle(b) /\ Idle(c)
  /\ heap' = [e \in Doc |-> IF owns[b] /\ e = doc[b] THEN Freed ELSE heap[e]]
  /\ doc' = [doc EXCEPT ![b] = doc[c], ![c] = NoDoc]
  /\ root' = [root EXCEPT ![b] = root[c], ![c] = "root"]
  /\ owns' = [owns EXCEPT ![b] = owns[c], ![c] = FALSE]
  /\ meant' = [meant EXCEPT ![b] = meant[c], ![c] = Empty]
  /\ UNCHANGED lent

Destroy(b) ==
  /\ Idle(b) /\ doc[b] # NoDoc
  /\ heap' = IF owns[b] THEN [heap EXCEPT ![doc[b]] = Freed] ELSE heap
  /\ doc' = [doc EXCEPT ![b] = NoDoc] /\ owns' = [owns EXCEPT ![b] = FALSE]
  /\ root' = [root EXCEPT ![b] = "root"]
  /\ meant' = [meant EXCEPT ![b] = Empty]
  /\ UNCHANGED lent

\* get_obj returns an owned copy of a field, an empty body if it is no object.
\* Mutant: it returns a view.
GetView(b, c) ==
  /\ b # c /\ Idle(b) /\ doc[c] # NoDoc /\ root[c] = "root" /\ heap[doc[c]].o # "none"
  /\ heap' = [e \in Doc |-> IF owns[b] /\ e = doc[b] THEN Freed ELSE heap[e]]
  /\ doc' = [doc EXCEPT ![b] = doc[c]] /\ root' = [root EXCEPT ![b] = "o"]
  /\ owns' = [owns EXCEPT ![b] = FALSE]
  /\ meant' = [meant EXCEPT ![b] = Child(meant[c])]
  /\ UNCHANGED lent

GetObj(b, c) == b # c /\ Own(b, Child(Value(c)), Child(meant[c]))

\* Replace the tree of a body's document; nothing is written through no document.
Write(b, tree, value) ==
  /\ Idle(b)
  /\ heap' = IF doc[b] = NoDoc THEN heap ELSE [heap EXCEPT ![doc[b]] = tree]
  /\ meant' = IF doc[b] = NoDoc THEN meant ELSE [meant EXCEPT ![b] = value]
  /\ UNCHANGED <<doc, root, owns, lent>>

Set(b) ==
  /\ root[b] = "root"
  /\ \E s \in Scalar : Write(b, [Value(b) EXCEPT !.s = s], [meant[b] EXCEPT !.s = s])

\* The tree of another body, or of the same one, is copied into the document.
SetChild(b, c) ==
  /\ root[b] = "root" /\ doc[c] # NoDoc
  /\ Write(b, [Value(b) EXCEPT !.o = Value(c).s], [meant[b] EXCEPT !.o = meant[c].s])

CopyField(b, c) ==
  /\ root[b] = "root" /\ Value(c).s # "absent"
  /\ Write(b, [Value(b) EXCEPT !.s = Value(c).s], [meant[b] EXCEPT !.s = meant[c].s])

\* An array is filled through a view before the document refers to it.
SetArray(b) ==
  /\ root[b] = "root"
  /\ \E s \in Field : Write(b, [Value(b) EXCEPT !.o = s], [meant[b] EXCEPT !.o = s])

\* An iteration lends a view of a field to its callback, which may read and copy
\* it, until it returns.
BeginEach(v, b) ==
  /\ lent = NoDoc /\ v # b
  /\ doc[v] = NoDoc /\ doc[b] # NoDoc /\ root[b] = "root" /\ heap[doc[b]].o # "none"
  /\ doc' = [doc EXCEPT ![v] = doc[b]] /\ root' = [root EXCEPT ![v] = "o"]
  /\ owns' = [owns EXCEPT ![v] = FALSE]
  /\ meant' = [meant EXCEPT ![v] = Child(meant[b])]
  /\ lent' = b
  /\ UNCHANGED heap

EndEach(v) ==
  /\ lent # NoDoc /\ root[v] = "o" /\ ~owns[v]
  /\ doc' = [doc EXCEPT ![v] = NoDoc] /\ root' = [root EXCEPT ![v] = "root"]
  /\ meant' = [meant EXCEPT ![v] = Empty]
  /\ lent' = NoDoc
  /\ UNCHANGED <<heap, owns>>

\* A view is const: only bodies of their own are changed.
Mine(b) == root[b] = "root"

Next ==
  \/ \E b \in Body : (Mine(b) /\ (Parse(b) \/ Destroy(b) \/ Set(b) \/ SetArray(b))) \/ EndEach(b)
  \/ \E b, c \in Body :
       \/ Mine(b) /\ (Copy(b, c) \/ GetObj(b, c) \/ SetChild(b, c) \/ CopyField(b, c))
       \/ Mine(b) /\ Mine(c) /\ Move(b, c)
       \/ BeginEach(b, c)

Spec == Init /\ [][Next]_vars

-----------------------------------------------------------------------------

\* Every document belongs to one body, and no body has a document that is freed.
OneOwner ==
  /\ \A d \in Alive : \E b \in Body : owns[b] /\ doc[b] = d
  /\ \A b, c \in Body : (owns[b] /\ owns[c] /\ doc[b] = doc[c]) => b = c
  /\ \A b \in Body : doc[b] # NoDoc => doc[b] \in Alive

\* Bodies behave as values: what happens to a copy, a field that was taken out,
\* or the original does not show in the others.
ActsAsValue == \A b \in Body : Value(b) = meant[b]

=============================================================================

----------------------------- MODULE SealedBox ------------------------------
(***************************************************************************)
(* What an encrypted message promises, whatever its format: a box that is  *)
(* sealed once, may be obstructed or damaged on its way, and is opened by  *)
(* a reader.                                                               *)
(***************************************************************************)
EXTENDS Integers, Sequences

CONSTANTS Readers, NoReader

VARIABLES
  state,          \* "empty", "sealed" or "opened"
  content,        \* what was sealed
  holders,        \* the readers that hold a key the content was sealed for
  readers,        \* the readers that are certain to open the box
  authenticated,  \* the box says that its content is authenticated
  intact,
  opener,         \* the reader that opened the box
  result          \* what the reader got: [ok, bytes]

boxVars == <<state, content, holders, readers, authenticated, intact, opener, result>>

NoResult == [ok |-> FALSE, bytes |-> <<>>]

BoxInit ==
  /\ state = "empty" /\ content = <<>>
  /\ holders = {} /\ readers = {}
  /\ authenticated = FALSE /\ intact = TRUE
  /\ opener = NoReader /\ result = NoResult

Seal ==
  /\ state = "empty" /\ state' = "sealed"
  /\ content' \in Seq(0 .. 255)
  /\ holders' \subseteq Readers /\ readers' \subseteq holders'
  /\ authenticated' \in BOOLEAN
  /\ UNCHANGED <<intact, opener, result>>

\* Something that a reader cannot get past is added to the outside of the box.
Obstruct ==
  /\ state = "sealed" /\ readers' \subseteq readers
  /\ UNCHANGED <<state, content, holders, authenticated, intact, opener, result>>

Damage ==
  /\ state = "sealed"
  /\ intact' = FALSE /\ readers' = {} /\ authenticated' \in BOOLEAN
  /\ UNCHANGED <<state, content, holders, opener, result>>

\* What reader r may get.  The content, if it holds a key.  An error, unless it is
\* certain to open the box.  Any bytes, if nothing authenticates them and either the
\* box was damaged or the reader holds no key.
MayGet(r, x) ==
  \/ x = [ok |-> TRUE, bytes |-> content] /\ r \in holders
  \/ x = NoResult /\ r \notin readers
  \/ /\ x.ok /\ x.bytes \in Seq(0 .. 255)
     /\ ~authenticated /\ ~(intact /\ r \in holders)

Open(r) ==
  /\ state = "sealed" /\ state' = "opened"
  /\ opener' = r /\ MayGet(r, result')
  /\ UNCHANGED <<content, holders, readers, authenticated, intact>>

BoxNext == Seal \/ Obstruct \/ Damage \/ \E r \in Readers : Open(r)

BoxSpec == BoxInit /\ [][BoxNext]_boxVars

=============================================================================

---------------------------- MODULE SupersetIndex ----------------------------
(***************************************************************************)
(* What every index of the system promises, whatever its structure: an     *)
(* answer may hold records that do not match (the client filters them, or  *)
(* a Bloom filter was wrong), but it never misses a record that has become *)
(* visible and does match.  A record is inserted at a position with a set  *)
(* of keywords; a query names an interval of positions and a set of        *)
(* keywords, and matches a record that has at least one of them.           *)
(***************************************************************************)
EXTENDS Integers

CONSTANTS Record, Position, Keyword

VARIABLES
  entries,  \* record -> [at, keywords] for the records inserted so far
  visible,  \* inserted records the index has promised to find
  answer    \* {} or the last answer: its query and the records returned

avars == <<entries, visible, answer>>

Query == [lo : Position, hi : Position, keywords : SUBSET Keyword]

InRange(q) ==
  {r \in DOMAIN entries : q.lo <= entries[r].at /\ entries[r].at <= q.hi}
MustReturn(q) ==
  {r \in InRange(q) \cap visible : entries[r].keywords \cap q.keywords # {}}

Init ==
  /\ entries = [r \in {} |-> 0]
  /\ visible = {}
  /\ answer = {}

(* A record becomes visible when the index is told to, at once or later,   *)
(* and stays visible.                                                      *)
Publish ==
  /\ visible \subseteq visible' /\ visible' \subseteq DOMAIN entries'
  /\ answer' \in {answer, {}}

Insert(r) ==
  /\ r \in Record \ DOMAIN entries
  /\ \E p \in Position, ks \in SUBSET Keyword :
       entries' = [x \in DOMAIN entries \cup {r} |->
                     IF x = r THEN [at |-> p, keywords |-> ks] ELSE entries[x]]
  /\ Publish

Refresh == entries' = entries /\ Publish

(* Any query, at any time; the answer is between the records that must be  *)
(* returned and the records in the interval.                               *)
Ask ==
  /\ \E a \in answer' :
       /\ answer' = {a}
       /\ a.query \in Query
       /\ MustReturn(a.query) \subseteq a.found
       /\ a.found \subseteq InRange(a.query)
  /\ UNCHANGED <<entries, visible>>

Next ==
  \/ \E r \in Record : Insert(r)
  \/ Refresh
  \/ Ask

Spec == Init /\ [][Next]_avars
=============================================================================

----------------------------- MODULE StandardEMM ----------------------------
(***************************************************************************)
(* StandardEMM (TDAG/src/standard_emm.cpp): an encrypted multimap.  The    *)
(* i-th value of a label is stored under the hash of the label's token and *)
(* i; the server, given the token, counts up until a hash is missing.      *)
(* Hashes and ciphertexts are taken to be injective: a stored entry is     *)
(* identified by <<label, i>> and its value can be read by the client.     *)
(***************************************************************************)
EXTENDS Integers, Sequences, FiniteSets

(* The multimap that a map from labels to sequences of values becomes. *)
BuildEMM(postings) ==
  LET keys == UNION {{<<l, i>> : i \in 0 .. Len(postings[l]) - 1} : l \in DOMAIN postings}
  IN [key \in keys |-> postings[key[1]][key[2] + 1]]

(* Mutant of Search: a hash that is found ends the search. *)
SearchFirst(tset, labels) ==
  {tset[<<l, 0>>] : l \in {k \in labels : <<k, 0>> \in DOMAIN tset}}

(* query and decryptResults: the values the client gets for its labels,    *)
(* each counted up from 0 to the first that is missing.                    *)
Search(tset, labels) ==
  LET From(l) ==
        LET Up[i \in Nat] ==
              IF <<l, i>> \in DOMAIN tset THEN {tset[<<l, i>>]} \cup Up[i + 1] ELSE {}
        IN Up[0]
  IN UNION {From(l) : l \in labels}
=============================================================================

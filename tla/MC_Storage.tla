----------------------------- MODULE MC_Storage -----------------------------
(* The passive stores of the code side by side: a behaviour uses the page  *)
(* manager, a bit vector, or one of the filters that only libbf has.       *)
EXTENDS PageManagement, Bitvector, BloomVariants, TLC

VARIABLE store \* the store of this behaviour: "pages", "bits", "filter"

(* Values that are the key they are stored under and one that is not; the *)
(* second key's own Set numbers the items, so its answers are not compared.*)
MCValuesFor == "a" :> {"a", "b"} @@ "b" :> {"b"}

(* Every hasher of two digests.  Cells are named so that the first object  *)
(* has the first ones, which leaves out no hasher but renamings.           *)
HashersOver(cells) ==
  {h \in [Object -> {s \in SUBSET cells : Cardinality(s) \in 1 .. 2}] :
     h["x"] \in {{0}, {0, 1}}}

One == {<<h>> : h \in HashersOver(0 .. 2)}
Two == {<<h, g>> : h \in HashersOver(0 .. 2), g \in HashersOver(0 .. 1)}

MCHashers ==
  "counting" :> One @@ "mi" :> One @@ "stable" :> One @@ "rm" :> Two
  @@ "a2" :> Two @@ "bitwise" :> {<<h, g, h>> : h, g \in HashersOver(0 .. 1)}

FilterIdle ==
  /\ kind = "none" /\ hashers = <<>> /\ parts = <<>> /\ items = 0
  /\ net = [o \in Object |-> 0] /\ age = [o \in Object |-> -1]
  /\ saturated = FALSE /\ misused = FALSE /\ calls = 0

MCInit ==
  /\ Init /\ BitsInit
  /\ \/ store \in {"pages", "bits"} /\ FilterIdle
     \/ store = "filter" /\ FilterInit

MCNext ==
  \/ store = "pages" /\ Next /\ UNCHANGED <<store, bitVars, filterVars>>
  \/ store = "bits" /\ BitsNext /\ UNCHANGED <<store, vars, filterVars>>
  \/ store = "filter" /\ FilterNext /\ UNCHANGED <<store, vars, bitVars>>

MCSpec == MCInit /\ [][MCNext]_<<store, vars, bitVars, filterVars>>
=============================================================================

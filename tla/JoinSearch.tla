----------------------------- MODULE JoinSearch -----------------------------
(***************************************************************************)
(* JXT+: the join of two encrypted tables on the user of their rows.       *)
(* Setup_JXTp makes of each table a token set (keyword -> masked entries), *)
(* a ciphertext set (keyword and user -> ciphertexts) and a filter over    *)
(* the keys of the latter.  Server_JXTp unmasks the entries of a keyword   *)
(* of table 1 with what the client sends and looks the results up in both  *)
(* ciphertext sets.  The client asks by user, time slots and box: time     *)
(* slots come from the index of days, boxes become cubes (CubeCode).       *)
(*                                                                         *)
(* Hashes are opaque: a hash is an atom, what tool::Xor makes of hashes is *)
(* a set of atoms, and no two of them agree in 64 bits by chance.  The     *)
(* filter may answer yes for any key.  A ciphertext is the row and its     *)
(* key's keyword; AESUtil only checks the padding, so that another key may *)
(* decrypt it as well, to nothing that is a row.                           *)
(***************************************************************************)
EXTENDS CubeCode, SequencesExt

CONSTANTS
  Row1, Row2,  \* the rows tables 1 and 2 may have: [user, slot, point]
  MaxRows,     \* table -> largest number of rows
  Box,         \* the boxes a client may ask for
  SlotsPerDay, \* slots of a day, 144
  Times,       \* the pairs of slots a client may ask for: of start and end
  MaxWrong     \* bound: how often a wrong key decrypts in the reading of a result

ASSUME JoinAssumption ==
  /\ IsFiniteSet(Coord) /\ Levels \in Nat \ {0} /\ SlotsPerDay \in Nat \ {0}
  /\ \A row \in Row1 \cup Row2 : row.slot \in Int /\ row.point \in [Coord -> Int]
  /\ Box \subseteq [Coord -> Int \X Int] /\ Times \subseteq Int \X Int
  /\ MaxRows \in [{1, 2} -> Nat] /\ MaxWrong \in Nat

VARIABLES
  rows,    \* the rows read from the two files so far
  built,   \* construct() has run
  server,  \* tset and, for each table, cset
  result   \* the last search: its query and SearchResult

joinVars == <<rows, built, server, result>>

Table == {1, 2}
NoResult == [kind |-> "none"]

JoinInit ==
  /\ rows = [t \in Table |-> <<>>] /\ built = {}
  /\ server = [tset |-> <<>>, cset |-> [t \in Table |-> <<>>]]
  /\ result = NoResult
-----------------------------------------------------------------------------
(* Keywords, hashes and masks *)

UserKey(u) == <<"user", u>>
SlotKey(s) == <<"slot", s>>   \* slots of all days, counted through
DayOf(s) == s \div SlotsPerDay
CubeKey(c) == <<"cube", c>>

(* reverse_id: the keywords a row is filed under, and a keyword's rows. *)
KeywordsOf(row) ==
  {UserKey(row.user), SlotKey(row.slot)} \cup {CubeKey(c) : c \in DataCubeCodes(row.point)}
PostingsOf(table, kw) ==
  Ascending({i \in DOMAIN table : kw \in KeywordsOf(table[i])})

Xor(x, y) == (x \ y) \cup (y \ x)

W(kw, i) == {<<"w", kw, i>>}  \* i = 0 for the keyword, 1, 2, ... for its entries
Y(u) == {<<"z", u>>}
H == {<<"h">>}                \* both tables join on the same attribute
Kz == {<<"Kz">>}

CsetKey(kw, u) == Xor(Xor(W(kw, 0), Y(u)), H)
-----------------------------------------------------------------------------
(* Setup_JXTp::construct *)

(* The second row of a keyword with the same user finds its key taken: its *)
(* ciphertext joins the group, and its entry is masked once more so that   *)
(* the server does not return the group again.                             *)
Entries(table, kw) ==
  LET posts == PostingsOf(table, kw)
      user(i) == table[posts[i]].user
  IN [i \in DOMAIN posts |->
        LET entry == Xor(W(kw, i), Y(user(i)))
        IN IF \E j \in 1 .. i - 1 : user(j) = user(i) THEN Xor(entry, Kz) ELSE entry]

TokenSet(table, t) ==
  LET keywords == UNION {KeywordsOf(table[i]) : i \in DOMAIN table}
  IN [token \in keywords \X {t} |-> Entries(table, token[1])]

CiphertextSet(table, t) ==
  LET groups == UNION {KeywordsOf(table[i]) \X {table[i].user} : i \in DOMAIN table}
  IN [key \in {CsetKey(g[1], g[2]) : g \in groups} |->
        LET g == CHOOSE g \in groups : CsetKey(g[1], g[2]) = key
            posts == Ascending({i \in DOMAIN table :
                                  g[1] \in KeywordsOf(table[i]) /\ table[i].user = g[2]})
        IN [n \in DOMAIN posts |-> [key |-> g[1], id |-> <<t, posts[n]>>]]]

(* A line of a table's file is read. *)
Read(t, row) ==
  /\ t \notin built /\ Len(rows[t]) < MaxRows[t]
  /\ rows' = [rows EXCEPT ![t] = Append(@, row)]
  /\ UNCHANGED <<built, server, result>>

Construct(t) ==
  /\ t \notin built
  /\ built' = built \cup {t}
  /\ server' = [tset |-> [token \in DOMAIN server.tset \cup DOMAIN TokenSet(rows[t], t) |->
                           IF token \in DOMAIN server.tset THEN server.tset[token]
                           ELSE TokenSet(rows[t], t)[token]],
                cset |-> [server.cset EXCEPT ![t] = CiphertextSet(rows[t], t)]]
  /\ UNCHANGED <<rows, result>>
-----------------------------------------------------------------------------
(* The client's tokens: for entry i of a keyword, what turns it into a key *)
(* of cset 1 and of cset 2.  For table 2 the keyword is the user itself.   *)
EntriesOf(kw) == IF <<kw, 1>> \in DOMAIN server.tset THEN server.tset[<<kw, 1>>] ELSE <<>>
JoinToken1(kw, i) == Xor(Xor(W(kw, 0), W(kw, i)), H)
JoinToken2(kw, u, i) == Xor(Xor(W(UserKey(u), 0), W(kw, i)), H)

Key1(kw, i) == Xor(JoinToken1(kw, i), EntriesOf(kw)[i])
Key2(kw, u, i) == Xor(JoinToken2(kw, u, i), EntriesOf(kw)[i])

(* All keys the server asks the filter of table 2 about. *)
Probes(kws, u) == UNION {{Key2(kw, u, i) : i \in DOMAIN EntriesOf(kw)} : kw \in kws}

GroupsAt(t, key) == IF key \in DOMAIN server.cset[t] THEN <<server.cset[t][key]>> ELSE <<>>

(* What an entry adds to the result, in the search by cubes: each group    *)
(* that is found, although the filter may be wrong;                        *)
GroupsOf(kw, u, i, hits) ==
  IF Key2(kw, u, i) \in DOMAIN server.cset[2] \cup hits
  THEN GroupsAt(1, Key1(kw, i)) \o GroupsAt(2, Key2(kw, u, i)) ELSE <<>>

(* Mutant of PairOf: as the search by cubes does. *)
LoosePairOf(kw, u, i, hits) == GroupsOf(kw, u, i, hits)

(* and in the search by slots: both groups or none.                        *)
PairOf(kw, u, i, hits) ==
  LET g1 == GroupsAt(1, Key1(kw, i))
      g2 == GroupsAt(2, Key2(kw, u, i))
  IN IF Key2(kw, u, i) \in DOMAIN server.cset[2] \cup hits /\ g1 # <<>> /\ g2 # <<>>
     THEN g1 \o g2 ELSE <<>>

(* An interval is a slot and its leaf's tokens: one for each row of the    *)
(* slot, all of them the same.                                             *)
TokensOf(s) == [n \in DOMAIN PostingsOf(rows[1], SlotKey(s)) |-> SlotKey(s)]

(* The answer for one slot, and for one keyword of rows: the server for    *)
(* one keyword at a time (Server_JXTp_for) gives just that, this one       *)
(* strings the answers for all cubes together.                             *)
RangeOf(s, u, hits) ==
  LET OfToken(kw) == FlattenSeq([i \in DOMAIN EntriesOf(kw) |-> PairOf(kw, u, i, hits)])
  IN FlattenSeq([n \in DOMAIN TokensOf(s) |-> OfToken(TokensOf(s)[n])])

StagOf(kw, u, hits) ==
  FlattenSeq([i \in DOMAIN EntriesOf(kw) |-> GroupsOf(kw, u, i, hits)])

ResRange(intervals, u, hits) ==
  FlattenSeq([n \in DOMAIN intervals |-> RangeOf(intervals[n], u, hits)])

ResStag(cubes, u, hits) ==
  FlattenSeq([n \in DOMAIN cubes |-> StagOf(cubes[n], u, hits)])

(* Mutant of QuerySlots: the end of the query cuts every day. *)
QuerySlotsCutDaily(first, last) ==
  {row.slot : row \in {r \in Range(rows[1]) :
     /\ DayOf(r.slot) \in DayOf(first) .. DayOf(last)
     /\ r.slot % SlotsPerDay \in first % SlotsPerDay .. last % SlotsPerDay}}

(* query_sql: the slots it asks the trees of the days for, as far as table *)
(* 1 has rows in them.  Keys are starts of days, and the end of the query  *)
(* is the last second of one: no tree is asked for less than its day's end.*)
QuerySlots(first, last) ==
  {row.slot : row \in {r \in Range(rows[1]) :
     /\ DayOf(r.slot) \in DayOf(first) .. DayOf(last)
     /\ DayOf(r.slot) = DayOf(first) => first <= r.slot}}

(* The trees name those of the slots that have a row in a cube of the      *)
(* query, and maybe others.                                                *)
SlotsIn(cubes, slots) ==
  {row.slot : row \in {r \in Range(rows[1]) : KeywordsOf(r) \cap cubes # {}}} \cap slots

SearchJoin(u, box, time, named, hits) ==
  LET cubes == {CubeKey(c) : c \in QueryCubeCodes(box)}
      intervals == Ascending(named)
      asked == {SlotKey(s) : s \in named} \cup cubes
      slots == QuerySlots(time[1], time[2])
  IN /\ named \subseteq slots /\ SlotsIn(cubes, slots) \subseteq named
     /\ hits \subseteq Probes(asked, u) \ DOMAIN server.cset[2]
     /\ result' = [kind |-> "found", user |-> u, box |-> box, time |-> time,
                   intervals |-> intervals, cubes |-> cubes, hits |-> hits,
                   range |-> ResRange(intervals, u, hits),
                   stag |-> ResStag(SetToSeq(cubes), u, hits)]
     /\ UNCHANGED <<rows, built, server>>

TakeResult ==
  /\ result # NoResult
  /\ result' = NoResult
  /\ UNCHANGED <<rows, built, server>>

Users == {row.user : row \in Row1 \cup Row2}

JoinNext ==
  \/ \E t \in Table : \E row \in (IF t = 1 THEN Row1 ELSE Row2) : Read(t, row)
  \/ \E t \in Table : Construct(t)
  \/ /\ built = Table /\ result = NoResult
     /\ \E u \in Users, box \in Box, time \in Times :
          \E named \in SUBSET QuerySlots(time[1], time[2]) :
            \E hits \in SUBSET (Probes({SlotKey(s) : s \in named}
                                  \cup {CubeKey(c) : c \in QueryCubeCodes(box)}, u)
                                \ DOMAIN server.cset[2]) :
              SearchJoin(u, box, time, named, hits)
  \/ TakeResult

JoinSpec == JoinInit /\ [][JoinNext]_joinVars
-----------------------------------------------------------------------------
(* The client's reading of a result.  Pairs of a keyword and a ciphertext  *)
(* in `wrong` are those whose key happens to leave a correct padding.      *)

Garbage == <<0, 0>>

Decrypts(kw, c, wrong) == c.key = kw \/ <<kw, c>> \in wrong

(* Keys are tried in turn, and the first that decrypts is believed. *)
Decrypt(keys, c, wrong) ==
  {IF c.key = keys[n] THEN c.id ELSE Garbage :
     n \in {m \in DOMAIN keys : /\ Decrypts(keys[m], c, wrong)
                                /\ \A l \in 1 .. m - 1 : ~Decrypts(keys[l], c, wrong)}}

Decrypted(group, keys, wrong) == UNION {Decrypt(keys, group[n], wrong) : n \in DOMAIN group}

(* Groups in turn from table 1 and table 2, and entry i (counted from 0)   *)
(* is taken for one of interval i / 2: right as long as each interval has  *)
(* given one pair.                                                         *)
KeyAt(n) ==
  IF n % 2 = 1 THEN SlotKey(result.intervals[(n + 1) \div 2]) ELSE UserKey(result.user)

EntriesRead == {n \in DOMAIN result.range : (n + 1) \div 2 <= Len(result.intervals)}

(* Mutant of ReadRange: entry i is taken for one of interval i. *)
ReadRangeByEntry(wrong) ==
  UNION {Decrypted(result.range[n],
                   <<IF n % 2 = 1 THEN SlotKey(result.intervals[n]) ELSE UserKey(result.user)>>, wrong) :
           n \in {m \in DOMAIN result.range : m <= Len(result.intervals)}}

ReadRange(wrong) ==
  UNION {Decrypted(result.range[n], <<KeyAt(n)>>, wrong) : n \in EntriesRead}

(* Mutant of KeysAt: one key is tried, as for an interval. *)
KeysAtFirst(n) ==
  IF n % 2 = 1 THEN SubSeq(SetToSeq({kw \in result.cubes : EntriesOf(kw) # <<>>}), 1, 1)
  ELSE <<UserKey(result.user)>>

(* Groups in turn from table 1, under one of the cubes that have entries,  *)
(* and from table 2.                                                       *)
KeysAt(n) ==
  IF n % 2 = 1 THEN SetToSeq({kw \in result.cubes : EntriesOf(kw) # <<>>})
  ELSE <<UserKey(result.user)>>

ReadStag(wrong) ==
  UNION {Decrypted(result.stag[n], KeysAt(n), wrong) : n \in DOMAIN result.stag}

(* Which keys might decrypt what they should not. *)
Misfits(keys, group) == {pair \in Range(keys) \X Range(group) : pair[1] # pair[2].key}

WrongKeys ==
  LET misfits == UNION ({Misfits(<<KeyAt(n)>>, result.range[n]) : n \in EntriesRead}
                        \cup {Misfits(KeysAt(n), result.stag[n]) : n \in DOMAIN result.stag})
  IN {{}} \cup {Range(f) : f \in [1 .. MaxWrong -> misfits]}
-----------------------------------------------------------------------------
IdsIn(group) == {group[n].id : n \in DOMAIN group}
UserRows(t) == {<<t, i>> : i \in {j \in DOMAIN rows[t] : rows[t][j].user = result.user}}
FiledUnder(kws) == {x \in UserRows(1) : KeywordsOf(rows[1][x[2]]) \cap kws # {}}
Joined(ids) == IF UserRows(2) = {} THEN {} ELSE ids

(* The server's answer by slots is exact whatever the filter says: groups  *)
(* of the two tables in turn, together the joined rows of the slots, with  *)
(* all partners in table 2.  The slots hold every row of the query's cubes *)
(* and times and none before its start or after its last day.  The answer  *)
(* by cubes has every joined row and, unless the filter was wrong, no      *)
(* other row.                                                              *)
JoinAnswersAreExact ==
  result.kind = "found" =>
    LET slots == {SlotKey(result.intervals[n]) : n \in DOMAIN result.intervals}
        odd == {n \in DOMAIN result.range : n % 2 = 1}
        byslots == UNION {IdsIn(result.range[n]) : n \in odd}
        first == (UNION {IdsIn(result.stag[n]) : n \in DOMAIN result.stag}) \cap ({1} \X Nat)
        SlotOf(x) == rows[1][x[2]].slot
    IN /\ Len(result.range) % 2 = 0
       /\ byslots = Joined(FiledUnder(slots))
       /\ \A n \in odd : IdsIn(result.range[n + 1]) = UserRows(2)
       /\ \A x \in Joined(FiledUnder(result.cubes)) :
            result.time[1] <= SlotOf(x) /\ SlotOf(x) <= result.time[2] => x \in byslots
       /\ \A x \in byslots : /\ result.time[1] <= SlotOf(x)
                              /\ DayOf(SlotOf(x)) <= DayOf(result.time[2])
       /\ Joined(FiledUnder(result.cubes)) \subseteq first
       /\ result.hits = {} => first = Joined(FiledUnder(result.cubes))

InBox(point) ==
  \A a \in Coord : result.box[a][1] <= point[a] /\ point[a] < result.box[a][2]

MeetsDomain(box) == \A a \in Coord : box[a][1] < Width /\ 0 < box[a][2]
HoldsDomain(box) == \A a \in Coord : box[a][1] <= 0 /\ Width <= box[a][2]

(* What a query by cubes asks for: the cubes of the last level that the    *)
(* box meets, but nothing if it holds the whole domain, and of the corners *)
(* of the domain those whose quarter lies in the box.                      *)
Reached(point) ==
  /\ ~HoldsDomain(result.box)
  /\ IF IsCorner(point) /\ Levels > 1 THEN Inside(CubeAt(1, point), result.box)
     ELSE Meets(CubeAt(Levels, point), result.box)

(* Unless the filter was wrong, what the client reads from the answer by   *)
(* cubes are the joined rows the query reaches and all their partners.  A  *)
(* row may be lost, but only for garbage that a key of another cube made   *)
(* of it.  Rows in the box are reached; its upper faces do not belong to   *)
(* it, and corners of the domain or boxes that hold it or lie beside it    *)
(* are the exceptions.  A wrong filter may show rows of other users, which *)
(* are filed under the query's cubes.  From the answer by slots the client *)
(* reads everything if each slot gave one pair.                            *)
ClientReadsTheBox ==
  result.kind = "found" =>
    LET joined == Joined(UserRows(1))
        reached == {x \in joined : Reached(rows[1][x[2]].point)}
        filed == {<<1, i>> : i \in {j \in DOMAIN rows[1] : KeywordsOf(rows[1][j]) \cap result.cubes # {}}}
    IN /\ \A x \in joined :
            LET p == rows[1][x[2]].point
            IN InBox(p) /\ ~IsCorner(p) /\ MeetsDomain(result.box) /\ ~HoldsDomain(result.box)
               => x \in reached
       /\ \A wrong \in WrongKeys :
            LET read == ReadStag(wrong)
            IN /\ read \subseteq filed \cup UserRows(2) \cup {Garbage}
               /\ result.hits = {} =>
                    /\ read \subseteq reached \cup {Garbage} \cup (IF reached = {} THEN {} ELSE UserRows(2))
                    /\ reached # {} => UserRows(2) \subseteq read
                    /\ \A x \in reached \ read :
                         Garbage \in read /\ \E pair \in wrong : pair[2].id = x
               /\ (\A n \in DOMAIN result.intervals :
                      Len(RangeOf(result.intervals[n], result.user, result.hits)) = 2)
                    => ReadRange(wrong) = UNION {IdsIn(result.range[n]) : n \in DOMAIN result.range}
=============================================================================

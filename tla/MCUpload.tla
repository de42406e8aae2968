------------------------------ MODULE MCUpload ------------------------------
EXTENDS Upload

Header(name, type, size) ==
  [kind |-> "header", name |-> name, type |-> type, size |-> size]

TarBlocks ==
  {Header("good", "file", 0), Header("good", "file", 3), Header("good", "file", 4),
   Header("bad", "file", 0), Header("empty", "file", 2), Header("bad", "x", 1),
   Header("good", "file", 100)}
  \cup [kind : {"data", "nested", "zero"}]

(* Tar files of one header and up to two blocks more, and some longer.     *)
SmallTars == {s \in SeqOf(TarBlocks, 3) : s # <<>>}

Data == [kind |-> "data"]

LongTars ==
  {<<Header("bad", "x", 1), Data, Header("good", "file", 3), Data, Data>>,
   <<Header("good", "file", 0), Header("good", "file", 0), Header("good", "file", 0)>>,
   <<Header("good", "file", 4), Data, Data, [kind |-> "zero"], Data>>,
   <<Header("good", "file", 4), Data, Data, Header("good", "file", 4), Data>>}

(* A stream of two bytes with room for four in the file.                   *)
Locals ==
  [kind : {"local"}, holds : {0, 1, 3, 9}, intact : BOOLEAN, length : {2}, room : {4}]

Centrals ==
  [kind : {"central"}, name : {"good", "bad"}, size : {0, 3, 5}, packed : {0, 1, 3, 5},
   method : {"stored", "deflated", "other"}, local : {1, 9}]

End(first, count, listed) ==
  [kind |-> "end", first |-> first, count |-> count, total |-> listed]

(* Zip files of one entry, and some of two that share what they unpack to. *)
Zips ==
  {<<l, c, End(2, 1, 1)>> : l \in Locals, c \in Centrals}
  \cup {<<l, c, c, e>> :
          l \in [kind : {"local"}, holds : {3, 5}, intact : {TRUE}, length : {2}, room : {4}],
          c \in [kind : {"central"}, name : {"good"}, size : {3, 5}, packed : {3},
                 method : {"deflated"}, local : {1}],
          e \in {End(2, 2, 2), End(2, 2, 1), End(2, 1, 2), End(2, 3, 3),
                 End(2, 5, 2)}}

(* Its chunks take this one over the limit that it keeps itself.           *)
Largest == [k \in 1 .. 6 |-> Data]

MCContents == SmallTars \cup LongTars \cup Zips \cup {<<>>, Largest}
MCBlocks == UNION {ToSet(c) : c \in MCContents}
=============================================================================

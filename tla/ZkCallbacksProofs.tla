-------------------------- MODULE ZkCallbacksProofs --------------------------
(***************************************************************************)
(* The table of callbacks keeps its order, for any number of objects,      *)
(* handles and cells.                                                      *)
(***************************************************************************)
EXTENDS ZkCallbacks, FiniteSetTheorems, SequenceTheorems, TLAPS

-----------------------------------------------------------------------------
(* A registry by itself, whichever state it is in *)

(* The fields of a registry; its table is a function into the cells.       *)
RegType(r) ==
  /\ DOMAIN r = {"table", "next", "cells", "broken"}
  /\ r.cells \in Seq(CbData)
  /\ r.next \in Nat /\ r.broken \in BOOLEAN
  /\ r.table \in [DOMAIN r.table -> DOMAIN r.cells]
  /\ DOMAIN r.table \subseteq 0..(r.next - 1)

(* A cell is in at most one slot.                                          *)
Once(r) == \A i, j \in DOMAIN r.table : r.table[i] = r.table[j] => i = j

(* A cell that is not freed is in a slot.                                  *)
Kept(r) ==
  ~r.broken => \A c \in DOMAIN r.cells :
                 ~Freed(r, c) => \E i \in DOMAIN r.table : r.table[i] = c

(* The index h of a cell is behind its slot, by no more than there are     *)
(* empty slots.                                                            *)
LagAt(r, i) == i - r.cells[r.table[i]].h

Lag(r) == \A i \in DOMAIN r.table : LagAt(r, i) \in 0..Holes(r)

(* TableIsLive of a registry.                                              *)
Live(r) ==
  \A i \in DOMAIN r.table : Freed(r, r.table[i]) => r.cells[r.table[i]].refused

RegInv(r) == RegType(r) /\ Once(r) /\ Kept(r) /\ Lag(r) /\ Live(r)

-----------------------------------------------------------------------------
(* What the operations do to the fields *)

LEMMA SlotsFinite ==
  ASSUME NEW r, RegType(r)
  PROVE  IsFiniteSet(DOMAIN r.table) /\ Cardinality(DOMAIN r.table) \in Nat
<1>1. r.next - 1 \in Int
  BY DEF RegType
<1>2. IsFiniteSet(0..(r.next - 1))
  BY <1>1, FS_Interval
<1>3. DOMAIN r.table \in SUBSET (0..(r.next - 1))
  BY DEF RegType
<1>4. IsFiniteSet(DOMAIN r.table)
  BY <1>2, <1>3, FS_Subset
<1> QED  BY <1>4, FS_CardinalityType

LEMMA CellsDomain ==
  ASSUME NEW r, RegType(r)
  PROVE  DOMAIN r.cells = 1..Len(r.cells) /\ Len(r.cells) \in Nat
BY LenProperties DEF RegType

LEMMA CellBooleans ==
  ASSUME NEW r, RegType(r), NEW d \in DOMAIN r.cells
  PROVE  /\ r.cells[d].freed \in BOOLEAN /\ r.cells[d].refused \in BOOLEAN
         /\ r.cells[d].h \in Nat
<1>1. r.cells \in Seq(CbData) /\ d \in 1..Len(r.cells)
  BY CellsDomain DEF RegType
<1>2. r.cells[d] \in CbData
  BY <1>1, ElementOfSeq
<1> QED  BY <1>2 DEF CbData

LEMMA BreakFields ==
  ASSUME NEW r, RegType(r)
  PROVE  /\ RegType(Break(r))
         /\ Break(r).table = r.table /\ Break(r).next = r.next
         /\ Break(r).cells = r.cells /\ Break(r).broken = TRUE
<1> DEFINE q == Break(r)
<1>1. /\ q.table = r.table /\ q.next = r.next
      /\ q.cells = r.cells /\ q.broken = TRUE
  BY DEF RegType, Break
<1>2. DOMAIN q = DOMAIN r
  BY DEF RegType, Break
<1> HIDE DEF q
<1> QED  BY <1>1, <1>2 DEF RegType, q

(* efree of cell c marks it and nothing else.                              *)
LEMMA EfreeFields ==
  ASSUME NEW r, RegType(r), NEW c \in DOMAIN r.cells
  PROVE  LET q == [r EXCEPT !.cells[c].freed = TRUE] IN
         /\ RegType(q)
         /\ q.table = r.table /\ q.next = r.next /\ q.broken = r.broken
         /\ DOMAIN q.cells = DOMAIN r.cells /\ Len(q.cells) = Len(r.cells)
         /\ \A d \in DOMAIN r.cells :
              /\ q.cells[d].h = r.cells[d].h
              /\ q.cells[d].refused = r.cells[d].refused
              /\ q.cells[d].freed = (d = c \/ r.cells[d].freed)
<1> DEFINE q == [r EXCEPT !.cells[c].freed = TRUE]
           e == [r.cells[c] EXCEPT !.freed = TRUE]
           s == [r.cells EXCEPT ![c] = e]
<1>1. r.cells \in Seq(CbData) /\ c \in 1..Len(r.cells)
  BY CellsDomain DEF RegType
<1>2. r.cells[c] \in CbData
  BY <1>1, ElementOfSeq
<1>3. /\ e \in CbData /\ e.h = r.cells[c].h
      /\ e.refused = r.cells[c].refused /\ e.freed = TRUE
  BY <1>2 DEF CbData
<1>4. /\ DOMAIN q = DOMAIN r /\ q.cells = s
      /\ q.table = r.table /\ q.next = r.next /\ q.broken = r.broken
  BY DEF RegType
<1> HIDE DEF e
<1>5. /\ s \in Seq(CbData) /\ Len(s) = Len(r.cells)
      /\ \A j \in 1..Len(r.cells) : s[j] = IF j = c THEN e ELSE r.cells[j]
  BY <1>1, <1>3, ExceptSeq
<1>6. DOMAIN s = DOMAIN r.cells
  BY DEF RegType
<1> HIDE DEF q, s
<1>8. RegType(q)
  BY <1>4, <1>5, <1>6 DEF RegType
<1>9. ASSUME NEW d \in DOMAIN r.cells
      PROVE  /\ s[d].h = r.cells[d].h
             /\ s[d].refused = r.cells[d].refused
             /\ s[d].freed = (d = c \/ r.cells[d].freed)
  <2>1. d \in 1..Len(r.cells) /\ r.cells[d] \in CbData
    BY <1>1, CellsDomain, ElementOfSeq
  <2>2. r.cells[d].freed \in BOOLEAN
    BY <2>1 DEF CbData
  <2>3. CASE d = c
    BY <1>3, <1>5, <2>1, <2>3
  <2>4. CASE d # c
    BY <1>5, <2>1, <2>2, <2>4
  <2> QED  BY <2>3, <2>4
<1> QED  BY <1>4, <1>5, <1>6, <1>8, <1>9 DEF q

(* A failed call marks its cell.                                           *)
LEMMA RefuseFields ==
  ASSUME NEW r, RegType(r), NEW c \in DOMAIN r.cells
  PROVE  LET q == [r EXCEPT !.cells[c].refused = TRUE] IN
         /\ RegType(q)
         /\ q.table = r.table /\ q.next = r.next /\ q.broken = r.broken
         /\ DOMAIN q.cells = DOMAIN r.cells /\ Len(q.cells) = Len(r.cells)
         /\ \A d \in DOMAIN r.cells :
              /\ q.cells[d].h = r.cells[d].h
              /\ q.cells[d].refused = (d = c \/ r.cells[d].refused)
              /\ q.cells[d].freed = r.cells[d].freed
<1> DEFINE q == [r EXCEPT !.cells[c].refused = TRUE]
           e == [r.cells[c] EXCEPT !.refused = TRUE]
           s == [r.cells EXCEPT ![c] = e]
<1>1. r.cells \in Seq(CbData) /\ c \in 1..Len(r.cells)
  BY CellsDomain DEF RegType
<1>2. r.cells[c] \in CbData
  BY <1>1, ElementOfSeq
<1>3. /\ e \in CbData /\ e.h = r.cells[c].h
      /\ e.freed = r.cells[c].freed /\ e.refused = TRUE
  BY <1>2 DEF CbData
<1>4. /\ DOMAIN q = DOMAIN r /\ q.cells = s
      /\ q.table = r.table /\ q.next = r.next /\ q.broken = r.broken
  BY DEF RegType
<1> HIDE DEF e
<1>5. /\ s \in Seq(CbData) /\ Len(s) = Len(r.cells)
      /\ \A j \in 1..Len(r.cells) : s[j] = IF j = c THEN e ELSE r.cells[j]
  BY <1>1, <1>3, ExceptSeq
<1>6. DOMAIN s = DOMAIN r.cells
  BY DEF RegType
<1> HIDE DEF q, s
<1>7. RegType(q)
  BY <1>4, <1>5, <1>6 DEF RegType
<1>8. ASSUME NEW d \in DOMAIN r.cells
      PROVE  /\ s[d].h = r.cells[d].h
             /\ s[d].refused = (d = c \/ r.cells[d].refused)
             /\ s[d].freed = r.cells[d].freed
  <2>1. d \in 1..Len(r.cells) /\ r.cells[d] \in CbData
    BY <1>1, CellsDomain, ElementOfSeq
  <2>2. r.cells[d].refused \in BOOLEAN
    BY <2>1 DEF CbData
  <2>3. CASE d = c
    BY <1>3, <1>5, <2>1, <2>3
  <2>4. CASE d # c
    BY <1>5, <2>1, <2>2, <2>4
  <2> QED  BY <2>3, <2>4
<1> QED  BY <1>4, <1>5, <1>6, <1>7, <1>8 DEF q

(* zend_hash_index_del empties slot i.                                     *)
LEMMA UnslotFields ==
  ASSUME NEW r, RegType(r), NEW i \in DOMAIN r.table
  PROVE  LET q == [r EXCEPT !.table = Restrict(@, DOMAIN @ \ {i})] IN
         /\ RegType(q)
         /\ q.cells = r.cells /\ q.next = r.next /\ q.broken = r.broken
         /\ DOMAIN q.table = DOMAIN r.table \ {i}
         /\ \A j \in DOMAIN q.table : q.table[j] = r.table[j]
         /\ Cardinality(DOMAIN q.table) = Cardinality(DOMAIN r.table) - 1
<1> DEFINE q == [r EXCEPT !.table = Restrict(@, DOMAIN @ \ {i})]
           t == Restrict(r.table, DOMAIN r.table \ {i})
<1>1. /\ DOMAIN q = DOMAIN r /\ q.table = t
      /\ q.cells = r.cells /\ q.next = r.next /\ q.broken = r.broken
  BY DEF RegType
<1>2. DOMAIN t = DOMAIN r.table \ {i} /\ \A j \in DOMAIN t : t[j] = r.table[j]
  BY DEF Restrict
<1>3. t \in [DOMAIN t -> DOMAIN r.cells]
  BY DEF Restrict, RegType
<1> HIDE DEF t
<1>4. Cardinality(DOMAIN t) = Cardinality(DOMAIN r.table) - 1
  BY <1>2, SlotsFinite, FS_RemoveElement
<1> HIDE DEF q
<1>5. RegType(q)
  BY <1>1, <1>2, <1>3 DEF RegType
<1> QED  BY <1>1, <1>2, <1>4, <1>5 DEF q

(* php_cb_data_new takes the next slot for the next cell.                  *)
LEMMA NewFields ==
  ASSUME NEW r, RegType(r), NEW oneshot \in BOOLEAN
  PROVE  LET q == php_cb_data_new(r, oneshot) IN
         /\ RegType(q)
         /\ q.next = r.next + 1 /\ q.broken = r.broken
         /\ DOMAIN q.cells = DOMAIN r.cells \cup {NewCell(r)}
         /\ Len(q.cells) = Len(r.cells) + 1
         /\ \A d \in DOMAIN r.cells : q.cells[d] = r.cells[d]
         /\ q.cells[NewCell(r)] = [oneshot |-> oneshot, h |-> Cardinality(DOMAIN r.table),
                                   freed |-> FALSE, refused |-> FALSE]
         /\ DOMAIN q.table = DOMAIN r.table \cup {r.next}
         /\ q.table[r.next] = NewCell(r)
         /\ \A j \in DOMAIN r.table : j # r.next /\ q.table[j] = r.table[j]
         /\ Cardinality(DOMAIN q.table) = Cardinality(DOMAIN r.table) + 1
<1> DEFINE q == php_cb_data_new(r, oneshot)
           e == [oneshot |-> oneshot, h |-> Cardinality(DOMAIN r.table),
                 freed |-> FALSE, refused |-> FALSE]
           s == Append(r.cells, e)
           t == [i \in DOMAIN r.table \cup {r.next} |->
                   IF i = r.next THEN NewCell(r) ELSE r.table[i]]
<1>1. /\ DOMAIN q = {"table", "next", "cells", "broken"} /\ q.table = t
      /\ q.cells = s /\ q.next = r.next + 1 /\ q.broken = r.broken
  BY DEF php_cb_data_new, Index
<1>2. e \in CbData
  BY SlotsFinite DEF CbData
<1>3. r.cells \in Seq(CbData) /\ r.next \in Nat /\ r.broken \in BOOLEAN
  BY DEF RegType
<1> HIDE DEF e
<1>4. /\ s \in Seq(CbData) /\ Len(s) = Len(r.cells) + 1
      /\ \A j \in 1..Len(r.cells) : s[j] = r.cells[j]
      /\ s[NewCell(r)] = e
  BY <1>2, <1>3, AppendProperties DEF NewCell
<1>5. DOMAIN r.cells = 1..Len(r.cells) /\ Len(r.cells) \in Nat
  BY CellsDomain
<1>6. DOMAIN s = 1..Len(s)
  BY <1>4, LenProperties
<1> HIDE DEF s
<1>7. DOMAIN s = DOMAIN r.cells \cup {NewCell(r)}
  BY <1>4, <1>5, <1>6 DEF NewCell
<1>8. r.next \notin DOMAIN r.table
  BY <1>3 DEF RegType
<1>9. /\ DOMAIN t = DOMAIN r.table \cup {r.next} /\ t[r.next] = NewCell(r)
      /\ \A j \in DOMAIN r.table : j # r.next /\ t[j] = r.table[j]
  BY <1>8
<1>10. t \in [DOMAIN t -> DOMAIN s]
  BY <1>7 DEF RegType
<1>11. DOMAIN t \subseteq 0..((r.next + 1) - 1)
  BY <1>3 DEF RegType
<1> HIDE DEF t
<1>12. Cardinality(DOMAIN t) = Cardinality(DOMAIN r.table) + 1
  BY <1>8, <1>9, SlotsFinite, FS_AddElement
<1> HIDE DEF q
<1>13. RegType(q)
  BY <1>1, <1>3, <1>4, <1>9, <1>10, <1>11 DEF RegType
<1> QED  BY <1>1, <1>4, <1>5, <1>7, <1>9, <1>12, <1>13 DEF q, e

(* zend_hash_clean frees what is in the table.                             *)
LEMMA CleanFields ==
  ASSUME NEW r, RegType(r)
  PROVE  LET q == zend_hash_clean(r) IN
         /\ RegType(q)
         /\ DOMAIN q.table = {}
         /\ DOMAIN q.cells = DOMAIN r.cells /\ Len(q.cells) = Len(r.cells)
         /\ \A d \in DOMAIN r.cells :
              q.cells[d].freed = (r.cells[d].freed \/ d \in Range(r.table))
<1> DEFINE q == zend_hash_clean(r)
           gone == Range(r.table)
           s == [c \in DOMAIN r.cells |-> [r.cells[c] EXCEPT !.freed = @ \/ c \in gone]]
<1>1. /\ DOMAIN q = {"table", "next", "cells", "broken"} /\ q.next = 0 /\ q.cells = s
      /\ DOMAIN q.table = {} /\ q.broken \in BOOLEAN
  BY DEF zend_hash_clean
<1>t. q.table \in [DOMAIN q.table -> DOMAIN q.cells]
  BY DEF zend_hash_clean
<1>2. r.cells \in Seq(CbData) /\ DOMAIN r.cells = 1..Len(r.cells) /\ Len(r.cells) \in Nat
  BY CellsDomain DEF RegType
<1>3. ASSUME NEW d \in DOMAIN r.cells
      PROVE  s[d] \in CbData /\ s[d].freed = (r.cells[d].freed \/ d \in gone)
  <2>1. r.cells[d] \in CbData
    BY <1>2, ElementOfSeq
  <2> HIDE DEF gone
  <2> QED  BY <2>1 DEF CbData
<1>4. DOMAIN s = 1..Len(r.cells)
  BY <1>2
<1>5. s \in [1..Len(r.cells) -> CbData]
  BY <1>2, <1>3, <1>4
<1> HIDE DEF s
<1>6. s \in Seq(CbData) /\ Len(s) = Len(r.cells)
  BY <1>2, <1>4, <1>5, SeqDef
<1> HIDE DEF q
<1>7. RegType(q)
  BY <1>1, <1>t, <1>6 DEF RegType
<1> QED  BY <1>1, <1>2, <1>3, <1>4, <1>6, <1>7 DEF q

-----------------------------------------------------------------------------
(* The operations keep the order of the registry *)

LEMMA BreakInv ==
  ASSUME NEW r, RegInv(r)
  PROVE  RegInv(Break(r)) /\ Break(r).cells = r.cells
<1> DEFINE q == Break(r)
<1>1. /\ RegType(q) /\ q.table = r.table /\ q.next = r.next
      /\ q.cells = r.cells /\ q.broken = TRUE
  BY BreakFields DEF RegInv
<1> HIDE DEF q
<1>2. Once(q) /\ Kept(q) /\ Lag(q) /\ Live(q)
  BY <1>1 DEF RegInv, Once, Kept, Lag, LagAt, Holes, Live, Freed
<1> QED  BY <1>1, <1>2 DEF RegInv, q

LEMMA NewInv ==
  ASSUME NEW r, RegInv(r), NEW oneshot \in BOOLEAN
  PROVE  /\ RegInv(php_cb_data_new(r, oneshot))
         /\ Len(php_cb_data_new(r, oneshot).cells) = Len(r.cells) + 1
<1> DEFINE q == php_cb_data_new(r, oneshot)
<1>1. /\ RegType(q) /\ q.next = r.next + 1 /\ q.broken = r.broken
      /\ Len(q.cells) = Len(r.cells) + 1
      /\ DOMAIN q.cells = DOMAIN r.cells \cup {NewCell(r)}
      /\ \A d \in DOMAIN r.cells : q.cells[d] = r.cells[d]
      /\ q.cells[NewCell(r)] = [oneshot |-> oneshot, h |-> Cardinality(DOMAIN r.table),
                                freed |-> FALSE, refused |-> FALSE]
      /\ DOMAIN q.table = DOMAIN r.table \cup {r.next}
      /\ q.table[r.next] = NewCell(r)
      /\ \A j \in DOMAIN r.table : j # r.next /\ q.table[j] = r.table[j]
      /\ Cardinality(DOMAIN q.table) = Cardinality(DOMAIN r.table) + 1
  BY NewFields DEF RegInv
<1> HIDE DEF q
<1>2. r.next \in Nat /\ Cardinality(DOMAIN r.table) \in Nat
  BY SlotsFinite DEF RegInv, RegType
<1>3. \A j \in DOMAIN r.table : r.table[j] \in DOMAIN r.cells /\ j \in 0..(r.next - 1)
  BY DEF RegInv, RegType
<1>4. NewCell(r) \notin DOMAIN r.cells
  BY CellsDomain DEF RegInv, NewCell
<1>5. Once(q)
  BY <1>1, <1>3, <1>4 DEF RegInv, Once
<1>6. Kept(q)
  BY <1>1 DEF RegInv, Kept, Freed
<1>7. LagAt(q, r.next) = r.next - Cardinality(DOMAIN r.table)
  BY <1>1 DEF LagAt
<1>8. \A j \in DOMAIN r.table : LagAt(q, j) = LagAt(r, j)
  BY <1>1, <1>3 DEF LagAt
<1>9. Lag(q)
  <2> SUFFICES ASSUME NEW i \in DOMAIN q.table
               PROVE  LagAt(q, i) \in 0..(q.next - Cardinality(DOMAIN q.table))
    BY DEF Lag, Holes
  <2>1. q.next - Cardinality(DOMAIN q.table) = r.next - Cardinality(DOMAIN r.table)
    <3>1. q.next = r.next + 1 /\ Cardinality(DOMAIN q.table) = Cardinality(DOMAIN r.table) + 1
      BY <1>1
    <3> QED  BY <1>2, <3>1
  <2>2. r.next - Cardinality(DOMAIN r.table) \in Nat
    <3>1. DOMAIN r.table \in SUBSET (0..(r.next - 1)) /\ r.next - 1 \in Int
      BY <1>2, <1>3
    <3>2. IsFiniteSet(0..(r.next - 1)) /\ Cardinality(0..(r.next - 1)) = r.next
      <4>1. ASSUME NEW m \in Int, m >= -1
            PROVE  IsFiniteSet(0..m) /\ Cardinality(0..m) = m + 1
        <5>1. IsFiniteSet(0..m) /\ Cardinality(0..m) = IF 0 > m THEN 0 ELSE m - 0 + 1
          BY FS_Interval
        <5> QED  BY <4>1, <5>1
      <4>2. r.next - 1 >= -1 /\ (r.next - 1) + 1 = r.next
        BY <1>2
      <4> QED  BY <3>1, <4>1, <4>2
    <3>3. Cardinality(DOMAIN r.table) <= r.next
      BY <3>1, <3>2, FS_Subset
    <3> QED  BY <1>2, <3>3
  <2>3. \A j \in DOMAIN r.table :
          LagAt(r, j) \in 0..(r.next - Cardinality(DOMAIN r.table))
    BY DEF RegInv, Lag, Holes
  <2>4. CASE i = r.next
    BY <1>1, <1>2, <1>3, <1>7, <2>1, <2>2, <2>4
  <2>5. CASE i \in DOMAIN r.table
    BY <1>8, <2>1, <2>3, <2>5
  <2> QED  BY <1>1, <2>4, <2>5
<1>10. Live(q)
  BY <1>1, <1>3 DEF RegInv, Live, Freed
<1> QED  BY <1>1, <1>5, <1>6, <1>9, <1>10 DEF RegInv, q

(* The new cell of a call that failed: freed, and still in its slot.       *)
LEMMA RefusedInv ==
  ASSUME NEW r, RegInv(r)
  PROVE  LET n == php_cb_data_new(r, TRUE)
             q == [php_cb_data_destroy(n, NewCell(r)) EXCEPT !.cells[NewCell(r)].refused = TRUE]
         IN  RegInv(q) /\ Len(q.cells) = Len(r.cells) + 1
<1> DEFINE c == NewCell(r)
           n == php_cb_data_new(r, TRUE)
           f == [n EXCEPT !.cells[c].freed = TRUE]
           q == [f EXCEPT !.cells[c].refused = TRUE]
<1>1. RegInv(n)
  BY NewInv
<1>2. /\ c \in DOMAIN n.cells /\ n.cells[c].freed = FALSE
      /\ Len(n.cells) = Len(r.cells) + 1
  <2>1. /\ DOMAIN n.cells = DOMAIN r.cells \cup {NewCell(r)}
        /\ Len(n.cells) = Len(r.cells) + 1
        /\ n.cells[NewCell(r)] = [oneshot |-> TRUE, h |-> Cardinality(DOMAIN r.table),
                                  freed |-> FALSE, refused |-> FALSE]
    BY NewFields DEF RegInv
  <2> HIDE DEF n
  <2> QED  BY <2>1
<1>3. php_cb_data_destroy(n, c) = f
  BY <1>2 DEF php_cb_data_destroy, Freed
<1> HIDE DEF n, c
<1>4. /\ RegType(f) /\ f.table = n.table /\ f.next = n.next /\ f.broken = n.broken
      /\ DOMAIN f.cells = DOMAIN n.cells /\ Len(f.cells) = Len(n.cells)
      /\ \A d \in DOMAIN n.cells :
           /\ f.cells[d].h = n.cells[d].h
           /\ f.cells[d].refused = n.cells[d].refused
           /\ f.cells[d].freed = (d = c \/ n.cells[d].freed)
  BY <1>1, <1>2, EfreeFields DEF RegInv
<1> HIDE DEF f
<1>c. c \in DOMAIN f.cells
  BY <1>2, <1>4
<1>5. /\ RegType(q) /\ q.table = f.table /\ q.next = f.next /\ q.broken = f.broken
      /\ DOMAIN q.cells = DOMAIN f.cells /\ Len(q.cells) = Len(f.cells)
      /\ \A d \in DOMAIN f.cells :
           /\ q.cells[d].h = f.cells[d].h
           /\ q.cells[d].refused = (d = c \/ f.cells[d].refused)
           /\ q.cells[d].freed = f.cells[d].freed
  BY <1>c, <1>4, RefuseFields
<1> HIDE DEF q
<1>6. \A j \in DOMAIN n.table : n.table[j] \in DOMAIN n.cells
  BY <1>1 DEF RegInv, RegType
<1>b. \A d \in DOMAIN n.cells : n.cells[d].freed \in BOOLEAN /\ n.cells[d].refused \in BOOLEAN
  BY <1>1, CellBooleans DEF RegInv
<1>7. Once(q) /\ Kept(q)
  <2>1. Once(q)
    BY <1>1, <1>4, <1>5 DEF RegInv, Once
  <2>2. \A d \in DOMAIN n.cells : ~q.cells[d].freed => ~n.cells[d].freed
    BY <1>4, <1>5, <1>b
  <2>3. Kept(q)
    BY <1>1, <1>4, <1>5, <2>2 DEF RegInv, Kept, Freed
  <2> QED  BY <2>1, <2>3
<1>8. Lag(q)
  BY <1>1, <1>4, <1>5, <1>6 DEF RegInv, Lag, LagAt, Holes
<1>9. Live(q)
  <2>1. \A d \in DOMAIN n.cells :
          (n.cells[d].freed => n.cells[d].refused) => (q.cells[d].freed => q.cells[d].refused)
    BY <1>4, <1>5, <1>b
  <2> QED  BY <1>1, <1>4, <1>5, <1>6, <2>1 DEF RegInv, Live, Freed
<1>10. RegInv(q) /\ Len(q.cells) = Len(r.cells) + 1
  BY <1>2, <1>4, <1>5, <1>7, <1>8, <1>9 DEF RegInv
<1> QED  BY <1>3, <1>10 DEF c, n, f, q

(* A slot is emptied and its cell freed, or the process breaks.            *)
LEMMA DelInv ==
  ASSUME NEW r, RegInv(r), NEW i
  PROVE  RegInv(zend_hash_index_del(r, i)) /\ Len(zend_hash_index_del(r, i).cells) = Len(r.cells)
<1>1. CASE i \notin DOMAIN r.table
  BY <1>1 DEF zend_hash_index_del
<1>2. CASE i \in DOMAIN r.table
  <2> DEFINE c == r.table[i]
             u == [r EXCEPT !.table = Restrict(@, DOMAIN @ \ {i})]
             q == php_cb_data_destroy(u, c)
  <2>1. zend_hash_index_del(r, i) = q
    BY <1>2 DEF zend_hash_index_del
  <2>2. /\ RegType(u) /\ u.cells = r.cells /\ u.next = r.next /\ u.broken = r.broken
        /\ DOMAIN u.table = DOMAIN r.table \ {i}
        /\ \A j \in DOMAIN u.table : u.table[j] = r.table[j]
        /\ Cardinality(DOMAIN u.table) = Cardinality(DOMAIN r.table) - 1
    BY <1>2, UnslotFields DEF RegInv
  <2> HIDE DEF u
  <2>b. \A d \in DOMAIN r.cells : r.cells[d].freed \in BOOLEAN
    BY CellBooleans DEF RegInv
  <2>3. /\ c \in DOMAIN r.cells /\ \A j \in DOMAIN r.table : r.table[j] \in DOMAIN r.cells
        /\ \A j \in DOMAIN u.table : u.table[j] # c
    BY <1>2, <2>2 DEF RegInv, RegType, Once
  <2> HIDE DEF c
  <2>4. /\ RegType(q) /\ q.table = u.table /\ q.next = u.next
        /\ DOMAIN q.cells = DOMAIN r.cells /\ Len(q.cells) = Len(r.cells)
        /\ q.broken \/ (q.broken = r.broken /\ q.cells[c].freed)
        /\ \A d \in DOMAIN r.cells :
             /\ q.cells[d].h = r.cells[d].h
             /\ q.cells[d].refused = r.cells[d].refused
             /\ d # c => q.cells[d].freed = r.cells[d].freed
    <3>1. CASE Freed(u, c)
      <4>1. q = Break(u)
        BY <3>1 DEF php_cb_data_destroy
      <4> HIDE DEF q
      <4>2. /\ RegType(q) /\ q.table = u.table /\ q.next = u.next
            /\ q.cells = u.cells /\ q.broken = TRUE
        BY <2>2, <4>1, BreakFields
      <4> QED  BY <2>2, <4>2
    <3>2. CASE ~Freed(u, c)
      <4> DEFINE f == [u EXCEPT !.cells[c].freed = TRUE]
      <4>1. q = f
        BY <3>2 DEF php_cb_data_destroy
      <4> HIDE DEF q
      <4>2. /\ RegType(f) /\ f.table = u.table /\ f.next = u.next /\ f.broken = u.broken
            /\ DOMAIN f.cells = DOMAIN u.cells /\ Len(f.cells) = Len(u.cells)
            /\ \A d \in DOMAIN u.cells :
                 /\ f.cells[d].h = u.cells[d].h
                 /\ f.cells[d].refused = u.cells[d].refused
                 /\ f.cells[d].freed = (d = c \/ u.cells[d].freed)
        <5>1. c \in DOMAIN u.cells
          BY <2>2, <2>3
        <5>2. RegType(u)
          BY <2>2
        <5> QED  BY <5>1, <5>2, EfreeFields
      <4> HIDE DEF f
      <4> QED  BY <2>2, <2>3, <2>b, <4>1, <4>2
    <3> QED  BY <3>1, <3>2
  <2> HIDE DEF q
  <2>5. Once(q)
    BY <2>2, <2>4 DEF RegInv, Once
  <2>6. Kept(q)
    <3> SUFFICES ASSUME ~q.broken, NEW d \in DOMAIN r.cells, ~Freed(q, d)
                 PROVE  \E j \in DOMAIN q.table : q.table[j] = d
      BY <2>4 DEF Kept
    <3>1. d # c /\ ~Freed(r, d) /\ ~r.broken
      BY <2>4 DEF Freed
    <3>2. PICK j \in DOMAIN r.table : r.table[j] = d
      BY <3>1 DEF RegInv, Kept
    <3>3. j # i
      BY <3>1, <3>2 DEF c
    <3> QED  BY <2>2, <2>4, <3>2, <3>3
  <2>7. \A j \in DOMAIN q.table : LagAt(q, j) = LagAt(r, j)
    BY <2>2, <2>3, <2>4 DEF LagAt
  <2>8. Lag(q)
    <3>1. Cardinality(DOMAIN r.table) \in Nat /\ r.next \in Nat
      BY SlotsFinite DEF RegInv, RegType
    <3>2. q.next - Cardinality(DOMAIN q.table) = r.next - Cardinality(DOMAIN r.table) + 1
      <4>1. q.next = r.next /\ Cardinality(DOMAIN q.table) = Cardinality(DOMAIN r.table) - 1
        BY <2>2, <2>4
      <4> QED  BY <3>1, <4>1
    <3>3. ASSUME NEW j \in DOMAIN q.table
          PROVE  LagAt(q, j) \in 0..(q.next - Cardinality(DOMAIN q.table))
      <4>1. LagAt(r, j) \in 0..(r.next - Cardinality(DOMAIN r.table))
        BY <2>2, <2>4 DEF RegInv, Lag, Holes
      <4> QED  BY <2>7, <3>1, <3>2, <4>1
    <3> QED  BY <3>3 DEF Lag, Holes
  <2>9. Live(q)
    BY <2>2, <2>3, <2>4 DEF RegInv, Live, Freed
  <2> QED  BY <2>1, <2>4, <2>5, <2>6, <2>8, <2>9 DEF RegInv, q, c, u
<1> QED  BY <1>1, <1>2

LEMMA DropInv ==
  ASSUME NEW r, RegInv(r), NEW c
  PROVE  RegInv(Drop(r, c)) /\ Len(Drop(r, c).cells) = Len(r.cells)
BY BreakInv, DelInv DEF Drop

(* Only a registry that is not broken: a double free is the last step.      *)
LEMMA CleanInv ==
  ASSUME NEW r, RegInv(r), ~r.broken
  PROVE  RegInv(zend_hash_clean(r)) /\ Len(zend_hash_clean(r).cells) = Len(r.cells)
<1> DEFINE q == zend_hash_clean(r)
<1>1. /\ RegType(q) /\ DOMAIN q.table = {}
      /\ DOMAIN q.cells = DOMAIN r.cells /\ Len(q.cells) = Len(r.cells)
      /\ \A d \in DOMAIN r.cells :
           q.cells[d].freed = (r.cells[d].freed \/ d \in Range(r.table))
  BY CleanFields DEF RegInv
<1> HIDE DEF q
<1>2. Once(q) /\ Lag(q) /\ Live(q)
  BY <1>1 DEF Once, Lag, Live
<1>3. Kept(q)
  <2> SUFFICES ASSUME NEW d \in DOMAIN r.cells, ~Freed(q, d), ~q.broken
               PROVE  FALSE
    BY <1>1 DEF Kept
  <2>1. ~r.cells[d].freed /\ d \notin Range(r.table)
    BY <1>1, CellBooleans DEF RegInv, Freed
  <2>2. PICK i \in DOMAIN r.table : r.table[i] = d
    BY <2>1 DEF RegInv, Kept, Freed
  <2> QED  BY <2>1, <2>2 DEF Range
<1> QED  BY <1>1, <1>2, <1>3 DEF RegInv, q

-----------------------------------------------------------------------------
(* The state *)

(* The variables other than the registry have their types, and no two      *)
(* objects have the same handle: the one destroyed is the one that closes. *)
PointersOK ==
  /\ objects \subseteq Objects
  /\ zk \in [Objects -> Handles \cup {NULL}] /\ cb_data \in [Objects -> Cell \cup {NULL}]
  /\ closing \subseteq open /\ open \subseteq Handles /\ watcher \subseteq Handles
  /\ context \in [Handles -> Cell \cup {NULL}] /\ running \in [Handles -> Cell \cup {NULL}]
  /\ watches \in [Handles -> SUBSET Cell] /\ auths \in [Handles -> SUBSET Cell]
  /\ phase \in {"script", "ended", "late", "down"}
  /\ \A o \in Objects :
       zk[o] # NULL => zk[o] \in open \ closing /\ \A p \in Objects : zk[p] = zk[o] => p = o

RegistryOK == RegInv(registry) /\ Len(registry.cells) <= MaxCells

(* The inductive invariant: the order of the registry, and the types.      *)
CallbacksInv == RegistryOK /\ PointersOK

LEMMA InvTypes ==
  CallbacksInv => TypeOK
<1> SUFFICES ASSUME CallbacksInv  PROVE  TypeOK
  OBVIOUS
<1>1. RegType(registry)
  BY DEF CallbacksInv, RegistryOK, RegInv
<1>2. Range(registry.table) \subseteq DOMAIN registry.cells
  BY <1>1 DEF RegType, Range
<1> QED  BY <1>1, <1>2 DEF CallbacksInv, RegistryOK, RegType, PointersOK, TypeOK

LEMMA InitInv ==
  Init => CallbacksInv
<1> SUFFICES ASSUME Init  PROVE  CallbacksInv
  OBVIOUS
<1> DEFINE r == [table |-> [i \in {} |-> 0], next |-> 0, cells |-> <<>>, broken |-> FALSE]
<1>1. /\ DOMAIN r = {"table", "next", "cells", "broken"} /\ DOMAIN r.table = {}
      /\ r.next = 0 /\ r.cells = <<>> /\ r.broken = FALSE
  OBVIOUS
<1>2. r.table \in [DOMAIN r.table -> DOMAIN r.cells]
  OBVIOUS
<1> HIDE DEF r
<1>e. r.cells \in Seq(CbData) /\ Len(r.cells) = 0 /\ DOMAIN r.cells = {}
  BY <1>1, EmptySeq
<1>3. RegType(r) /\ DOMAIN r.cells = {} /\ Len(r.cells) = 0
  <2>1. r.next \in Nat /\ DOMAIN r.table \subseteq 0..(r.next - 1)
    BY <1>1
  <2>2. r.broken \in BOOLEAN
    BY <1>1
  <2> QED  BY <1>1, <1>2, <1>e, <2>1, <2>2 DEF RegType
<1>4. RegInv(r)
  BY <1>1, <1>3 DEF RegInv, Once, Kept, Lag, Live
<1>5. RegistryOK
  BY <1>3, <1>4, BoundAssumption DEF Init, RegistryOK, r
<1>6. PointersOK
  BY DEF Init, PointersOK
<1> QED  BY <1>5, <1>6 DEF CallbacksInv

(* The cell of a method with a callback.                                   *)
LEMMA NewRegistry ==
  ASSUME CallbacksInv, CanRegister, NEW oneshot \in BOOLEAN,
         registry' = php_cb_data_new(registry, oneshot)
  PROVE  RegistryOK' /\ NewCell(registry) \in Cell
<1>1. RegInv(registry) /\ RegType(registry)
  BY DEF CallbacksInv, RegistryOK, RegInv
<1>2. RegInv(registry') /\ Len(registry'.cells) = Len(registry.cells) + 1
  BY <1>1, NewInv
<1>3. Len(registry.cells) \in Nat /\ Len(registry.cells) < MaxCells
  BY <1>1, CellsDomain DEF CanRegister
<1> QED  BY <1>2, <1>3, BoundAssumption DEF RegistryOK, NewCell, Cell

(* A registry that one cell leaves, or that breaks.                        *)
LEMMA ShrunkRegistry ==
  ASSUME CallbacksInv, NEW c,
         registry' \in {registry, Break(registry), Drop(registry, c)}
  PROVE  RegistryOK'
<1>1. RegInv(registry) /\ Len(registry.cells) <= MaxCells
  BY DEF CallbacksInv, RegistryOK
<1>2. CASE registry' = Break(registry)
  BY <1>1, <1>2, BreakInv DEF RegistryOK
<1>3. CASE registry' = Drop(registry, c)
  BY <1>1, <1>3, DropInv DEF RegistryOK
<1> QED  BY <1>1, <1>2, <1>3 DEF RegistryOK

LEMMA CleanRegistry ==
  ASSUME CallbacksInv, ~registry.broken, registry' = zend_hash_clean(registry)
  PROVE  RegistryOK'
BY CleanInv DEF CallbacksInv, RegistryOK

LEMMA NewInvStep ==
  ASSUME CallbacksInv, NEW o \in Objects, php_zk_new(o)
  PROVE  CallbacksInv'
BY DEF CallbacksInv, RegistryOK, PointersOK, php_zk_new, handle

LEMMA ConnectInv ==
  ASSUME CallbacksInv, NEW o \in Objects, NEW h \in Handles, NEW callback \in BOOLEAN,
         connect(o, h, callback)
  PROVE  CallbacksInv'
<1> DEFINE c == IF callback THEN NewCell(registry) ELSE NULL
<1>1. RegistryOK' /\ c \in Cell \cup {NULL}
  <2>1. CASE callback
    <3>1. CanRegister /\ registry' = php_cb_data_new(registry, FALSE)
      BY <2>1 DEF connect
    <3>2. RegistryOK' /\ NewCell(registry) \in Cell
      BY <3>1, NewRegistry
    <3> QED  BY <2>1, <3>2
  <2>2. CASE ~callback
    BY <2>2 DEF connect, CallbacksInv, RegistryOK
  <2> QED  BY <2>1, <2>2
<1>2. /\ cb_data' = [cb_data EXCEPT ![o] = c] /\ context' = [context EXCEPT ![h] = c]
      /\ watcher' \in {watcher, watcher \cup {h}} /\ zk' = [zk EXCEPT ![o] = h]
      /\ open' = open \cup {h}
      /\ UNCHANGED <<objects, closing, watches, auths, running, phase>>
  BY DEF connect
<1> HIDE DEF c
<1>3. /\ cb_data' \in [Objects -> Cell \cup {NULL}] /\ context' \in [Handles -> Cell \cup {NULL}]
      /\ zk' \in [Objects -> Handles \cup {NULL}]
  BY <1>1, <1>2 DEF CallbacksInv, PointersOK
<1>4. ASSUME NEW p \in Objects, zk'[p] # NULL
      PROVE  zk'[p] \in open' \ closing' /\ \A u \in Objects : zk'[u] = zk'[p] => u = p
  <2>1. h \notin open /\ closing \subseteq open /\ zk \in [Objects -> Handles \cup {NULL}]
    BY DEF connect, CallbacksInv, PointersOK
  <2>2. \A u \in Objects : zk'[u] = IF u = o THEN h ELSE zk[u]
    BY <1>2, <2>1
  <2>3. \A u \in Objects : zk[u] # NULL =>
          zk[u] \in open \ closing /\ \A v \in Objects : zk[v] = zk[u] => v = u
    BY DEF CallbacksInv, PointersOK
  <2> QED  BY <1>2, <1>4, <2>1, <2>2, <2>3, NullAssumption
<1>5. PointersOK'
  BY <1>2, <1>3, <1>4 DEF CallbacksInv, PointersOK
<1> QED  BY <1>1, <1>5 DEF CallbacksInv

LEMMA ConnectFailsInv ==
  ASSUME CallbacksInv, NEW o \in Objects, NEW callback \in BOOLEAN, ConnectFails(o, callback)
  PROVE  CallbacksInv'
<1>1. RegistryOK'
  <2>1. CASE callback
    BY <2>1, NewRegistry DEF ConnectFails
  <2>2. CASE ~callback
    BY <2>2 DEF ConnectFails, CallbacksInv, RegistryOK
  <2> QED  BY <2>1, <2>2
<1>2. PointersOK'
  BY DEF CallbacksInv, PointersOK, ConnectFails, object, handle
<1> QED  BY <1>1, <1>2 DEF CallbacksInv

LEMMA WatchedInv ==
  ASSUME CallbacksInv, NEW o \in Objects, Watched(o)
  PROVE  CallbacksInv'
<1>1. RegistryOK' /\ NewCell(registry) \in Cell
  BY NewRegistry DEF Watched
<1>2. zk[o] \in Handles
  BY DEF Watched, Connected, CallbacksInv, PointersOK
<1>3. PointersOK'
  BY <1>1, <1>2 DEF CallbacksInv, PointersOK, Watched, object
<1> QED  BY <1>1, <1>3 DEF CallbacksInv

LEMMA RefusedStepInv ==
  ASSUME CallbacksInv, NEW o \in Objects, Refused(o)
  PROVE  CallbacksInv'
<1>1. RegInv(registry) /\ RegType(registry)
  BY DEF CallbacksInv, RegistryOK, RegInv
<1>2. RegInv(registry') /\ Len(registry'.cells) = Len(registry.cells) + 1
  BY <1>1, RefusedInv DEF Refused
<1>3. Len(registry.cells) \in Nat /\ Len(registry.cells) < MaxCells
  BY <1>1, CellsDomain DEF Refused, CanRegister
<1>4. RegistryOK'
  BY <1>2, <1>3, BoundAssumption DEF RegistryOK
<1>5. PointersOK'
  BY DEF CallbacksInv, PointersOK, Refused, object, handle
<1> QED  BY <1>4, <1>5 DEF CallbacksInv

LEMMA GetEmptyInv ==
  ASSUME CallbacksInv, NEW o \in Objects, GetEmpty(o)
  PROVE  CallbacksInv'
<1>1. RegistryOK'
  BY NewRegistry DEF GetEmpty
<1>2. PointersOK'
  BY DEF CallbacksInv, PointersOK, GetEmpty, object, handle
<1> QED  BY <1>1, <1>2 DEF CallbacksInv

LEMMA AddAuthInv ==
  ASSUME CallbacksInv, NEW o \in Objects, addAuth(o)
  PROVE  CallbacksInv'
<1>1. RegistryOK' /\ NewCell(registry) \in Cell
  BY NewRegistry DEF addAuth
<1>2. zk[o] \in Handles
  BY DEF addAuth, Connected, CallbacksInv, PointersOK
<1>3. auths' \in [Handles -> SUBSET Cell]
  BY <1>1, <1>2 DEF CallbacksInv, PointersOK, addAuth
<1>4. PointersOK'
  BY <1>3 DEF CallbacksInv, PointersOK, addAuth, object
<1> QED  BY <1>1, <1>4 DEF CallbacksInv

(* The old cell is dropped first; the length is that of the registry.      *)
LEMMA SetWatcherInv ==
  ASSUME CallbacksInv, NEW o \in Objects, setWatcher(o)
  PROVE  CallbacksInv'
<1> DEFINE r == IF cb_data[o] = NULL THEN registry ELSE Drop(registry, cb_data[o])
<1>1. RegInv(r) /\ Len(r.cells) = Len(registry.cells)
  BY DropInv DEF CallbacksInv, RegistryOK
<1>2. /\ registry' = php_cb_data_new(r, FALSE) /\ cb_data' = [cb_data EXCEPT ![o] = NewCell(r)]
      /\ watcher' = watcher \cup {zk[o]} /\ Connected(o) /\ Len(registry.cells) < MaxCells
      /\ UNCHANGED <<objects, zk, open, closing, context, watches, auths, running, phase>>
  BY DEF setWatcher, CanRegister
<1> HIDE DEF r
<1>3. RegInv(registry') /\ Len(registry'.cells) = Len(registry.cells) + 1
  BY <1>1, <1>2, NewInv
<1>4. Len(registry.cells) \in Nat
  BY CellsDomain DEF CallbacksInv, RegistryOK, RegInv
<1>5. RegistryOK' /\ NewCell(r) \in Cell
  <2>1. NewCell(r) = Len(registry.cells) + 1 /\ Len(registry.cells) < MaxCells
    BY <1>1, <1>2 DEF NewCell
  <2>2. RegistryOK'
    BY <1>3, <1>4, <2>1, BoundAssumption DEF RegistryOK
  <2>3. NewCell(r) \in Cell
    BY <1>4, <2>1, BoundAssumption DEF Cell
  <2> QED  BY <2>2, <2>3
<1>6. zk[o] \in Handles
  BY <1>2 DEF Connected, CallbacksInv, PointersOK
<1>7. PointersOK'
  BY <1>2, <1>5, <1>6 DEF CallbacksInv, PointersOK
<1> QED  BY <1>5, <1>7 DEF CallbacksInv

LEMMA DestroyInv ==
  ASSUME CallbacksInv, NEW o \in Objects, php_zk_destroy(o)
  PROVE  CallbacksInv'
<1>1. RegistryOK'
  BY ShrunkRegistry DEF php_zk_destroy
<1>2. zk[o] # NULL => zk[o] \in open \ closing
  BY DEF CallbacksInv, PointersOK
<1>3. PointersOK'
  BY <1>2 DEF CallbacksInv, PointersOK, php_zk_destroy
<1> QED  BY <1>1, <1>3 DEF CallbacksInv

LEMMA CloseInv ==
  ASSUME CallbacksInv, NEW h \in Handles, zookeeper_close(h)
  PROVE  CallbacksInv'
<1>1. RegistryOK'
  BY ShrunkRegistry DEF zookeeper_close
<1>2. PointersOK'
  BY DEF CallbacksInv, PointersOK, zookeeper_close, object
<1> QED  BY <1>1, <1>2 DEF CallbacksInv

LEMMA CleanStepInv ==
  ASSUME CallbacksInv, RSHUTDOWN \/ php_zk_destroy_globals
  PROVE  CallbacksInv'
<1>1. RegistryOK'
  BY CleanRegistry DEF RSHUTDOWN, php_zk_destroy_globals, RequestOver
<1>2. PointersOK'
  BY DEF CallbacksInv, PointersOK, RSHUTDOWN, php_zk_destroy_globals, object, handle
<1> QED  BY <1>1, <1>2 DEF CallbacksInv

LEMMA NextRequestInv ==
  ASSUME CallbacksInv, NextRequest
  PROVE  CallbacksInv'
BY DEF CallbacksInv, RegistryOK, PointersOK, NextRequest, object, handle

(* A marshal function is entered with one of the contexts of the handle.   *)
LEMMA EnterInv ==
  ASSUME CallbacksInv, NEW h \in Handles, NEW c \in Cell \cup {NULL}, Enter(h, c),
         watches' \in [Handles -> SUBSET Cell], auths' \in [Handles -> SUBSET Cell]
  PROVE  CallbacksInv'
<1>1. RegistryOK'
  BY ShrunkRegistry DEF Enter
<1>2. running' \in [Handles -> Cell \cup {NULL}]
  BY DEF CallbacksInv, PointersOK, Enter
<1>3. PointersOK'
  BY <1>2 DEF CallbacksInv, PointersOK, Enter, object
<1> QED  BY <1>1, <1>3 DEF CallbacksInv

LEMMA EventInv ==
  ASSUME CallbacksInv, NEW h \in Handles,
         WatchEvent(h) \/ SessionEvent(h) \/ php_zk_completion_marshal(h)
  PROVE  CallbacksInv'
<1>1. /\ watches \in [Handles -> SUBSET Cell] /\ auths \in [Handles -> SUBSET Cell]
      /\ context[h] \in Cell \cup {NULL}
  BY DEF CallbacksInv, PointersOK
<1>2. CASE WatchEvent(h)
  <2>1. PICK c \in watches[h] : Enter(h, c) /\ UNCHANGED auths
                             /\ watches' \in {watches, [watches EXCEPT ![h] = @ \ {c}]}
    BY <1>2 DEF WatchEvent
  <2>2. c \in Cell /\ watches' \in [Handles -> SUBSET Cell]
    BY <1>1, <2>1
  <2> QED  BY <1>1, <2>1, <2>2, EnterInv
<1>3. CASE SessionEvent(h)
  BY <1>1, <1>3, EnterInv DEF SessionEvent
<1>4. CASE php_zk_completion_marshal(h)
  <2>1. PICK c \in auths[h] : Enter(h, c) /\ UNCHANGED watches
                             /\ auths' = [auths EXCEPT ![h] = @ \ {c}]
    BY <1>4 DEF php_zk_completion_marshal
  <2>2. c \in Cell /\ auths' \in [Handles -> SUBSET Cell]
    BY <1>1, <2>1
  <2> QED  BY <1>1, <2>1, <2>2, EnterInv
<1> QED  BY <1>2, <1>3, <1>4

LEMMA MarshalInv ==
  ASSUME CallbacksInv, NEW h \in Handles, php_zk_watcher_marshal(h)
  PROVE  CallbacksInv'
<1>1. RegistryOK'
  BY ShrunkRegistry DEF php_zk_watcher_marshal
<1>2. PointersOK'
  BY DEF CallbacksInv, PointersOK, php_zk_watcher_marshal, object, handle
<1> QED  BY <1>1, <1>2 DEF CallbacksInv

(* Every step of the specification keeps the invariant.                    *)
LEMMA CallbacksStep ==
  CallbacksInv /\ [Next]_vars => CallbacksInv'
<1> SUFFICES ASSUME CallbacksInv, [Next]_vars  PROVE  CallbacksInv'
  OBVIOUS
<1>1. CASE UNCHANGED vars
  BY <1>1 DEF CallbacksInv, RegistryOK, PointersOK, vars, object, handle
<1>2. ASSUME NEW o \in Objects, Method(o)  PROVE  CallbacksInv'
  <2>1. CASE php_zk_new(o)
    BY <2>1, NewInvStep
  <2>2. CASE \E callback \in BOOLEAN :
               ConnectFails(o, callback) \/ \E h \in Handles : connect(o, h, callback)
    BY <2>2, ConnectFailsInv, ConnectInv
  <2>3. CASE getChildren(o) \/ exists(o) \/ get(o)
    BY <2>3, WatchedInv, RefusedStepInv, GetEmptyInv DEF getChildren, exists, get
  <2>4. CASE addAuth(o) \/ setWatcher(o)
    BY <2>4, AddAuthInv, SetWatcherInv
  <2> QED  BY <1>2, <2>1, <2>2, <2>3, <2>4 DEF Method
<1>3. ASSUME NEW o \in Objects, php_zk_destroy(o)  PROVE  CallbacksInv'
  BY <1>3, DestroyInv
<1>4. ASSUME NEW h \in Handles, zookeeper_close(h) \/ php_zk_watcher_marshal(h)
      PROVE  CallbacksInv'
  BY <1>4, CloseInv, MarshalInv
<1>5. ASSUME NEW h \in Handles,
             WatchEvent(h) \/ SessionEvent(h) \/ php_zk_completion_marshal(h)
      PROVE  CallbacksInv'
  BY <1>5, EventInv
<1>6. CASE RSHUTDOWN \/ NextRequest \/ php_zk_destroy_globals
  BY <1>6, CleanStepInv, NextRequestInv
<1> QED  BY <1>1, <1>2, <1>3, <1>4, <1>5, <1>6 DEF Next

(***************************************************************************)
(* The inductive invariant holds: whatever the methods, the objects, the   *)
(* completion threads and the requests do, and in any order.               *)
(***************************************************************************)
THEOREM CallbacksInvariant ==
  Spec => []CallbacksInv
BY InitInv, CallbacksStep, PTL DEF Spec

(***************************************************************************)
(* Every index and every pointer is in range: the slots lie below          *)
(* nNextFreeElement, they hold cells that php_cb_data_new has allocated,   *)
(* and a handle that is closing is open.                                   *)
(***************************************************************************)
THEOREM CallbacksTypes ==
  Spec => []TypeOK
BY CallbacksInvariant, InvTypes, PTL

(***************************************************************************)
(* A cell that is not freed is in one slot of ZK_G(callbacks), so RSHUTDOWN *)
(* frees it, although cbd->h names the wrong slot once one was deleted.    *)
(***************************************************************************)
THEOREM NoLeaks ==
  Spec => []NoLeak
<1>1. CallbacksInv => NoLeak
  <2> SUFFICES ASSUME CallbacksInv, NEW c \in DOMAIN registry.cells,
                      ~registry.broken, ~Freed(registry, c)
               PROVE  Cardinality({i \in DOMAIN registry.table : registry.table[i] = c}) = 1
    BY DEF NoLeak
  <2>1. PICK i \in DOMAIN registry.table : registry.table[i] = c
    BY DEF CallbacksInv, RegistryOK, RegInv, Kept
  <2>2. {j \in DOMAIN registry.table : registry.table[j] = c} = {i}
    BY <2>1 DEF CallbacksInv, RegistryOK, RegInv, Once
  <2> QED  BY <2>2, FS_Singleton
<1> QED  BY <1>1, CallbacksInvariant, PTL

(***************************************************************************)
(* Only a call of getChildren, exists or get that failed leaves a freed     *)
(* cell in the table.                                                      *)
(***************************************************************************)
THEOREM TableLive ==
  Spec => []TableIsLive
<1>1. CallbacksInv => TableIsLive
  BY DEF CallbacksInv, RegistryOK, RegInv, Live, TableIsLive
<1> QED  BY <1>1, CallbacksInvariant, PTL

-----------------------------------------------------------------------------
(* What a delete frees *)

(* No pointer to a cell is wild.                                           *)
Allocated ==
  LET known == DOMAIN registry.cells IN
  /\ \A o \in Objects : cb_data[o] \in known \cup {NULL}
  /\ \A h \in Handles : /\ context[h] \in known \cup {NULL} /\ running[h] \in known \cup {NULL}
                        /\ watches[h] \subseteq known /\ auths[h] \subseteq known

(* efree of a cell frees no other one.                                     *)
LEMMA EfreeOther ==
  ASSUME NEW r, RegType(r), NEW c \in DOMAIN r.cells, NEW d \in DOMAIN r.cells, d # c
  PROVE  Freed([r EXCEPT !.cells[c].freed = TRUE], d) = Freed(r, d)
<1> DEFINE q == [r EXCEPT !.cells[c].freed = TRUE]
<1>1. /\ RegType(q)
      /\ q.table = r.table /\ q.next = r.next /\ q.broken = r.broken
      /\ DOMAIN q.cells = DOMAIN r.cells /\ Len(q.cells) = Len(r.cells)
      /\ \A e \in DOMAIN r.cells :
           /\ q.cells[e].h = r.cells[e].h
           /\ q.cells[e].refused = r.cells[e].refused
           /\ q.cells[e].freed = (e = c \/ r.cells[e].freed)
  BY EfreeFields
<1>2. r.cells[d].freed \in BOOLEAN
  BY CellBooleans
<1> HIDE DEF q
<1>3. Freed(q, d) = Freed(r, d)
  BY <1>1, <1>2 DEF Freed
<1> QED  BY <1>3 DEF q

(* A delete frees no cell but that of its slot.                            *)
LEMMA DelFrees ==
  ASSUME NEW r, RegInv(r), NEW i, NEW d \in DOMAIN r.cells,
         ~Freed(r, d), Freed(zend_hash_index_del(r, i), d)
  PROVE  i \in DOMAIN r.table /\ r.table[i] = d
<1>1. i \in DOMAIN r.table
  BY DEF zend_hash_index_del
<1> DEFINE c == r.table[i]
           u == [r EXCEPT !.table = Restrict(@, DOMAIN @ \ {i})]
<1>2. RegType(u) /\ u.cells = r.cells /\ c \in DOMAIN r.cells
  BY <1>1, UnslotFields DEF RegInv, RegType
<1>3. Freed(php_cb_data_destroy(u, c), d)
  BY <1>1 DEF zend_hash_index_del
<1> HIDE DEF u, c
<1>4. CASE Freed(u, c)
  <2>1. php_cb_data_destroy(u, c) = Break(u)
    BY <1>4 DEF php_cb_data_destroy
  <2>2. Break(u).cells = r.cells
    BY <1>2, BreakFields
  <2> QED  BY <1>3, <2>1, <2>2 DEF Freed
<1>5. CASE ~Freed(u, c)
  <2> DEFINE f == [u EXCEPT !.cells[c].freed = TRUE]
  <2>1. php_cb_data_destroy(u, c) = f
    BY <1>5 DEF php_cb_data_destroy
  <2>2. ASSUME d # c  PROVE  FALSE
    <3>1. Freed(f, d) = Freed(u, d)
      BY <1>2, <2>2, EfreeOther
    <3> QED  BY <1>2, <1>3, <2>1, <3>1 DEF Freed
  <2> QED  BY <1>1, <2>2 DEF c
<1> QED  BY <1>4, <1>5

(* The index of a cell points at it or in front of it.                     *)
LEMMA DropFrees ==
  ASSUME NEW r, RegInv(r), ~r.broken, NEW c \in DOMAIN r.cells, NEW i \in DOMAIN r.table,
         ~Freed(r, r.table[i]), Freed(Drop(r, c), r.table[i])
  PROVE  \E j \in DOMAIN r.table : r.table[j] = c /\ j - i \in 0..Holes(r)
<1>1. r.table[i] \in DOMAIN r.cells
  BY DEF RegInv, RegType
<1>2. ~Freed(r, c)
  BY BreakInv DEF Drop, Freed
<1>3. PICK j \in DOMAIN r.table : r.table[j] = c
  BY <1>2 DEF RegInv, Kept
<1>4. r.cells[c].h = i
  <2>1. Freed(zend_hash_index_del(r, r.cells[c].h), r.table[i])
    BY <1>2 DEF Drop
  <2>2. r.cells[c].h \in DOMAIN r.table /\ r.table[r.cells[c].h] = r.table[i]
    BY <1>1, <2>1, DelFrees
  <2> QED  BY <2>2 DEF RegInv, Once
<1>5. LagAt(r, j) = j - i
  BY <1>3, <1>4 DEF LagAt
<1> QED  BY <1>3, <1>5 DEF RegInv, Lag

(* php_cb_data_new and a call that failed free no cell that was there.     *)
LEMMA NewFrees ==
  ASSUME NEW r, RegInv(r), NEW oneshot \in BOOLEAN, NEW d \in DOMAIN r.cells
  PROVE  LET n == php_cb_data_new(r, oneshot)
             q == [php_cb_data_destroy(n, NewCell(r)) EXCEPT !.cells[NewCell(r)].refused = TRUE]
         IN  /\ d \in DOMAIN n.cells /\ NewCell(r) \in DOMAIN n.cells /\ d # NewCell(r)
             /\ Freed(n, d) <=> Freed(r, d)
             /\ Freed(q, d) <=> Freed(r, d)
<1> DEFINE c == NewCell(r)
           n == php_cb_data_new(r, oneshot)
           f == [n EXCEPT !.cells[c].freed = TRUE]
           q == [f EXCEPT !.cells[c].refused = TRUE]
<1>0. /\ RegType(n) /\ DOMAIN n.cells = DOMAIN r.cells \cup {NewCell(r)}
      /\ \A e \in DOMAIN r.cells : n.cells[e] = r.cells[e]
      /\ n.cells[NewCell(r)] = [oneshot |-> oneshot, h |-> Cardinality(DOMAIN r.table),
                                freed |-> FALSE, refused |-> FALSE]
  BY NewFields DEF RegInv
<1> HIDE DEF n
<1>1. /\ RegType(n) /\ DOMAIN n.cells = DOMAIN r.cells \cup {c} /\ c \in DOMAIN n.cells
      /\ n.cells[d] = r.cells[d] /\ n.cells[c].freed = FALSE
  BY <1>0
<1>2. d # c
  BY CellsDomain DEF RegInv, NewCell
<1>3. php_cb_data_destroy(n, c) = f
  BY <1>1 DEF php_cb_data_destroy, Freed
<1>b. r.cells[d].freed \in BOOLEAN
  BY CellBooleans DEF RegInv
<1> HIDE DEF c
<1>4. /\ RegType(f)
      /\ f.table = n.table /\ f.next = n.next /\ f.broken = n.broken
      /\ DOMAIN f.cells = DOMAIN n.cells /\ Len(f.cells) = Len(n.cells)
      /\ \A e \in DOMAIN n.cells :
           /\ f.cells[e].h = n.cells[e].h
           /\ f.cells[e].refused = n.cells[e].refused
           /\ f.cells[e].freed = (e = c \/ n.cells[e].freed)
  BY <1>1, EfreeFields
<1> HIDE DEF f
<1>5. \A e \in DOMAIN f.cells : q.cells[e].freed = f.cells[e].freed
  <2>1. c \in DOMAIN f.cells
    BY <1>1, <1>4
  <2> QED  BY <1>4, <2>1, RefuseFields
<1> HIDE DEF q
<1>6. /\ d \in DOMAIN n.cells /\ c \in DOMAIN n.cells /\ d # c
      /\ Freed(n, d) <=> Freed(r, d)
      /\ Freed(q, d) <=> Freed(r, d)
  BY <1>1, <1>2, <1>4, <1>5, <1>b DEF Freed
<1> QED  BY <1>3, <1>6 DEF c, n, f, q

(* The cells stay, and none of them is freed.                              *)
FreesNone ==
  /\ DOMAIN registry.cells \subseteq DOMAIN registry'.cells
  /\ \A d \in DOMAIN registry.cells : Freed(registry', d) => Freed(registry, d)

LEMMA NoneIsOlder ==
  ASSUME CallbacksInv, FreesNone
  PROVE  FreesOlder
BY DEF CallbacksInv, RegistryOK, RegInv, RegType, FreesNone, FreesOlder

LEMMA NewFreesNone ==
  ASSUME CallbacksInv, NEW oneshot \in BOOLEAN, registry' = php_cb_data_new(registry, oneshot)
  PROVE  FreesNone /\ NewCell(registry) \in DOMAIN registry'.cells
<1>1. RegInv(registry)
  BY DEF CallbacksInv, RegistryOK
<1>2. DOMAIN registry'.cells = DOMAIN registry.cells \cup {NewCell(registry)}
  BY <1>1, NewFields DEF RegInv
<1>3. \A d \in DOMAIN registry.cells : Freed(registry', d) <=> Freed(registry, d)
  BY <1>1, NewFrees
<1> QED  BY <1>2, <1>3 DEF FreesNone

LEMMA RefusedFreesNone ==
  ASSUME CallbacksInv, NEW o \in Objects, Refused(o)
  PROVE  FreesNone
<1>1. RegInv(registry)
  BY DEF CallbacksInv, RegistryOK
<1>2. \A d \in DOMAIN registry.cells : Freed(registry', d) <=> Freed(registry, d)
  BY <1>1, NewFrees DEF Refused
<1>3. RegInv(registry') /\ Len(registry'.cells) = Len(registry.cells) + 1
  BY <1>1, RefusedInv DEF Refused
<1>4. DOMAIN registry.cells \subseteq DOMAIN registry'.cells
  <2>1. DOMAIN registry.cells = 1..Len(registry.cells) /\ Len(registry.cells) \in Nat
    BY <1>1, CellsDomain DEF RegInv
  <2>2. DOMAIN registry'.cells = 1..Len(registry'.cells)
    BY <1>3, CellsDomain DEF RegInv
  <2> QED  BY <1>3, <2>1, <2>2
<1> QED  BY <1>2, <1>4 DEF FreesNone

LEMMA BreakFreesNone ==
  ASSUME CallbacksInv, registry' \in {registry, Break(registry)}
  PROVE  FreesNone
BY BreakInv DEF CallbacksInv, RegistryOK, FreesNone, Freed

LEMMA DropCells ==
  ASSUME NEW r, RegInv(r), NEW c
  PROVE  DOMAIN Drop(r, c).cells = DOMAIN r.cells
<1>1. RegInv(Drop(r, c)) /\ Len(Drop(r, c).cells) = Len(r.cells)
  BY DropInv
<1> QED  BY <1>1, CellsDomain DEF RegInv

LEMMA CleanCells ==
  ASSUME CallbacksInv, ~registry.broken, registry' = zend_hash_clean(registry)
  PROVE  DOMAIN registry'.cells = DOMAIN registry.cells
<1>1. RegType(registry)
  BY DEF CallbacksInv, RegistryOK, RegInv
<1> QED  BY <1>1, CleanFields

(* Pointers are copied, set to NULL or to the new cell.                    *)
LEMMA StaysAllocated ==
  ASSUME Allocated, DOMAIN registry.cells \subseteq DOMAIN registry'.cells,
         NEW N \in SUBSET DOMAIN registry'.cells,
         \A o \in Objects : cb_data'[o] \in {cb_data[o], NULL} \cup N,
         \A h \in Handles :
           /\ context'[h] \in {context[h], NULL} \cup N
           /\ running'[h] \in {running[h], context[h], NULL} \cup watches[h] \cup auths[h]
           /\ watches'[h] \subseteq watches[h] \cup N
           /\ auths'[h] \subseteq auths[h] \cup N
  PROVE  Allocated'
<1>1. \A o \in Objects : cb_data'[o] \in DOMAIN registry'.cells \cup {NULL}
  BY DEF Allocated
<1>2. \A h \in Handles : /\ context'[h] \in DOMAIN registry'.cells \cup {NULL}
                         /\ running'[h] \in DOMAIN registry'.cells \cup {NULL}
  BY DEF Allocated
<1>3. \A h \in Handles : /\ watches'[h] \subseteq DOMAIN registry'.cells
                         /\ auths'[h] \subseteq DOMAIN registry'.cells
  BY DEF Allocated
<1> QED  BY <1>1, <1>2, <1>3 DEF Allocated

LEMMA MethodFrees ==
  ASSUME CallbacksInv, Allocated, NEW o \in Objects, Method(o)
  PROVE  Allocated' /\ FreesOlder
<1>0. /\ cb_data \in [Objects -> Cell \cup {NULL}]
      /\ context \in [Handles -> Cell \cup {NULL}] /\ running \in [Handles -> Cell \cup {NULL}]
      /\ watches \in [Handles -> SUBSET Cell] /\ auths \in [Handles -> SUBSET Cell]
  BY DEF CallbacksInv, PointersOK
<1>1. CASE php_zk_new(o)
  <2>1. UNCHANGED <<registry, cb_data, context, running, watches, auths>>
    BY <1>1 DEF php_zk_new, handle
  <2>2. FreesNone
    BY <2>1, BreakFreesNone
  <2> QED  BY <2>1, <2>2, NoneIsOlder DEF Allocated
<1>2. ASSUME NEW callback \in BOOLEAN, ConnectFails(o, callback)  PROVE  Allocated' /\ FreesOlder
  <2>1. UNCHANGED <<cb_data, context, running, watches, auths>>
    BY <1>2 DEF ConnectFails, object, handle
  <2>2. FreesNone
    BY <1>2, NewFreesNone, BreakFreesNone DEF ConnectFails
  <2>3. Allocated'
    BY <2>1, <2>2, StaysAllocated DEF FreesNone
  <2> QED  BY <2>2, <2>3, NoneIsOlder
<1>3. ASSUME NEW callback \in BOOLEAN, NEW h \in Handles, connect(o, h, callback)
      PROVE  Allocated' /\ FreesOlder
  <2> DEFINE N == DOMAIN registry'.cells
  <2>1. FreesNone /\ (callback => NewCell(registry) \in N)
    BY <1>3, NewFreesNone, BreakFreesNone DEF connect
  <2>2. PICK c \in N \cup {NULL} : /\ cb_data' = [cb_data EXCEPT ![o] = c]
                                   /\ context' = [context EXCEPT ![h] = c]
    BY <1>3, <2>1 DEF connect
  <2>3. UNCHANGED <<running, watches, auths>>
    BY <1>3 DEF connect
  <2>4. /\ \A p \in Objects : cb_data'[p] \in {cb_data[p], NULL} \cup N
        /\ \A g \in Handles : context'[g] \in {context[g], NULL} \cup N
    BY <1>0, <2>2
  <2> HIDE DEF N
  <2>5. N \in SUBSET DOMAIN registry'.cells
    BY DEF N
  <2>6. Allocated'
    BY <2>1, <2>3, <2>4, <2>5, StaysAllocated DEF FreesNone
  <2> QED  BY <2>1, <2>6, NoneIsOlder
<1>4. CASE Watched(o) \/ GetEmpty(o) \/ addAuth(o)
  <2> DEFINE N == {NewCell(registry)}
  <2>1. FreesNone /\ N \in SUBSET DOMAIN registry'.cells
    BY <1>4, NewFreesNone DEF Watched, GetEmpty, addAuth
  <2>2. UNCHANGED <<cb_data, context, running>>
    BY <1>4 DEF Watched, GetEmpty, addAuth, object, handle
  <2>3. \A g \in Handles : watches'[g] \subseteq watches[g] \cup N /\ auths'[g] \subseteq auths[g] \cup N
    BY <1>0, <1>4 DEF Watched, GetEmpty, addAuth, handle
  <2> HIDE DEF N
  <2>4. Allocated'
    BY <2>1, <2>2, <2>3, StaysAllocated DEF FreesNone
  <2> QED  BY <2>1, <2>4, NoneIsOlder
<1>5. CASE Refused(o)
  <2>1. UNCHANGED <<cb_data, context, running, watches, auths>>
    BY <1>5 DEF Refused, object, handle
  <2>2. FreesNone
    BY <1>5, RefusedFreesNone
  <2>3. Allocated'
    BY <2>1, <2>2, StaysAllocated DEF FreesNone
  <2> QED  BY <2>2, <2>3, NoneIsOlder
<1>6. CASE setWatcher(o)
  <2> DEFINE r == IF cb_data[o] = NULL THEN registry ELSE Drop(registry, cb_data[o])
  <2>1. RegInv(registry) /\ ~registry.broken
    BY <1>6 DEF CallbacksInv, RegistryOK, setWatcher, CanRegister, InScript
  <2>2. RegInv(r) /\ DOMAIN r.cells = DOMAIN registry.cells /\ Len(r.cells) = Len(registry.cells)
    BY <2>1, DropInv, DropCells
  <2>3. /\ registry' = php_cb_data_new(r, FALSE) /\ cb_data' = [cb_data EXCEPT ![o] = NewCell(r)]
        /\ UNCHANGED <<context, watches, auths, running>>
    BY <1>6 DEF setWatcher
  <2>4. \A d \in DOMAIN registry.cells :
          /\ d \in DOMAIN registry'.cells /\ NewCell(r) \in DOMAIN registry'.cells /\ d # NewCell(r)
          /\ Freed(registry', d) <=> Freed(r, d)
    <3> HIDE DEF r
    <3> QED  BY <2>2, <2>3, NewFrees
  <2>5. NewCell(r) \in DOMAIN registry'.cells
    <3> HIDE DEF r
    <3> QED  BY <2>2, <2>3, NewFields DEF RegInv
  <2>6. Allocated'
    <3> HIDE DEF r
    <3>1. {NewCell(r)} \in SUBSET DOMAIN registry'.cells
      BY <2>5
    <3>2. \A p \in Objects : cb_data'[p] \in {cb_data[p], NULL} \cup {NewCell(r)}
      BY <1>0, <2>3
    <3> QED  BY <2>3, <2>4, <3>1, <3>2, StaysAllocated
  <2>7. FreesOlder
    <3> SUFFICES ASSUME NEW i \in DOMAIN registry.table, ~Freed(registry, registry.table[i]),
                        Freed(registry', registry.table[i])
                 PROVE  \E j \in DOMAIN registry.table :
                          registry.table[j] \in Dropping /\ j - i \in 0..Holes(registry)
      BY DEF FreesOlder
    <3>1. registry.table[i] \in DOMAIN registry.cells
      BY <2>1 DEF RegInv, RegType
    <3>2. Freed(r, registry.table[i])
      BY <2>4, <3>1
    <3>3. cb_data[o] # NULL /\ cb_data[o] \in DOMAIN registry.cells
      BY <3>2 DEF Allocated
    <3>4. cb_data[o] \in Dropping
      <4>1. cb_data'[o] # cb_data[o]
        BY <1>0, <2>3, <2>4, <3>3
      <4> QED  BY <4>1 DEF Dropping
    <3> QED  BY <2>1, <3>2, <3>3, <3>4, DropFrees
  <2> QED  BY <2>6, <2>7
<1> QED  BY <1>1, <1>2, <1>3, <1>4, <1>5, <1>6 DEF Method, getChildren, exists, get

(* A cell is dropped, or nothing is freed.                                 *)
LEMMA DropIsOlder ==
  ASSUME CallbacksInv, ~registry.broken, NEW c \in DOMAIN registry.cells, c \in Dropping,
         registry' = Drop(registry, c)
  PROVE  FreesOlder
<1>1. RegInv(registry)
  BY DEF CallbacksInv, RegistryOK
<1> QED  BY <1>1, DropFrees DEF FreesOlder

LEMMA DestroyFrees ==
  ASSUME CallbacksInv, Allocated, NEW o \in Objects, php_zk_destroy(o)
  PROVE  Allocated' /\ FreesOlder
<1>0. cb_data \in [Objects -> Cell \cup {NULL}] /\ RegInv(registry)
  BY DEF CallbacksInv, RegistryOK, PointersOK
<1>1. cb_data' = [cb_data EXCEPT ![o] = NULL] /\ UNCHANGED <<context, watches, auths, running>>
  BY DEF php_zk_destroy
<1>2. DOMAIN registry'.cells = DOMAIN registry.cells
  BY <1>0, DropCells DEF php_zk_destroy
<1>3. Allocated'
  <2>1. {} \in SUBSET DOMAIN registry'.cells
    OBVIOUS
  <2>2. \A p \in Objects : cb_data'[p] \in {cb_data[p], NULL} \cup {}
    BY <1>0, <1>1
  <2> QED  BY <1>1, <1>2, <2>1, <2>2, StaysAllocated
<1>4. FreesOlder
  <2>1. CASE cb_data[o] = NULL
    BY <2>1, BreakFreesNone, NoneIsOlder DEF php_zk_destroy
  <2>2. CASE cb_data[o] # NULL
    <3>1. cb_data[o] \in DOMAIN registry.cells
      BY <2>2 DEF Allocated
    <3>2. cb_data[o] \in Dropping
      <4>1. cb_data'[o] # cb_data[o]
        BY <1>0, <1>1, <2>2
      <4> QED  BY <4>1 DEF Dropping
    <3> QED  BY <2>2, <3>1, <3>2, DropIsOlder DEF php_zk_destroy
  <2> QED  BY <2>1, <2>2
<1> QED  BY <1>3, <1>4

LEMMA MarshalFrees ==
  ASSUME CallbacksInv, Allocated, NEW h \in Handles, php_zk_watcher_marshal(h)
  PROVE  Allocated' /\ FreesOlder
<1>0. running \in [Handles -> Cell \cup {NULL}] /\ RegInv(registry)
  BY DEF CallbacksInv, RegistryOK, PointersOK
<1> DEFINE c == running[h]
<1>1. /\ running' = [running EXCEPT ![h] = NULL] /\ UNCHANGED <<cb_data, context, watches, auths>>
      /\ c # NULL /\ ~registry.broken
      /\ registry' \in {registry, Break(registry), Drop(registry, c)}
  BY DEF php_zk_watcher_marshal, object, handle
<1>2. c \in DOMAIN registry.cells /\ c \in Dropping
  <2>1. running'[h] # running[h]
    BY <1>0, <1>1
  <2>2. c \in Dropping
    BY <2>1 DEF Dropping
  <2> QED  BY <1>1, <2>2 DEF Allocated
<1>3. \A g \in Handles : running'[g] \in {running[g], context[g], NULL} \cup watches[g] \cup auths[g]
  BY <1>0, <1>1
<1> HIDE DEF c
<1>4. DOMAIN registry'.cells = DOMAIN registry.cells
  BY <1>0, <1>1, DropCells, BreakInv
<1>5. Allocated'
  <2>1. {} \in SUBSET DOMAIN registry'.cells
    OBVIOUS
  <2> QED  BY <1>1, <1>3, <1>4, <2>1, StaysAllocated
<1>6. FreesOlder
  BY <1>1, <1>2, DropIsOlder, BreakFreesNone, NoneIsOlder
<1> QED  BY <1>5, <1>6

(* Entering a marshal function and closing a handle free nothing.          *)
LEMMA HandleFrees ==
  ASSUME CallbacksInv, Allocated, NEW h \in Handles,
         \/ zookeeper_close(h)
         \/ WatchEvent(h) \/ SessionEvent(h) \/ php_zk_completion_marshal(h)
  PROVE  Allocated' /\ FreesOlder
<1>0. /\ context \in [Handles -> Cell \cup {NULL}] /\ running \in [Handles -> Cell \cup {NULL}]
      /\ watches \in [Handles -> SUBSET Cell] /\ auths \in [Handles -> SUBSET Cell]
  BY DEF CallbacksInv, PointersOK
<1>1. registry' \in {registry, Break(registry)} /\ UNCHANGED cb_data
  BY DEF zookeeper_close, WatchEvent, SessionEvent, php_zk_completion_marshal, Enter, object
<1>2. FreesNone
  BY <1>1, BreakFreesNone
<1>3. \A g \in Handles :
        /\ context'[g] \in {context[g], NULL}
        /\ running'[g] \in {running[g], context[g], NULL} \cup watches[g] \cup auths[g]
        /\ watches'[g] \subseteq watches[g] /\ auths'[g] \subseteq auths[g]
  <2>1. CASE zookeeper_close(h)
    BY <1>0, <2>1 DEF zookeeper_close
  <2>2. CASE WatchEvent(h)
    BY <1>0, <2>2 DEF WatchEvent, Enter
  <2>3. CASE SessionEvent(h)
    BY <1>0, <2>3 DEF SessionEvent, Enter
  <2>4. CASE php_zk_completion_marshal(h)
    BY <1>0, <2>4 DEF php_zk_completion_marshal, Enter
  <2> QED  BY <2>1, <2>2, <2>3, <2>4
<1>4. Allocated'
  <2>1. {} \in SUBSET DOMAIN registry'.cells
    OBVIOUS
  <2> QED  BY <1>1, <1>2, <1>3, <2>1, StaysAllocated DEF FreesNone
<1> QED  BY <1>2, <1>4, NoneIsOlder

LEMMA FreesStep ==
  ASSUME CallbacksInv, Allocated, [Next]_vars
  PROVE  Allocated' /\ (phase' = phase => FreesOlder)
<1>1. CASE UNCHANGED vars \/ NextRequest
  <2>1. UNCHANGED <<registry, cb_data, context, running, watches, auths>>
    BY <1>1 DEF vars, NextRequest, object, handle
  <2>2. FreesNone
    BY <2>1, BreakFreesNone
  <2> QED  BY <2>1, <2>2, NoneIsOlder DEF Allocated
<1>2. CASE RSHUTDOWN \/ php_zk_destroy_globals
  <2>1. UNCHANGED <<cb_data, context, running, watches, auths>> /\ phase' # phase
    BY <1>2 DEF RSHUTDOWN, php_zk_destroy_globals, RequestOver, object, handle
  <2>2. DOMAIN registry'.cells = DOMAIN registry.cells
    BY <1>2, CleanCells DEF RSHUTDOWN, php_zk_destroy_globals, RequestOver
  <2> QED  BY <2>1, <2>2 DEF Allocated
<1>3. ASSUME NEW o \in Objects, Method(o) \/ php_zk_destroy(o)
      PROVE  Allocated' /\ FreesOlder
  BY <1>3, MethodFrees, DestroyFrees
<1>4. ASSUME NEW h \in Handles,
             \/ zookeeper_close(h) \/ php_zk_watcher_marshal(h)
             \/ WatchEvent(h) \/ SessionEvent(h) \/ php_zk_completion_marshal(h)
      PROVE  Allocated' /\ FreesOlder
  BY <1>4, HandleFrees, MarshalFrees
<1> QED  BY <1>1, <1>2, <1>3, <1>4 DEF Next

(***************************************************************************)
(* A delete in ZK_G(callbacks) never frees a cell younger than the one     *)
(* that was meant, and frees that one as long as no slot is empty, for any *)
(* number of objects, handles and cells: cbd->h is behind the true slot by *)
(* no more than there are empty slots, and every delete is asked for with  *)
(* a pointer to a cell that is still in the table, or the process breaks.  *)
(***************************************************************************)
THEOREM DeletesOlder ==
  Spec => DropsOlder
<1>1. Init => Allocated
  BY DEF Init, Allocated
<1>2. CallbacksInv /\ Allocated /\ [Next]_vars => Allocated'
  BY FreesStep
<1>3. CallbacksInv /\ Allocated /\ [Next]_vars => [phase' = phase => FreesOlder]_vars
  BY FreesStep
<1> QED  BY <1>1, <1>2, <1>3, CallbacksInvariant, PTL DEF Spec, DropsOlder

=============================================================================

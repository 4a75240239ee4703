---------------------------- MODULE DbListProofs ----------------------------
(***************************************************************************)
(* For any number of rows and of calls, and for each of the tables: a walk *)
(* through a list of row objects gives the rows that were read.  A list    *)
(* that stores its objects has two cursors, its position and the one of    *)
(* the result list that the missing objects are made from; that a walk is  *)
(* complete rests on how the two stay together.                            *)
(***************************************************************************)
EXTENDS DbLists, SequenceTheorems, TLAPS

\* The rows; 0 is NULL.
Rows == Nat \ {0}

\* The fields of X_list_t, and of the db_result_list_t it holds.
ListType == [store : BOOLEAN, objects : Seq(Nat), position : Nat,
             first : BOOLEAN, result : Seq(Rows), current : Nat,
             begun : BOOLEAN, fetched : BOOLEAN, copied : BOOLEAN]

\* The row that the i-th call of a walk gives.
RowAt(l, i) == IF i <= Len(l.result) THEN l.result[i] ELSE NULL

\* The rows w that were given are the first ones of the result, and NULL after
\* the last.
WalkOK(l, w) ==
  /\ Len(w) <= Len(l.result) + 1
  /\ \A i \in 1 .. Len(w) : w[i] = RowAt(l, i)

\* A list that does not store its objects: the cursor of the result is at the
\* row that was given last.
PlainOK(l, w) ==
  /\ l.objects = <<>>
  /\ w = <<>> => ~l.begun
  /\ w # <<>> => l.begun /\ (l.result # <<>> => l.current = Len(w))

\* A list that does: the objects that were made are those of the rows up to
\* the cursor of the result, and the walk has not gone past it.
ObjectsOK(l) ==
  l.objects # <<>> =>
    /\ Len(l.objects) = Len(l.result)
    /\ l.begun /\ l.current \in 1 .. Len(l.result)
    /\ \A i \in 1 .. Len(l.result) :
         l.objects[i] = IF i <= l.current THEN l.result[i] ELSE NULL

StoringOK(l, w) ==
  /\ ~l.first
  /\ w = <<>> => l.objects = <<>> /\ ~l.begun
  /\ w # <<>> /\ l.result # <<>> =>
       /\ l.objects # <<>> /\ l.position = Len(w) - 1
       /\ Len(w) <= Len(l.result) => Len(w) <= l.current
  /\ ObjectsOK(l)

\* Where the cursors of a list are when its walk has given w.
ListOK(l, w) ==
  /\ WalkOK(l, w)
  /\ IF l.store THEN StoringOK(l, w) ELSE PlainOK(l, w)

\* The lists that WalkComplete is about.
Walked(l) == l.fetched /\ ~(l.store /\ l.copied)

\* The inductive invariant.  X_list_next would repeat a row of a list whose
\* object_list_first is set: the list that is read into never has it.
ListsInv ==
  /\ ltable \in ListTables
  /\ lrows \in Seq(Rows) /\ calls \in Nat
  /\ lists \in [Both -> ListType] /\ walk \in [Both -> Seq(Nat)]
  /\ ~lists["list"].first
  /\ \A n \in Both : Walked(lists[n]) => ListOK(lists[n], walk[n])

\* What a call on a list leaves alone.
Same(l, m) ==
  /\ m \in ListType /\ m.store = l.store /\ m.result = l.result
  /\ m.fetched = l.fetched /\ m.copied = l.copied

\* a is l with room for the objects of a list that stores them.
HasRoom(l, a) ==
  /\ Same(l, a) /\ a.begun = l.begun /\ a.current = l.current
  /\ l.objects # <<>> => a.objects = l.objects
  /\ l.objects = <<>> =>
       /\ Len(a.objects) = Len(l.result)
       /\ \A i \in 1 .. Len(l.result) : a.objects[i] = NULL

\* c is l with the object at position p made from row r.
MadeAt(l, c, p, r) ==
  /\ Same(l, c) /\ c.position = l.position /\ c.first = l.first
  /\ c.begun = l.begun /\ c.current = l.current
  /\ Len(c.objects) = Len(l.objects) /\ c.objects # <<>>
  /\ c.objects[p + 1] \in Nat
  /\ \A i \in 1 .. Len(l.objects) :
       c.objects[i] = IF i = p + 1 /\ l.objects[i] = NULL THEN r
                      ELSE l.objects[i]

\* b is a with the cursor of its result moved on if the object at position p
\* is missing.
AdvancedFor(a, b, p) ==
  /\ Same(a, b) /\ b.objects = a.objects /\ b.first = a.first
  /\ b.position = a.position
  /\ a.objects[p + 1] # NULL => b.begun = a.begun /\ b.current = a.current
  /\ a.objects[p + 1] = NULL =>
       /\ b.begun
       /\ b.current = IF ~a.begun THEN IF a.result = <<>> THEN 0 ELSE 1
                      ELSE IF a.current \in 1 .. Len(a.result)
                      THEN a.current + 1 ELSE a.current

\* The objects that were made, with the one for position p among them.
MadeUpTo(l, c, p) ==
  /\ Len(c.objects) = Len(l.result) /\ c.begun
  /\ c.current \in 1 .. Len(l.result) /\ p + 1 <= c.current
  /\ \A i \in 1 .. Len(l.result) :
       c.objects[i] = IF i <= c.current THEN l.result[i] ELSE NULL

\* db_result_list_begin puts the cursor on the first row and leaves the rest
\* of the list alone.
LEMMA ResultBegins ==
  ASSUME NEW l \in ListType, NEW b, b = db_result_list_begin(l)
  PROVE  /\ Same(l, b) /\ b.objects = l.objects /\ b.position = l.position
         /\ b.first = l.first /\ b.begun
         /\ b.current = IF l.result = <<>> THEN 0 ELSE 1
BY Zenon DEF ListType, Same, db_result_list_begin

\* db_result_list_next moves the cursor one row on, up to one past the last.
LEMMA ResultGoesOn ==
  ASSUME NEW l \in ListType, NEW b, b = db_result_list_next(l)
  PROVE  /\ Same(l, b) /\ b.objects = l.objects /\ b.position = l.position
         /\ b.first = l.first /\ b.begun
         /\ b.current = IF ~l.begun THEN IF l.result = <<>> THEN 0 ELSE 1
                        ELSE IF l.current \in 1 .. Len(l.result)
                        THEN l.current + 1 ELSE l.current
<1>1. DOMAIN l.result = 1 .. Len(l.result)
  BY LenProperties, Zenon DEF ListType
<1>2. CASE ~l.begun
  BY <1>2, ResultBegins, Zenon DEF db_result_list_next
<1>3. CASE l.begun
  BY <1>1, <1>3 DEF ListType, Same, db_result_list_next
<1> QED BY <1>2, <1>3, Zenon DEF ListType

\* The row under the cursor is a row of the result, or NULL.
LEMMA CurrentRows ==
  ASSUME NEW l \in ListType
  PROVE  /\ CurrentRow(l) \in Nat
         /\ CurrentRow(l) = IF l.current \in 1 .. Len(l.result)
                            THEN l.result[l.current] ELSE NULL
<1>1. DOMAIN l.result = 1 .. Len(l.result) /\ l.result \in Seq(Rows)
  BY LenProperties, Zenon DEF ListType
<1>2. l.current \in 1 .. Len(l.result) => l.result[l.current] \in Rows
  BY <1>1, ElementOfSeq, Zenon
<1> QED BY <1>1, <1>2, Zenon DEF CurrentRow, Rows, NULL

\* X_list_begin and X_list_next make room for as many objects as there are
\* rows, once.
LEMMA RoomForObjects ==
  ASSUME NEW l \in ListType, NEW a, a = Allocated(l)
  PROVE  /\ HasRoom(l, a) /\ a.position = l.position /\ a.first = l.first
         /\ a.objects = <<>> <=> l.objects = <<>> /\ l.result = <<>>
<1> DEFINE o == [i \in 1 .. Len(l.result) |-> NULL]
<1>1. Len(l.result) \in Nat /\ (l.result = <<>> <=> Len(l.result) = 0)
  BY EmptySeq, LenProperties, Zenon DEF ListType
<1>2. o \in Seq(Nat) /\ Len(o) = Len(l.result)
  BY <1>1, IsASeq DEF NULL
<1>3. \A i \in 1 .. Len(l.result) : o[i] = NULL
  BY Zenon
<1>4. o = <<>> <=> l.result = <<>>
  BY <1>1, <1>2, EmptySeq, Zenon
<1> HIDE DEF o
<1>5. CASE l.objects = <<>>
  <2>1. a = [l EXCEPT !.objects = o]
    BY <1>5, Zenon DEF Allocated, db_result_list_size, o
  <2> QED BY <1>2, <1>3, <1>4, <1>5, <2>1, Zenon DEF ListType, Same, HasRoom
<1>6. CASE l.objects # <<>>
  BY <1>6, Zenon DEF Allocated, Same, HasRoom
<1> QED BY <1>5, <1>6, Zenon

\* Making an object at a position within the list changes no other object.
LEMMA ObjectsMade ==
  ASSUME NEW l \in ListType, NEW p \in Nat, p < Len(l.objects), NEW r \in Nat,
         NEW c, c = Stored(l, p, r)
  PROVE  MadeAt(l, c, p, r)
<1> DEFINE v == IF l.objects[p + 1] = NULL THEN r ELSE l.objects[p + 1]
           o == [l.objects EXCEPT ![p + 1] = v]
<1>1. l.objects \in Seq(Nat) /\ Len(l.objects) \in Nat
  BY LenProperties, Zenon DEF ListType
<1>2. p + 1 \in 1 .. Len(l.objects)
  BY <1>1
<1>3. v \in Nat
  BY <1>1, <1>2, ElementOfSeq, Zenon
<1>4. /\ o \in Seq(Nat) /\ Len(o) = Len(l.objects)
      /\ \A i \in 1 .. Len(l.objects) :
           o[i] = IF i = p + 1 THEN v ELSE l.objects[i]
  <2> HIDE DEF v
  <2> QED BY <1>1, <1>2, <1>3, ExceptSeq
<1>5. o # <<>>
  BY <1>2, <1>4, EmptySeq
<1>6. c = [l EXCEPT !.objects = o]
  BY Zenon DEF Stored, ListType
<1>7. \A i \in 1 .. Len(l.objects) :
        o[i] = IF i = p + 1 /\ l.objects[i] = NULL THEN r ELSE l.objects[i]
  BY <1>4
<1>8. o[p + 1] \in Nat
  BY <1>2, <1>3, <1>4, Zenon
<1> HIDE DEF o
<1> QED BY <1>4, <1>5, <1>6, <1>7, <1>8, Zenon DEF ListType, Same, MadeAt

\* The empty sequence is the one of length zero.
LEMMA SeqLengths ==
  ASSUME NEW S, NEW s \in Seq(S)
  PROVE  Len(s) \in Nat /\ (s = <<>> <=> Len(s) = 0)
BY EmptySeq, LenProperties, Zenon

\* The walk that X_list_begin starts has one row.
LEMMA OneRow ==
  ASSUME NEW r
  PROVE  <<r>> # <<>> /\ Len(<<r>>) = 1 /\ <<r>>[1] = r
BY Zenon

\* Setting the position changes nothing else.
LEMMA BackToTheStart ==
  ASSUME NEW c \in ListType, NEW p \in Nat, NEW d, d = [c EXCEPT !.position = p]
  PROVE  /\ Same(c, d) /\ d.position = p /\ d.objects = c.objects
         /\ d.first = c.first /\ d.begun = c.begun /\ d.current = c.current
BY Zenon DEF ListType, Same

\* X_list_begin gives the first row, whatever the walk before it did, and
\* leaves the cursors where a walk of one row has them.
LEMMA ListBegins ==
  ASSUME NEW l \in ListType, NEW g, g = list_begin(l)
  PROVE  /\ g.row \in Nat /\ Same(l, g.list)
         /\ ~l.first => ~g.list.first
         /\ \A w \in Seq(Nat) : ListOK(l, w) => ListOK(g.list, <<g.row>>)
<1> DEFINE a == Allocated(l)
           b == IF l.store /\ a.objects # <<>> /\ a.objects[1] # NULL THEN a
                ELSE db_result_list_begin(a)
           c == Stored(b, 0, CurrentRow(b))
           d == [c EXCEPT !.position = 0]
           e == db_result_list_begin(l)
<1>g. g = IF ~l.store THEN Gives(e, CurrentRow(e))
          ELSE IF a.objects = <<>> THEN Gives(l, NULL)
          ELSE Gives(d, c.objects[1])
  BY Zenon DEF list_begin
<1>n. /\ l.result \in Seq(Rows) /\ Len(l.result) \in Nat
      /\ l.result = <<>> <=> Len(l.result) = 0
      /\ l.store \in BOOLEAN
  BY SeqLengths, Zenon DEF ListType
<1>o. <<g.row>> # <<>> /\ Len(<<g.row>>) = 1 /\ <<g.row>>[1] = g.row
  BY OneRow, Zenon
<1>1. CASE ~l.store
  <2>1. g.list = e /\ g.row = CurrentRow(e)
    BY <1>g, <1>1 DEF Gives
  <2>2. /\ Same(l, e) /\ e.objects = l.objects /\ e.first = l.first /\ e.begun
        /\ e.current = IF l.result = <<>> THEN 0 ELSE 1
    BY ResultBegins, Zenon
  <2>3. /\ CurrentRow(e) \in Nat
        /\ CurrentRow(e) = IF e.current \in 1 .. Len(e.result)
                           THEN e.result[e.current] ELSE NULL
    BY <2>2, CurrentRows, Zenon DEF Same
  <2>4. CurrentRow(e) = RowAt(e, 1)
    BY <1>n, <2>2, <2>3 DEF RowAt, Same
  <2>5. ASSUME NEW w \in Seq(Nat), ListOK(l, w) PROVE ListOK(e, <<g.row>>)
    <3>1. WalkOK(e, <<g.row>>)
      BY <1>n, <1>o, <2>1, <2>2, <2>4 DEF WalkOK, Same
    <3>2. PlainOK(e, <<g.row>>)
      BY <1>1, <1>o, <2>2, <2>5, Zenon DEF ListOK, PlainOK, Same
    <3> QED BY <1>1, <2>2, <3>1, <3>2, Zenon DEF ListOK, Same
  <2> QED BY <2>1, <2>2, <2>3, <2>5, Zenon
<1>2. CASE l.store /\ a.objects = <<>>
  <2>1. g.list = l /\ g.row = NULL
    BY <1>g, <1>2 DEF Gives
  <2>2. l.objects = <<>> /\ l.result = <<>>
    BY <1>2, RoomForObjects, Zenon
  <2>3. ASSUME NEW w \in Seq(Nat), ListOK(l, w) PROVE ListOK(l, <<g.row>>)
    <3>1. WalkOK(l, <<g.row>>)
      BY <1>n, <1>o, <2>1, <2>2 DEF WalkOK, RowAt
    <3>2. StoringOK(l, <<g.row>>)
      BY <1>2, <1>o, <2>2, <2>3, Zenon DEF ListOK, StoringOK, ObjectsOK
    <3> QED BY <1>2, <3>1, <3>2, Zenon DEF ListOK
  <2> QED BY <2>1, <2>3 DEF Same, NULL
<1>3. CASE l.store /\ a.objects # <<>>
  <2>1. g.list = d /\ g.row = c.objects[1]
    BY <1>g, <1>3 DEF Gives
  <2>2. /\ HasRoom(l, a) /\ a.first = l.first
        /\ ~(l.objects = <<>> /\ l.result = <<>>)
    BY <1>3, RoomForObjects, Zenon
  <2>a. a \in ListType /\ a.objects \in Seq(Nat) /\ Len(a.objects) \in Nat \ {0}
    BY <1>3, <2>2, SeqLengths, Zenon DEF HasRoom, Same, ListType
  <2> HIDE DEF a
  <2>3. /\ Same(a, b) /\ b.objects = a.objects /\ b.first = a.first
        /\ a.objects[1] # NULL => b.begun = a.begun /\ b.current = a.current
        /\ a.objects[1] = NULL =>
             b.begun /\ b.current = IF a.result = <<>> THEN 0 ELSE 1
    <3>1. CASE a.objects[1] # NULL
      BY <1>3, <2>a, <3>1, Zenon DEF Same
    <3>2. CASE a.objects[1] = NULL
      <4>1. b = db_result_list_begin(a)
        BY <3>2, Zenon
      <4> HIDE DEF b
      <4> QED BY <2>a, <3>2, <4>1, ResultBegins, Zenon
    <3> QED BY <3>1, <3>2, Zenon
  <2> HIDE DEF b
  <2>4. /\ b \in ListType /\ CurrentRow(b) \in Nat
        /\ CurrentRow(b) = IF b.current \in 1 .. Len(b.result)
                           THEN b.result[b.current] ELSE NULL
    BY <2>3, CurrentRows, Zenon DEF Same
  <2>5. MadeAt(b, c, 0, CurrentRow(b)) /\ c.objects[1] \in Nat
    <3>1. 0 < Len(b.objects) /\ 0 \in Nat
      BY <2>a, <2>3
    <3>2. MadeAt(b, c, 0, CurrentRow(b))
      BY <2>4, <3>1, ObjectsMade, Zenon
    <3>3. c.objects[0 + 1] \in Nat /\ 0 + 1 = 1
      BY <3>2 DEF MadeAt
    <3> QED BY <3>2, <3>3, Zenon
  <2> HIDE DEF c
  <2>6. /\ Same(c, d) /\ d.position = 0 /\ d.objects = c.objects
        /\ d.first = c.first /\ d.begun = c.begun /\ d.current = c.current
    <3>1. c \in ListType /\ 0 \in Nat
      BY <2>5, Zenon DEF MadeAt, Same
    <3> QED BY <3>1, BackToTheStart
  <2> HIDE DEF d
  <2>7. Same(l, d) /\ d.first = l.first
    BY <2>2, <2>3, <2>5, <2>6 DEF Same, HasRoom, MadeAt
  <2>8. ASSUME NEW w \in Seq(Nat), ListOK(l, w) PROVE ListOK(d, <<g.row>>)
    <3>1. StoringOK(l, w)
      BY <1>3, <2>8, Zenon DEF ListOK
    <3>2. ASSUME l.objects = <<>> PROVE MadeUpTo(l, d, 0)
      <4>1. /\ Len(a.objects) = Len(l.result) /\ Len(l.result) > 0
            /\ \A i \in 1 .. Len(l.result) : a.objects[i] = NULL
        BY <1>n, <2>2, <3>2 DEF HasRoom
      <4>2. b.begun /\ b.current = 1 /\ b.result = l.result
        BY <1>n, <2>2, <2>3, <4>1 DEF HasRoom, Same
      <4>3. CurrentRow(b) = l.result[1]
        BY <1>n, <2>4, <4>1, <4>2
      <4>4. \A i \in 1 .. Len(l.result) :
              d.objects[i] = IF i <= 1 THEN l.result[i] ELSE NULL
        BY <2>3, <2>5, <2>6, <4>1, <4>3 DEF MadeAt
      <4> QED BY <1>n, <2>3, <2>5, <2>6, <4>1, <4>2, <4>4 DEF MadeUpTo, MadeAt
    <3>3. ASSUME l.objects # <<>> PROVE MadeUpTo(l, d, 0)
      <4>1. /\ Len(l.objects) = Len(l.result) /\ l.begun
            /\ l.current \in 1 .. Len(l.result)
            /\ \A i \in 1 .. Len(l.result) :
                 l.objects[i] = IF i <= l.current THEN l.result[i] ELSE NULL
        BY <3>1, <3>3, Zenon DEF StoringOK, ObjectsOK
      <4>2. a.objects = l.objects /\ a.objects[1] # NULL
        <5>1. l.result[1] \in Rows
          BY <1>n, <4>1, ElementOfSeq
        <5>2. 1 \in 1 .. Len(l.result) /\ 1 <= l.current
          BY <1>n, <4>1
        <5>3. l.objects[1] = l.result[1]
          BY <4>1, <5>2, Zenon
        <5> QED BY <2>2, <3>3, <5>1, <5>3, Zenon DEF Rows, NULL, HasRoom
      <4>3. d.begun /\ d.current = l.current
        BY <2>2, <2>3, <2>5, <2>6, <4>1, <4>2, Zenon DEF HasRoom, MadeAt
      <4>4. b.objects = l.objects /\ b.objects[1] # NULL /\ 0 + 1 = 1
        BY <2>3, <4>2
      <4>5. Len(d.objects) = Len(l.objects)
            /\ \A i \in 1 .. Len(l.objects) : d.objects[i] = l.objects[i]
        BY <2>5, <2>6, <4>4 DEF MadeAt
      <4> QED BY <4>1, <4>3, <4>5 DEF MadeUpTo
    <3>4. MadeUpTo(l, d, 0)
      BY <3>2, <3>3, Zenon
    <3>5. d.objects[1] = l.result[1] /\ Len(l.result) > 0
      BY <1>n, <3>4 DEF MadeUpTo
    <3>6. d.objects # <<>>
      BY <2>5, <2>6, Zenon DEF MadeAt
    <3>7. WalkOK(d, <<g.row>>)
      BY <1>n, <1>o, <2>1, <2>6, <2>7, <3>5 DEF WalkOK, RowAt, Same
    <3>8. StoringOK(d, <<g.row>>)
      BY <1>n, <1>o, <2>6, <2>7, <3>1, <3>4, <3>6
         DEF StoringOK, ObjectsOK, Same, MadeUpTo
    <3> QED BY <1>3, <2>7, <3>7, <3>8, Zenon DEF ListOK, Same
  <2> QED BY <2>1, <2>5, <2>7, <2>8, Zenon
<1> QED BY <1>n, <1>1, <1>2, <1>3, Zenon

\* A walk that has not given NULL has given no more rows than were read.
LEMMA NotAtTheEnd ==
  ASSUME NEW l \in ListType, NEW w \in Seq(Nat), WalkOK(l, w),
         w # <<>> => w[Len(w)] # NULL
  PROVE  Len(w) <= Len(l.result)
<1>1. Len(w) \in Nat /\ (w = <<>> <=> Len(w) = 0) /\ Len(l.result) \in Nat
  BY SeqLengths, Zenon DEF ListType
<1>2. CASE w = <<>>
  BY <1>1, <1>2
<1>3. CASE w # <<>>
  BY <1>1, <1>3 DEF WalkOK, RowAt
<1> QED BY <1>2, <1>3, Zenon

\* A walk stays complete when the next row is the next one of the result.
LEMMA WalkGrows ==
  ASSUME NEW l \in ListType, NEW m, m.result = l.result,
         NEW w \in Seq(Nat), WalkOK(l, w), Len(w) <= Len(l.result),
         NEW r \in Nat, r = RowAt(l, Len(w) + 1)
  PROVE  /\ WalkOK(m, Append(w, r)) /\ Append(w, r) # <<>>
         /\ Append(w, r) \in Seq(Nat)
         /\ Len(Append(w, r)) = Len(w) + 1
<1>1. Len(w) \in Nat /\ Len(l.result) \in Nat
  BY SeqLengths, Zenon DEF ListType
<1>2. /\ Append(w, r) \in Seq(Nat) /\ Len(Append(w, r)) = Len(w) + 1
      /\ \A i \in 1 .. Len(w) + 1 :
           Append(w, r)[i] = IF i <= Len(w) THEN w[i] ELSE r
  BY <1>1
<1>3. Append(w, r) # <<>>
  BY <1>1, <1>2, SeqLengths
<1>4. ASSUME NEW i \in 1 .. Len(w) + 1 PROVE Append(w, r)[i] = RowAt(l, i)
  <2>1. CASE i <= Len(w)
    BY <1>1, <1>2, <2>1 DEF WalkOK
  <2>2. CASE i > Len(w)
    <3>1. i = Len(w) + 1
      BY <1>1, <2>2
    <3> QED BY <1>1, <1>2, <3>1
  <2> QED BY <1>1, <2>1, <2>2
<1>5. Len(w) + 1 <= Len(m.result) + 1
  BY <1>1
<1>6. \A i \in 1 .. Len(w) + 1 : RowAt(m, i) = RowAt(l, i)
  BY Zenon DEF RowAt
<1>7. WalkOK(m, Append(w, r))
  BY <1>2, <1>4, <1>5, <1>6, Zenon DEF WalkOK
<1> QED BY <1>2, <1>3, <1>7, Zenon

\* The objects of a list that were made up to some position are in order.
LEMMA ObjectsUpTo ==
  ASSUME NEW l, NEW c, NEW p, MadeUpTo(l, c, p), c.result = l.result
  PROVE  ObjectsOK(c)
BY DEF ObjectsOK, MadeUpTo

\* The next object of a walk, made or found, continues the walk.
LEMMA NextObjectInTurn ==
  ASSUME NEW l \in ListType, NEW a \in ListType, NEW b \in ListType,
         NEW c \in ListType, NEW p \in Nat, p = NextPosition(l),
         p < Len(a.objects), HasRoom(l, a), AdvancedFor(a, b, p),
         MadeAt(b, c, p, CurrentRow(b)),
         NEW w \in Seq(Nat), StoringOK(l, w), Len(w) <= Len(l.result)
  PROVE  MadeUpTo(l, c, p) /\ p = Len(w)
<1>n. /\ l.result \in Seq(Rows) /\ Len(l.result) \in Nat
      /\ l.result = <<>> <=> Len(l.result) = 0
      /\ a.result = l.result /\ b.result = l.result
      /\ Len(w) \in Nat /\ (w = <<>> <=> Len(w) = 0)
  BY SeqLengths DEF ListType, Same, HasRoom, AdvancedFor
<1>r. CurrentRow(b) = IF b.current \in 1 .. Len(b.result)
                      THEN b.result[b.current] ELSE NULL
  BY CurrentRows, Zenon
<1>c. /\ c.begun = b.begun /\ c.current = b.current
      /\ b.objects = a.objects /\ Len(c.objects) = Len(a.objects)
      /\ \A i \in 1 .. Len(a.objects) :
           c.objects[i] = IF i = p + 1 /\ a.objects[i] = NULL
                          THEN CurrentRow(b) ELSE a.objects[i]
  BY Zenon DEF MadeAt, AdvancedFor
<1>1. CASE l.objects = <<>>
  <2>1. /\ Len(a.objects) = Len(l.result) /\ Len(l.result) > 0 /\ p = 0
        /\ \A i \in 1 .. Len(l.result) : a.objects[i] = NULL
    BY <1>n, <1>1, Zenon DEF NextPosition, HasRoom
  <2>2. w = <<>> /\ ~l.begun
    BY <1>n, <1>1, <2>1 DEF StoringOK
  <2>3. a.objects[p + 1] = NULL /\ p + 1 = 1 /\ 1 \in 1 .. Len(l.result)
    BY <1>n, <2>1
  <2>4. b.begun /\ b.current = 1
    BY <1>n, <2>1, <2>2, <2>3 DEF AdvancedFor, HasRoom
  <2>5. CurrentRow(b) = l.result[1]
    BY <1>n, <1>r, <2>3, <2>4, Zenon
  <2>6. \A i \in 1 .. Len(l.result) :
          c.objects[i] = IF i <= 1 THEN l.result[i] ELSE NULL
    BY <1>n, <1>c, <2>1, <2>3, <2>5
  <2> QED BY <1>n, <1>c, <2>1, <2>2, <2>3, <2>4, <2>6 DEF MadeUpTo
<1>2. CASE l.objects # <<>>
  <2>1. /\ Len(l.objects) = Len(l.result) /\ l.begun
        /\ l.current \in 1 .. Len(l.result)
        /\ \A i \in 1 .. Len(l.result) :
             l.objects[i] = IF i <= l.current THEN l.result[i] ELSE NULL
    BY <1>2, Zenon DEF StoringOK, ObjectsOK
  <2>2. p = Len(w) /\ Len(w) <= l.current
    <3>1. w # <<>> /\ ~l.first
      BY <1>2, Zenon DEF StoringOK
    <3>2. l.position = Len(w) - 1 /\ Len(w) <= l.current
      BY <1>n, <2>1, <3>1 DEF StoringOK
    <3> QED BY <1>n, <1>2, <3>1, <3>2 DEF NextPosition
  <2>3. /\ a.objects = l.objects /\ p + 1 \in 1 .. Len(l.result)
        /\ a.begun = l.begun /\ a.current = l.current
    BY <1>n, <1>2, <2>1 DEF HasRoom
  <2>4. CASE p + 1 <= l.current
    <3>1. a.objects[p + 1] # NULL
      <4>1. l.result[p + 1] \in Rows
        BY <1>n, <2>3, ElementOfSeq, Zenon
      <4> QED BY <2>1, <2>3, <2>4, <4>1, Zenon DEF Rows, NULL
    <3>2. c.begun /\ c.current = l.current
      BY <1>c, <2>1, <2>3, <3>1, Zenon DEF AdvancedFor
    <3>3. \A i \in 1 .. Len(l.result) : c.objects[i] = l.objects[i]
      BY <1>c, <2>1, <2>3, <3>1
    <3>4. Len(c.objects) = Len(l.result)
      BY <1>c, <2>1, <2>3, Zenon
    <3> QED BY <2>1, <2>2, <2>4, <3>2, <3>3, <3>4 DEF MadeUpTo
  <2>5. CASE l.current < p + 1
    <3>1. l.current = p /\ a.objects[p + 1] = NULL
      BY <1>n, <2>1, <2>2, <2>3, <2>5
    <3>2. b.begun /\ b.current = p + 1
      BY <1>n, <2>1, <2>3, <3>1, Zenon DEF AdvancedFor
    <3>3. CurrentRow(b) = l.result[p + 1]
      BY <1>n, <1>r, <2>3, <3>2, Zenon
    <3>4. ASSUME NEW i \in 1 .. Len(l.result)
          PROVE  c.objects[i] = IF i <= p + 1 THEN l.result[i] ELSE NULL
      <4>1. CASE i = p + 1
        BY <1>c, <2>1, <2>3, <3>1, <3>3, <4>1
      <4>2. CASE i # p + 1
        <5>1. c.objects[i] = l.objects[i]
          BY <1>c, <2>1, <2>3, <4>2, Zenon
        <5> QED BY <1>n, <2>1, <3>1, <4>2, <5>1
      <4> QED BY <4>1, <4>2, Zenon
    <3>5. Len(c.objects) = Len(l.result)
      BY <1>c, <2>1, <2>3, Zenon
    <3> QED BY <1>c, <2>2, <2>3, <3>2, <3>4, <3>5 DEF MadeUpTo
  <2>6. p + 1 <= l.current \/ l.current < p + 1
    BY <1>n, <2>1
  <2> QED BY <2>4, <2>5, <2>6, Zenon
<1> QED BY <1>1, <1>2, Zenon

\* The walk goes on with the object that was made or found.
LEMMA NextObjectGiven ==
  ASSUME NEW l \in ListType, NEW c \in ListType, NEW p \in Nat,
         Same(l, c), ~l.first => ~c.first, c.position = p,
         c.objects[p + 1] \in Nat, c.objects # <<>>,
         NEW w \in Seq(Nat), l.store, ListOK(l, w), Len(w) <= Len(l.result),
         MadeUpTo(l, c, p), p = Len(w)
  PROVE  ListOK(c, Append(w, c.objects[p + 1]))
<1> DEFINE r == c.objects[p + 1]
           v == Append(w, r)
<1>1. StoringOK(l, w) /\ WalkOK(l, w) /\ ~l.first
  BY Zenon DEF ListOK, StoringOK
<1>2. c.result = l.result /\ c.store = l.store
  BY Zenon DEF Same
<1>3. r = RowAt(l, Len(w) + 1) /\ Len(w) \in Nat
  <2>1. Len(w) \in Nat /\ Len(l.result) \in Nat
    BY SeqLengths, Zenon DEF ListType
  <2> QED BY <2>1 DEF MadeUpTo, RowAt
<1>4. WalkOK(c, v) /\ v # <<>> /\ Len(v) = Len(w) + 1
  <2>1. r \in Nat
    BY Zenon
  <2> HIDE DEF r
  <2> QED BY <1>1, <1>2, <1>3, <2>1, WalkGrows, Zenon
<1>5. ObjectsOK(c)
  BY <1>2, ObjectsUpTo, Zenon
<1>6. Len(w) + 1 <= c.current
  BY Zenon DEF MadeUpTo
<1> HIDE DEF v
<1>7. Len(v) <= c.current /\ c.position = Len(v) - 1
  BY <1>3, <1>4, <1>6
<1>8. StoringOK(c, v)
  BY <1>1, <1>4, <1>5, <1>7, Zenon DEF StoringOK
<1>9. ListOK(c, v)
  BY <1>2, <1>4, <1>8, Zenon DEF ListOK
<1> QED BY <1>9, Zenon DEF v

\* A list that stores its objects makes the next one, or has it already.
LEMMA NextObject ==
  ASSUME NEW l \in ListType, NEW a \in ListType, NEW p \in Nat,
         p = NextPosition(l), HasRoom(l, a), a.position = p,
         ~l.first => ~a.first, p < Len(a.objects),
         NEW b, b = IF p < Len(a.objects) /\ a.objects[p + 1] # NULL THEN a
                    ELSE db_result_list_next(a),
         NEW c, c = Stored(b, p, CurrentRow(b))
  PROVE  /\ Same(l, c) /\ c.objects[p + 1] \in Nat
         /\ ~l.first => ~c.first
         /\ \A w \in Seq(Nat) :
              l.store /\ ListOK(l, w) /\ Len(w) <= Len(l.result)
              => ListOK(c, Append(w, c.objects[p + 1]))
<1>1. AdvancedFor(a, b, p)
  <2>1. CASE a.objects[p + 1] # NULL
    BY <2>1, Zenon DEF AdvancedFor, Same
  <2>2. CASE a.objects[p + 1] = NULL
    <3>1. b = db_result_list_next(a)
      BY <2>2, Zenon
    <3> QED BY <2>2, <3>1, ResultGoesOn, Zenon DEF AdvancedFor
  <2> QED BY <2>1, <2>2, Zenon
<1>2. b \in ListType /\ CurrentRow(b) \in Nat /\ p < Len(b.objects)
  BY <1>1, CurrentRows, Zenon DEF Same, AdvancedFor
<1>3. MadeAt(b, c, p, CurrentRow(b))
  BY <1>2, ObjectsMade, Zenon
<1>4. /\ Same(l, c) /\ (~l.first => ~c.first) /\ c.position = p
      /\ c \in ListType /\ c.objects[p + 1] \in Nat /\ c.objects # <<>>
  <2>1. Same(l, a) /\ Same(a, b) /\ Same(b, c)
    BY <1>1, <1>3, Zenon DEF HasRoom, AdvancedFor, MadeAt
  <2>2. /\ c.first = a.first /\ c.position = p
        /\ c.objects[p + 1] \in Nat /\ c.objects # <<>>
    BY <1>1, <1>3, Zenon DEF AdvancedFor, MadeAt
  <2> QED BY <2>1, <2>2, Zenon DEF Same
<1>5. ASSUME NEW w \in Seq(Nat), l.store, ListOK(l, w),
             Len(w) <= Len(l.result)
      PROVE  ListOK(c, Append(w, c.objects[p + 1]))
  <2>1. StoringOK(l, w)
    BY <1>5, Zenon DEF ListOK
  <2>2. b \in ListType /\ c \in ListType
    BY <1>2, <1>4, Zenon
  <2>3. MadeUpTo(l, c, p) /\ p = Len(w)
    BY <1>1, <1>3, <1>5, <2>1, <2>2, NextObjectInTurn
  <2> QED BY <1>4, <1>5, <2>3, NextObjectGiven, SMTT(20)
<1> QED BY <1>4, <1>5, Zenon

\* X_list_next gives the row after the one that was given last, or the first
\* one when the walk was not begun.
LEMMA ListGoesOn ==
  ASSUME NEW l \in ListType, NEW g, g = list_next(l)
  PROVE  /\ g.row \in Nat /\ Same(l, g.list)
         /\ ~l.first => ~g.list.first
         /\ \A w \in Seq(Nat) :
              ListOK(l, w) /\ (w # <<>> => w[Len(w)] # NULL)
              => ListOK(g.list, Append(w, g.row))
<1> DEFINE p == NextPosition(l)
           f == IF l.objects # <<>> THEN FALSE ELSE l.first
           a0 == Allocated(l)
           a == [a0 EXCEPT !.position = p, !.first = f]
           b == IF p < Len(a.objects) /\ a.objects[p + 1] # NULL THEN a
                ELSE db_result_list_next(a)
           c == Stored(b, p, CurrentRow(b))
           e == db_result_list_next(l)
<1>0. HasRoom(l, a0) /\ a0.first = l.first /\ a0 \in ListType
      /\ (a0.objects = <<>> <=> l.objects = <<>> /\ l.result = <<>>)
  BY RoomForObjects DEF HasRoom, Same
<1>g. g = IF ~l.store THEN Gives(e, CurrentRow(e))
          ELSE IF a.objects = <<>> THEN Gives(l, NULL)
          ELSE IF p >= Len(a.objects) THEN Gives(a, NULL)
          ELSE Gives(c, c.objects[p + 1])
  <2>1. a = [Allocated(l) EXCEPT !.position = p,
               !.first = IF l.objects # <<>> THEN FALSE ELSE @]
    BY <1>0, Zenon DEF ListType
  <2> QED BY <2>1, Zenon DEF list_next
<1>n. /\ l.result \in Seq(Rows) /\ Len(l.result) \in Nat
      /\ l.result = <<>> <=> Len(l.result) = 0
      /\ l.store \in BOOLEAN /\ l.first \in BOOLEAN /\ p \in Nat
  BY SeqLengths DEF ListType, NextPosition
<1>a. /\ HasRoom(l, a) /\ a.position = p /\ a \in ListType /\ a.first = f
      /\ a.objects = <<>> <=> l.objects = <<>> /\ l.result = <<>>
      /\ Same(l, a) /\ a.objects \in Seq(Nat) /\ Len(a.objects) \in Nat
  <2>1. f \in BOOLEAN
    BY <1>n, Zenon
  <2> HIDE DEF f, a0, p
  <2>2. /\ Same(a0, a) /\ a.position = p /\ a.objects = a0.objects
        /\ a.first = f /\ a.begun = a0.begun /\ a.current = a0.current
    <3>1. a = [a0 EXCEPT !.position = p, !.first = f] /\ a0 \in ListType
      BY <1>0, Zenon
    <3> HIDE DEF a
    <3>2. p \in Nat
      BY <1>n, Zenon
    <3> QED BY <2>1, <3>1, <3>2, Zenon DEF ListType, Same
  <2> HIDE DEF a
  <2>3. HasRoom(l, a) /\ Same(l, a) /\ a \in ListType
    BY <1>0, <2>2, Zenon DEF HasRoom, Same
  <2>4. a.objects \in Seq(Nat) /\ Len(a.objects) \in Nat
    BY <2>3, SeqLengths, Zenon DEF ListType
  <2> QED BY <1>0, <2>2, <2>3, <2>4, Zenon
<1> HIDE DEF a, a0
<1>1. CASE ~l.store
  <2>1. g.list = e /\ g.row = CurrentRow(e)
    BY <1>g, <1>1 DEF Gives
  <2>2. /\ Same(l, e) /\ e.objects = l.objects /\ e.first = l.first /\ e.begun
        /\ e.current = IF ~l.begun THEN IF l.result = <<>> THEN 0 ELSE 1
                       ELSE IF l.current \in 1 .. Len(l.result)
                       THEN l.current + 1 ELSE l.current
    BY ResultGoesOn, Zenon
  <2> HIDE DEF e
  <2>3. /\ CurrentRow(e) \in Nat /\ e.result = l.result
        /\ CurrentRow(e) = IF e.current \in 1 .. Len(l.result)
                           THEN l.result[e.current] ELSE NULL
    BY <2>2, CurrentRows, Zenon DEF Same
  <2>4. ASSUME NEW w \in Seq(Nat), ListOK(l, w),
               w # <<>> => w[Len(w)] # NULL
        PROVE  ListOK(e, Append(w, g.row))
    <3> DEFINE r == g.row
               v == Append(w, r)
    <3>1. WalkOK(l, w) /\ PlainOK(l, w)
      BY <1>1, <2>4, Zenon DEF ListOK
    <3>2. Len(w) <= Len(l.result) /\ Len(w) \in Nat /\ (w = <<>> <=> Len(w) = 0)
      BY <2>4, <3>1, NotAtTheEnd, SeqLengths, Zenon
    <3>3. l.result # <<>> => e.current = Len(w) + 1
      <4>1. CASE w = <<>>
        BY <2>2, <3>1, <3>2, <4>1 DEF PlainOK
      <4>2. CASE w # <<>>
        <5>1. l.result # <<>> => l.begun /\ l.current \in 1 .. Len(l.result)
                                 /\ l.current = Len(w)
          BY <1>n, <3>1, <3>2, <4>2 DEF PlainOK
        <5> QED BY <2>2, <5>1, Zenon
      <4> QED BY <4>1, <4>2, Zenon
    <3>4. r = RowAt(l, Len(w) + 1) /\ r \in Nat
      <4>1. CASE l.result = <<>>
        BY <1>n, <2>1, <2>3, <3>2, <4>1 DEF RowAt
      <4>2. CASE l.result # <<>>
        BY <1>n, <2>1, <2>3, <3>2, <3>3, <4>2 DEF RowAt
      <4> QED BY <4>1, <4>2, Zenon
    <3> HIDE DEF r
    <3>5. WalkOK(e, v) /\ v # <<>> /\ Len(v) = Len(w) + 1
      BY <2>3, <3>1, <3>2, <3>4, WalkGrows, SMTT(20)
    <3> HIDE DEF v
    <3>6. PlainOK(e, v)
      BY <2>2, <2>3, <3>1, <3>3, <3>5, Zenon DEF PlainOK
    <3>7. ListOK(e, v)
      BY <1>1, <2>2, <3>5, <3>6, Zenon DEF ListOK, Same
    <3> QED BY <3>7, Zenon DEF v, r
  <2> QED BY <2>1, <2>2, <2>3, <2>4, Zenon
<1>2. CASE l.store /\ a.objects = <<>>
  <2>1. g.list = l /\ g.row = NULL /\ NULL \in Nat
    BY <1>g, <1>2 DEF Gives, NULL
  <2>2. l.objects = <<>> /\ l.result = <<>> /\ Len(l.result) = 0
    BY <1>2, <1>a, <1>n, Zenon
  <2>3. ASSUME NEW w \in Seq(Nat), ListOK(l, w),
               w # <<>> => w[Len(w)] # NULL
        PROVE  ListOK(l, Append(w, NULL))
    <3>1. WalkOK(l, w) /\ StoringOK(l, w)
      BY <1>2, <2>3, Zenon DEF ListOK
    <3>2. Len(w) <= Len(l.result) /\ Len(w) \in Nat
      BY <2>3, <3>1, NotAtTheEnd, SeqLengths, Zenon
    <3>3. NULL = RowAt(l, Len(w) + 1)
      BY <2>2, <3>2 DEF RowAt
    <3>4. WalkOK(l, Append(w, NULL)) /\ Append(w, NULL) # <<>>
      BY <2>1, <3>1, <3>2, <3>3, WalkGrows, Zenon
    <3>5. StoringOK(l, Append(w, NULL))
      BY <2>2, <3>1, <3>4, Zenon DEF StoringOK
    <3> QED BY <1>2, <3>4, <3>5, Zenon DEF ListOK
  <2> QED BY <2>1, <2>3, Zenon DEF Same
<1>3. CASE l.store /\ a.objects # <<>> /\ p >= Len(a.objects)
  <2>1. g.list = a /\ g.row = NULL /\ NULL \in Nat
    BY <1>g, <1>3 DEF Gives, NULL
  <2>2. ASSUME NEW w \in Seq(Nat), ListOK(l, w),
               w # <<>> => w[Len(w)] # NULL
        PROVE  ListOK(a, Append(w, NULL))
    <3>1. WalkOK(l, w) /\ StoringOK(l, w)
      BY <1>3, <2>2, Zenon DEF ListOK
    <3>2. Len(w) <= Len(l.result) /\ Len(w) \in Nat
      BY <2>2, <3>1, NotAtTheEnd, SeqLengths, Zenon
    <3>3. l.objects # <<>> /\ a.objects = l.objects
      <4>1. ASSUME l.objects = <<>> PROVE FALSE
        <5>1. p = 0 /\ Len(a.objects) = Len(l.result) /\ l.result # <<>>
          BY <1>3, <1>a, <4>1, Zenon DEF NextPosition, HasRoom
        <5> QED BY <1>n, <1>3, <5>1
      <4> QED BY <1>a, <4>1, Zenon DEF HasRoom
    <3>4. /\ Len(l.objects) = Len(l.result) /\ l.result # <<>> /\ ~l.first
          /\ w # <<>> /\ l.position = Len(w) - 1
      <4>1. Len(l.objects) = Len(l.result) /\ l.current \in 1 .. Len(l.result)
        BY <3>1, <3>3, Zenon DEF StoringOK, ObjectsOK
      <4> QED BY <1>n, <3>1, <3>3, <4>1 DEF StoringOK
    <3>5. p = Len(w) /\ Len(w) = Len(l.result)
      <4>1. p = Len(w)
        BY <3>2, <3>3, <3>4 DEF NextPosition
      <4> QED BY <1>n, <1>3, <3>2, <3>3, <3>4, <4>1
    <3> HIDE DEF p
    <3>6. NULL = RowAt(l, Len(w) + 1) /\ a.result = l.result
      BY <1>n, <1>a, <3>2, <3>5 DEF RowAt, Same
    <3>7. /\ WalkOK(a, Append(w, NULL)) /\ Append(w, NULL) # <<>>
          /\ Len(Append(w, NULL)) = Len(w) + 1
      BY <2>1, <3>1, <3>2, <3>6, WalkGrows, Zenon
    <3> DEFINE v == Append(w, NULL)
    <3>v. WalkOK(a, v) /\ v # <<>> /\ Len(v) = Len(w) + 1
      BY <3>7, Zenon
    <3> HIDE DEF v
    <3>8. ObjectsOK(a)
      BY <1>a, <3>1, <3>3, <3>6, Zenon DEF StoringOK, ObjectsOK, HasRoom
    <3>9. a.position = Len(v) - 1 /\ ~(Len(v) <= Len(a.result)) /\ ~a.first
      BY <1>n, <1>a, <3>2, <3>3, <3>5, <3>6, <3>v
    <3>10. StoringOK(a, v)
      BY <1>3, <3>v, <3>8, <3>9, Zenon DEF StoringOK
    <3>11. ListOK(a, v)
      BY <1>3, <1>a, <3>v, <3>10, Zenon DEF ListOK, Same
    <3> QED BY <3>11, Zenon DEF v
  <2> QED BY <1>a, <2>1, <2>2, Zenon
<1>4. CASE l.store /\ a.objects # <<>> /\ p < Len(a.objects)
  <2>1. g.list = c /\ g.row = c.objects[p + 1]
    <3>1. ~(p >= Len(a.objects))
      BY <1>n, <1>a, <1>4
    <3> HIDE DEF b, c, e, f, p
    <3>2. g = Gives(c, c.objects[p + 1])
      BY <1>g, <1>4, <3>1, Zenon
    <3> QED BY <3>2 DEF Gives
  <2>2. ~l.first => ~a.first
    BY <1>a, Zenon
  <2> HIDE DEF f
  <2>3. /\ Same(l, c) /\ c.objects[p + 1] \in Nat
        /\ ~l.first => ~c.first
        /\ \A w \in Seq(Nat) :
             l.store /\ ListOK(l, w) /\ Len(w) <= Len(l.result)
             => ListOK(c, Append(w, c.objects[p + 1]))
    <3>1. /\ b = IF p < Len(a.objects) /\ a.objects[p + 1] # NULL THEN a
                 ELSE db_result_list_next(a)
          /\ c = Stored(b, p, CurrentRow(b)) /\ p = NextPosition(l)
      BY Zenon
    <3>2. p \in Nat
      BY <1>n, Zenon
    <3> HIDE DEF b, c, p
    <3>3. HasRoom(l, a) /\ a.position = p /\ p < Len(a.objects)
      BY <1>a, <1>4, Zenon
    <3> QED BY <1>a, <2>2, <3>1, <3>2, <3>3, NextObject, Zenon
  <2> HIDE DEF b, c
  <2>4. \A w \in Seq(Nat) : ListOK(l, w) /\ (w # <<>> => w[Len(w)] # NULL)
                            => Len(w) <= Len(l.result)
    BY NotAtTheEnd, Zenon DEF ListOK
  <2> QED BY <1>4, <2>1, <2>3, <2>4, Zenon
<1> QED BY <1>n, <1>a, <1>1, <1>2, <1>3, <1>4

\* The functions of the seven tables do what the template does.
LEMMA TablesFollowTheTemplate ==
  ASSUME ltable \in ListTables, NEW l, NEW found
  PROVE  /\ DoGet(l, found) = list_get(l, found)
         /\ DoGetByClauses(l, found) = list_get_by_clauses(l, found)
         /\ DoGetByParent(l, found) = list_get_by_clauses(l, found)
         /\ DoBegin(l) = list_begin(l)
         /\ DoGetBegin(l).list = list_begin(l).list
         /\ DoGetBegin(l).row = list_begin(l).row
         /\ DoNext(l) = list_next(l)
         /\ DoGetNext(l).list = list_next(l).list
         /\ DoGetNext(l).row = list_next(l).row
         /\ DoSize(l) = list_size(l)
         /\ DoCopy(l) = list_copy(l)
<1> USE DEF ListTables
<1>1. DoGet(l, found) = list_get(l, found)
  BY Zenon DEF DoGet, zone_list_db_get, policy_list_get, policy_key_list_get,
         hsm_key_list_get, key_data_list_get, key_state_list_get,
         key_dependency_list_get
<1>2. DoGetByClauses(l, found) = list_get_by_clauses(l, found)
  BY Zenon DEF DoGetByClauses, zone_list_db_get_by_clauses,
         policy_list_get_by_clauses, policy_key_list_get_by_clauses,
         hsm_key_list_get_by_clauses, key_data_list_get_by_clauses,
         key_state_list_get_by_clauses, key_dependency_list_get_by_clauses
<1>3. DoGetByParent(l, found) = list_get_by_clauses(l, found)
  BY Zenon DEF DoGetByParent, zone_list_db_get_by_policy_id,
         policy_key_list_get_by_policy_id, hsm_key_list_get_by_policy_id,
         key_data_list_get_by_zone_id, key_state_list_get_by_key_data_id,
         key_dependency_list_get_by_zone_id, policy_list_get_by_clauses
<1>4. DoBegin(l) = list_begin(l)
  BY Zenon DEF DoBegin, zone_list_db_begin, policy_list_begin,
         policy_key_list_begin, hsm_key_list_begin, key_data_list_begin,
         key_state_list_begin, key_dependency_list_begin
<1>5. \A c : /\ list_get_begin(l, c, c).list = list_begin(l).list
             /\ list_get_begin(l, c, c).row = list_begin(l).row
  BY Zenon DEF list_get_begin, Gives
<1>6. \A c : /\ list_get_next(l, c, c).list = list_next(l).list
             /\ list_get_next(l, c, c).row = list_next(l).row
  BY Zenon DEF list_get_next, Gives
<1>7. /\ DoGetBegin(l).list = list_begin(l).list
      /\ DoGetBegin(l).row = list_begin(l).row
  BY <1>4, <1>5, Zenon
     DEF DoGetBegin, hsm_key_list_get_begin, key_data_list_get_begin,
         key_state_list_get_begin, key_dependency_list_get_begin,
         hsm_key_copy, key_data_copy, key_state_copy, key_dependency_copy
<1>8. DoNext(l) = list_next(l)
  BY Zenon DEF DoNext, zone_list_db_next, policy_list_next, policy_key_list_next,
         hsm_key_list_next, key_data_list_next, key_state_list_next,
         key_dependency_list_next
<1>9. /\ DoGetNext(l).list = list_next(l).list
      /\ DoGetNext(l).row = list_next(l).row
  BY <1>6, Zenon
     DEF DoGetNext, zone_list_db_get_next, policy_list_get_next,
         policy_key_list_get_next, hsm_key_list_get_next,
         key_data_list_get_next, key_state_list_get_next,
         key_dependency_list_get_next, zone_db_copy, policy_copy,
         policy_key_copy, hsm_key_copy, key_data_copy, key_state_copy,
         key_dependency_copy
<1>10. DoSize(l) = list_size(l)
  BY Zenon DEF DoSize, zone_list_db_size, policy_list_size, policy_key_list_size,
         hsm_key_list_size, key_data_list_size, key_state_list_size,
         key_dependency_list_size
<1>11. DoCopy(l) = list_copy(l)
  BY Zenon DEF DoCopy, zone_list_db_copy, policy_list_copy, policy_key_list_copy,
         hsm_key_list_copy, key_data_list_copy, key_state_list_copy,
         key_dependency_list_copy
<1> QED BY <1>1, <1>2, <1>3, <1>4, <1>7, <1>8, <1>9, <1>10, <1>11, Zenon

\* A clause selects some of the rows.
LEMMA SelectedRows ==
  ASSUME NEW found \in Seq(Rows)
  PROVE  Selected(found) \in Seq(Rows)
<1> DEFINE n == (Len(found) + 1) \div 2
<1>1. Len(found) \in Nat
  BY SeqLengths, Zenon
<1>2. n \in Nat /\ 2 * n <= Len(found) + 1
  BY <1>1
<1> HIDE DEF n
<1>3. \A i \in 1 .. n : found[2 * i - 1] \in Rows
  BY <1>1, <1>2, ElementOfSeq
<1> QED BY <1>2, <1>3 DEF Selected, n

\* X_list_get starts over: nothing given, no objects, no cursor.
LEMMA ListIsRead ==
  ASSUME NEW l \in ListType, ~l.first, NEW found \in Seq(Rows),
         NEW m, m = list_get(l, found)
  PROVE  m \in ListType /\ ~m.first /\ ListOK(m, <<>>)
<1>1. /\ m \in ListType /\ ~m.first /\ ~m.begun /\ m.objects = <<>>
  <2>1. m = [l EXCEPT !.result = found, !.current = 0, !.begun = FALSE,
                      !.first = FALSE, !.objects = <<>>, !.fetched = TRUE,
                      !.copied = FALSE]
    BY Zenon DEF ListType, list_get
  <2>2. <<>> \in Seq(Nat) /\ 0 \in Nat
    OBVIOUS
  <2> QED BY <2>1, <2>2, Zenon DEF ListType
<1>2. WalkOK(m, <<>>)
  BY <1>1, SeqLengths DEF WalkOK, ListType
<1> QED BY <1>1, <1>2, Zenon DEF ListOK, StoringOK, PlainOK, ObjectsOK

\* The copy of a list that does not store its objects starts over.
LEMMA ListIsCopied ==
  ASSUME NEW l \in ListType, l.fetched, NEW w, Walked(l) => ListOK(l, w),
         NEW m, m = list_copy(l)
  PROVE  m \in ListType /\ (Walked(m) => ListOK(m, <<>>))
<1>1. /\ m \in ListType /\ ~m.begun /\ m.copied /\ m.store = l.store
      /\ m.objects = l.objects
  BY Zenon DEF ListType, list_copy, db_result_list_copy
<1>2. WalkOK(m, <<>>)
  BY <1>1, SeqLengths DEF WalkOK, ListType
<1>3. ~m.store => l.objects = <<>>
  BY <1>1, Zenon DEF Walked, ListOK, PlainOK
<1> QED BY <1>1, <1>2, <1>3, Zenon DEF ListOK, PlainOK, Walked

\* The inductive invariant gives the property.
LEMMA WalksAreComplete ==
  ASSUME ListsInv
  PROVE  WalkComplete
<1> SUFFICES ASSUME NEW n \in Both, Walked(lists[n])
             PROVE  /\ LET rows == Append(lists[n].result, NULL)
                       IN /\ Len(walk[n]) <= Len(rows)
                          /\ \A i \in DOMAIN walk[n] : walk[n][i] = rows[i]
                    /\ DoSize(lists[n]) = Len(lists[n].result)
  BY Zenon DEF WalkComplete, Walked
<1> DEFINE l == lists[n]
           w == walk[n]
<1>1. /\ l \in ListType /\ w \in Seq(Nat) /\ ListOK(l, w)
      /\ ltable \in ListTables
  BY Zenon DEF ListsInv
<1> HIDE DEF l, w
<1>2. /\ l.result \in Seq(Nat) /\ Len(l.result) \in Nat
      /\ DOMAIN w = 1 .. Len(w) /\ Len(w) \in Nat
  BY <1>1, SeqLengths, LenProperties, SeqMonotonic DEF ListType, Rows
<1>3. /\ Len(Append(l.result, NULL)) = Len(l.result) + 1
      /\ \A i \in 1 .. Len(l.result) + 1 : Append(l.result, NULL)[i] =
           IF i <= Len(l.result) THEN l.result[i] ELSE NULL
  BY <1>2 DEF NULL
<1>4. /\ Len(w) <= Len(Append(l.result, NULL))
      /\ \A i \in DOMAIN w : w[i] = Append(l.result, NULL)[i]
  BY <1>1, <1>2, <1>3 DEF ListOK, WalkOK, RowAt
<1>5. DoSize(l) = Len(l.result)
  <2>1. DoSize(l) = list_size(l)
    BY <1>1, TablesFollowTheTemplate, Zenon
  <2> QED BY <1>1, <2>1, Zenon
          DEF list_size, db_result_list_size, ListOK, StoringOK, ObjectsOK
<1> QED BY <1>4, <1>5, Zenon DEF l, w

\* Only the list that a call is made on changes.
LEMMA CallsOn ==
  ASSUME ListsInv, UNCHANGED <<ltable, lrows>>, NEW n \in Both,
         NEW l \in ListType, NEW w \in Seq(Nat), Calls(n, l, w),
         n = "list" => ~l.first, Walked(l) => ListOK(l, w)
  PROVE  ListsInv'
<1>1. calls' \in Nat /\ ltable' = ltable /\ lrows' = lrows
  BY DEF ListsInv, Calls
<1>2. lists' \in [Both -> ListType] /\ walk' \in [Both -> Seq(Nat)]
  BY Zenon DEF ListsInv, Calls
<1>3. ASSUME NEW m \in Both
      PROVE  /\ lists'[m] = IF m = n THEN l ELSE lists[m]
             /\ walk'[m] = IF m = n THEN w ELSE walk[m]
  BY Zenon DEF ListsInv, Calls
<1>4. ~lists'["list"].first
  BY <1>3, Zenon DEF ListsInv, Both
<1>5. \A m \in Both : Walked(lists'[m]) => ListOK(lists'[m], walk'[m])
  BY <1>3, Zenon DEF ListsInv
<1> QED BY <1>1, <1>2, <1>4, <1>5, Zenon DEF ListsInv

\* Lists that were just made are in the invariant.
LEMMA ListsInitial ==
  ListsInit => ListsInv
<1> SUFFICES ASSUME ListsInit PROVE ListsInv
  BY Zenon
<1>1. list_new \in ListType /\ ~list_new.first /\ ~list_new.fetched
  BY DEF ListType, list_new
<1>2. lrows \in Seq(Rows)
  BY DEF ListsInit, Rows
<1>3. lists \in [Both -> ListType] /\ walk \in [Both -> Seq(Nat)]
  BY <1>1 DEF ListsInit
<1>4. \A n \in Both : lists[n] = list_new
  BY Zenon DEF ListsInit
<1> QED BY <1>1, <1>2, <1>3, <1>4, Zenon DEF ListsInit, ListsInv, Walked, Both

\* Every call on the lists, and every change of the table by others, keeps
\* the invariant.
LEMMA ListsStep ==
  ListsInv /\ [ListsNext]_listVars => ListsInv'
<1> SUFFICES ASSUME ListsInv, [ListsNext]_listVars PROVE ListsInv'
  BY Zenon
<1>0. /\ "list" \in Both /\ "copy" \in Both /\ ltable \in ListTables
      /\ lrows \in Seq(Rows) /\ calls \in Nat /\ ~lists["list"].first
      /\ \A n \in Both : /\ lists[n] \in ListType /\ walk[n] \in Seq(Nat)
                         /\ Walked(lists[n]) => ListOK(lists[n], walk[n])
      /\ <<>> \in Seq(Nat)
  BY DEF ListsInv, Both
<1>1. CASE ChangeRows
  <2>1. lrows' \in Seq(Rows) /\ calls' \in Nat
    <3>1. CASE Len(lrows) < MaxRows
      <4>1. calls + 4 \in Rows
        BY <1>0 DEF Rows
      <4> QED BY <1>0, <1>1, <3>1, <4>1 DEF ChangeRows
    <3>2. CASE ~(Len(lrows) < MaxRows)
      <4>1. lrows # <<>>
        BY <1>0, <3>2, SeqLengths, DbListsAssumption
      <4> QED BY <1>0, <1>1, <3>2, <4>1, HeadTailProperties DEF ChangeRows
    <3> QED BY <3>1, <3>2, Zenon
  <2> QED BY <1>1, <2>1, Zenon DEF ChangeRows, ListsInv
<1>2. CASE CallObjectStore
  <2> DEFINE m == list_object_store(lists["list"])
  <2>1. m \in ListType /\ ~m.first /\ ~m.fetched
    BY <1>0, <1>2, Zenon DEF CallObjectStore, list_object_store, ListType
  <2>2. Calls("list", m, <<>>) /\ UNCHANGED <<ltable, lrows>>
    BY <1>2, Zenon DEF CallObjectStore
  <2> HIDE DEF m
  <2> QED BY <1>0, <2>1, <2>2, CallsOn, Zenon DEF Walked
<1>3. CASE CallGet
  <2>1. PICK found \in {lrows, Selected(lrows)} :
          Calls("list", list_get(lists["list"], found), <<>>)
    BY <1>0, <1>3, TablesFollowTheTemplate, Zenon DEF CallGet, list_get_by_clauses
  <2>2. found \in Seq(Rows)
    BY <1>0, SelectedRows, Zenon
  <2> DEFINE m == list_get(lists["list"], found)
  <2>3. m \in ListType /\ ~m.first /\ ListOK(m, <<>>)
    BY <1>0, <2>2, ListIsRead, Zenon
  <2>4. Calls("list", m, <<>>) /\ UNCHANGED <<ltable, lrows>>
    BY <1>3, <2>1, Zenon DEF CallGet
  <2> HIDE DEF m
  <2> QED BY <1>0, <2>3, <2>4, CallsOn, Zenon
<1>4. CASE CallCopy
  <2> DEFINE m == list_copy(lists["list"])
  <2>1. Calls("copy", m, <<>>) /\ UNCHANGED <<ltable, lrows>>
    BY <1>0, <1>4, TablesFollowTheTemplate, Zenon DEF CallCopy
  <2>2. m \in ListType /\ (Walked(m) => ListOK(m, <<>>))
    BY <1>0, <1>4, ListIsCopied, Zenon DEF CallCopy
  <2> HIDE DEF m
  <2> QED BY <1>0, <2>1, <2>2, CallsOn, Zenon
<1>5. ASSUME NEW n \in Both, CallBegin(n) PROVE ListsInv'
  <2> DEFINE g == list_begin(lists[n])
             l == g.list
             w == <<g.row>>
  <2>1. Calls(n, l, w) /\ UNCHANGED <<ltable, lrows>>
    BY <1>0, <1>5, TablesFollowTheTemplate, Zenon DEF CallBegin
  <2>2. /\ g.row \in Nat /\ Same(lists[n], l)
        /\ ~lists[n].first => ~l.first
        /\ ListOK(lists[n], walk[n]) => ListOK(l, w)
    BY <1>0, ListBegins, Zenon
  <2>3. l \in ListType /\ w \in Seq(Nat) /\ (Walked(l) => ListOK(l, w))
    BY <1>0, <2>2 DEF Same, Walked
  <2> HIDE DEF l, w
  <2> QED BY <1>0, <2>1, <2>2, <2>3, CallsOn, Zenon
<1>6. ASSUME NEW n \in Both, CallNext(n) PROVE ListsInv'
  <2> DEFINE g == list_next(lists[n])
             l == g.list
             w == Append(walk[n], g.row)
  <2>1. Calls(n, l, w) /\ UNCHANGED <<ltable, lrows>>
    BY <1>0, <1>6, TablesFollowTheTemplate, Zenon DEF CallNext
  <2>2. walk[n] # <<>> => walk[n][Len(walk[n])] # NULL
    BY <1>6, Zenon DEF CallNext
  <2>3. /\ g.row \in Nat /\ Same(lists[n], l)
        /\ ~lists[n].first => ~l.first
        /\ ListOK(lists[n], walk[n]) => ListOK(l, w)
    BY <1>0, <2>2, ListGoesOn, Zenon
  <2>4. l \in ListType /\ w \in Seq(Nat) /\ (Walked(l) => ListOK(l, w))
    BY <1>0, <2>3 DEF Same, Walked
  <2> HIDE DEF l, w
  <2> QED BY <1>0, <2>1, <2>3, <2>4, CallsOn, Zenon
<1>7. CASE UNCHANGED listVars
  BY <1>7, Zenon DEF listVars, ListsInv
<1> QED BY <1>1, <1>2, <1>3, <1>4, <1>5, <1>6, <1>7, Zenon DEF ListsNext

\* A walk through a list of any table gives the rows that were read, each once
\* and in their order, however many rows there are and whatever calls came
\* before (X_list_begin, X_list_next and X_list_get_next of enforcer/src/db).
THEOREM WalksComplete == ListsSpec => []WalkComplete
<1>1. ListsInit => ListsInv
  BY ListsInitial, Zenon
<1>2. ListsInv /\ [ListsNext]_listVars => ListsInv'
  BY ListsStep, Zenon
<1>3. ListsInv => WalkComplete
  BY WalksAreComplete, Zenon
<1> QED BY <1>1, <1>2, <1>3, PTL DEF ListsSpec

=============================================================================

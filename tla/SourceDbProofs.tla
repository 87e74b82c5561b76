--------------------------- MODULE SourceDbProofs ---------------------------
(***************************************************************************)
(* Proofs about SourceDb for any clients, files, threads and packets: the  *)
(* triggers never take the current name of a file out of the full-text     *)
(* index, in whatever order they and the statements of the threads run.    *)
(***************************************************************************)
EXTENDS SourceDb, TLAPS

(* A record with the columns of a row, whatever their values are. *)
IsRow(row) ==
  row \in [srcavail : {row.srcavail}, rating : {row.rating},
           rated_count : {row.rated_count}, exists : {row.exists},
           name : {row.name}, fnames : {row.fnames}]

(* What every trigger keeps of a row. *)
RowOK(row) == IsRow(row) /\ (row.exists => row.name \in row.fnames)

RowsOK ==
  /\ files = [f \in Files |-> files[f]]
  /\ \A f \in Files : RowOK(files[f])

-----------------------------------------------------------------------------
(* files_au deletes the row or leaves it as it is. *)
LEMMA UpdatedOK ==
  ASSUME NEW row, RowOK(row) PROVE RowOK(Updated(row))
  BY DEF RowOK, IsRow, Updated, NoRow

(* sources_ai changes counters only. *)
LEMMA CountInOK ==
  ASSUME NEW row, NEW rating, RowOK(row) PROVE RowOK(CountIn(row, rating))
<1> DEFINE r == [row EXCEPT !.srcavail = @ + 1, !.rating = @ + rating,
                            !.rated_count = IF rating # 0 THEN @ + 1 ELSE 0]
<1>1. RowOK(r)
  BY DEF RowOK, IsRow
<1>2. RowOK(Updated(r))
  BY <1>1, UpdatedOK
<1> QED
  BY <1>2 DEF CountIn

(* sources_bd changes counters only. *)
LEMMA CountOutOK ==
  ASSUME NEW row, NEW rating, RowOK(row) PROVE RowOK(CountOut(row, rating))
<1> DEFINE r == [row EXCEPT !.srcavail = @ - 1, !.rating = @ - rating,
                            !.rated_count = IF rating # 0 THEN @ - 1 ELSE @]
<1>1. RowOK(r)
  BY DEF RowOK, IsRow
<1>2. RowOK(Updated(r))
  BY <1>1, UpdatedOK
<1> QED
  BY <1>2 DEF CountOut

(* A new name is in the index in either order of the triggers. *)
LEMMA NamedOK ==
  ASSUME NEW row, NEW name, RowOK(row), NEW new \in Named(row, name)
  PROVE  RowOK(new)
<1> DEFINE moved == [row EXCEPT !.fnames = @ \ {row.name}, !.name = name]
<1>1. IsRow(moved) /\ moved.name = name
  BY DEF RowOK, IsRow
<1>2. RowOK(Indexed(moved, name))
  BY <1>1 DEF RowOK, IsRow, Indexed
<1>3. RowOK(Updated(Indexed(moved, name)))
  BY <1>2, UpdatedOK
<1>4. RowOK(Indexed(Updated(moved), name))
  BY <1>1 DEF RowOK, IsRow, Indexed, Updated, NoRow
<1>5. RowOK(Updated(row))
  BY UpdatedOK
<1> QED
  BY <1>3, <1>4, <1>5 DEF Named

(* A row that is inserted or replaced has its name in the index. *)
LEMMA NewRowOK ==
  ASSUME NEW row, NEW name PROVE RowOK(NewRow(row, name))
  BY DEF RowOK, IsRow, NewRow, NoRow, Indexed

-----------------------------------------------------------------------------
(* One file gets a row that is right. *)
LEMMA OneRowKept ==
  ASSUME RowsOK, NEW f, NEW row, f \in Files => RowOK(row),
         files' = [files EXCEPT ![f] = row]
  PROVE  RowsOK'
<1>1. files' = [g \in Files |-> files'[g]]
  BY DEF RowsOK
<1>2. ASSUME NEW g \in Files PROVE RowOK(files'[g])
  <2>1. files'[g] = IF g = f THEN row ELSE files[g]
    BY DEF RowsOK
  <2> QED
    BY <2>1 DEF RowsOK
<1> QED
  BY <1>1, <1>2 DEF RowsOK

(* SHARE_UPD *)
LEMMA UpdatesKeep ==
  ASSUME RowsOK, NEW c \in Clients, ShareUpdates(c) PROVE RowsOK'
<1> DEFINE f == Head(batch[c]).fid
<1>1. PICK row \in IF files[f].exists THEN Named(files[f], c)
                   ELSE {files[f]} :
        files' = [files EXCEPT ![f] = row]
  BY DEF ShareUpdates
<1>2. ASSUME f \in Files PROVE RowOK(row)
  <2>1. RowOK(files[f])
    BY <1>2 DEF RowsOK
  <2> QED
    BY <1>1, <2>1, NamedOK
<1> QED
  BY <1>1, <1>2, OneRowKept

(* SHARE_INS *)
LEMMA InsertsKeep ==
  ASSUME RowsOK, NEW c \in Clients, ShareInserts(c) PROVE RowsOK'
<1> DEFINE f == Head(batch[c]).fid
<1>1. files' = [files EXCEPT ![f] = NewRow(files[f], c)]
  BY DEF ShareInserts
<1> QED
  BY <1>1, NewRowOK, OneRowKept

(* SHARE_SRC *)
LEMMA AddsKeep ==
  ASSUME RowsOK, NEW c \in Clients, ShareAddsSource(c) PROVE RowsOK'
<1> DEFINE e == Head(batch[c])
<1>1. files' = [files EXCEPT ![e.fid] = CountIn(files[e.fid], e.rating)]
  BY DEF ShareAddsSource
<1>2. e.fid \in Files => RowOK(CountIn(files[e.fid], e.rating))
  BY CountInOK DEF RowsOK
<1> QED
  BY <1>1, <1>2, OneRowKept

(* REMOVE_SRC *)
LEMMA RemovesKeep ==
  ASSUME RowsOK, NEW c \in Clients, DeleteRemoves(c) PROVE RowsOK'
<1>1. CASE UNCHANGED dbVars
  BY <1>1 DEF RowsOK, dbVars
<1>2. CASE files' = [f \in Files |->
                       IF \E s \in RowsOf(c) : s.fid = f
                       THEN CountOut(files[f],
                              (CHOOSE s \in RowsOf(c) : s.fid = f).rating)
                       ELSE files[f]]
  <2>1. ASSUME NEW f \in Files PROVE RowOK(files'[f])
    <3>1. RowOK(files[f])
      BY DEF RowsOK
    <3>2. RowOK(CountOut(files[f],
                         (CHOOSE s \in RowsOf(c) : s.fid = f).rating))
      BY <3>1, CountOutOK
    <3> QED
      BY <1>2, <3>1, <3>2
  <2> QED
    BY <1>2, <2>1 DEF RowsOK
<1> QED
  BY <1>1, <1>2 DEF DeleteRemoves

(* The other steps do not touch the tables. *)
LEMMA HandlerKeeps ==
  ASSUME RowsOK, NEW c \in Clients, Handler(c) PROVE RowsOK'
<1>1. CASE UNCHANGED files
  BY <1>1 DEF RowsOK
<1>2. CASE OfferRefused(c)
  BY <1>1, <1>2 DEF OfferRefused, dbVars
<1>3. ASSUME NEW o \in setup.packets, OfferBegins(c, o) PROVE RowsOK'
  BY <1>1, <1>3 DEF OfferBegins, dbVars
<1>4. CASE ShareFails(c) \/ ShareCounts(c)
  BY <1>1, <1>4 DEF ShareFails, ShareCounts, dbVars
<1>5. ASSUME NEW step \in {"search", "get"}, QueryBegins(c, step)
      PROVE  RowsOK'
  BY <1>1, <1>5 DEF QueryBegins, dbVars
<1>6. CASE QueryEnds(c) \/ DeleteBegins(c) \/ DeleteEnds(c)
  BY <1>1, <1>6 DEF QueryEnds, DeleteBegins, DeleteEnds, dbVars
<1> QED
  BY <1>2, <1>3, <1>4, <1>5, <1>6, UpdatesKeep, InsertsKeep, AddsKeep,
     RemovesKeep DEF Handler

(* A file in the index is found by its name, for any number of clients,    *)
(* files and threads and any packets: db_share_files and db_remove_source  *)
(* may overlap statement by statement.                                     *)
THEOREM FoundByNameHolds == Spec => []FoundByName
<1>1. Init => RowsOK
  <2>1. RowOK(NoRow)
    BY DEF RowOK, IsRow, NoRow
  <2> QED
    BY <2>1 DEF Init, RowsOK
<1>2. RowsOK /\ [Next]_vars => RowsOK'
  <2>1. RowsOK /\ UNCHANGED vars => RowsOK'
    BY DEF RowsOK, vars
  <2> QED
    BY <2>1, HandlerKeeps DEF Next
<1>3. RowsOK => FoundByName
  BY DEF RowsOK, RowOK, FoundByName
<1> QED
  BY <1>1, <1>2, <1>3, PTL DEF Spec

=============================================================================

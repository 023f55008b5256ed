------------------------ MODULE CognitionBooksProofs ------------------------
(***************************************************************************)
(* Theorems about CognitionBooks for every number of runs and every set of *)
(* texts, titles and disturbances: its types, what a save may replace, what *)
(* it may repeat, what a completed run owes and where rejected text may be. *)
(***************************************************************************)
EXTENDS CognitionBooks, TLAPS

-----------------------------------------------------------------------------
(* What the files look like between two operations *)

(* A digest names a proposal, an edit, or the deletion of a revision there was. *)
LaneId(i) == i.kind = "lane" /\ i.run \in 1..MaxRun /\ i.body \in Bodies
EditId(i) == i.kind = "edit" /\ i.body \in Bodies
DeleteId(i) == i.kind = "delete" /\ i.over \in 1..Len(contents)

(* The statuses each kind of item can have. *)
WorldItem(i, item) ==
  /\ LaneId(i) /\ i.book = "world"
  /\ item.status \in {"pending", "observing", "unchanged", "applying", "auto_applied",
                      "applied", "rejected"}
SelfItem(i, item) ==
  /\ LaneId(i) /\ i.book = "self" /\ item.automatic
  /\ item.status \in {"applying", "error", "auto_applied", "unchanged"}
EditItem(i, item) ==
  /\ EditId(i) /\ item.over = i.over /\ ~item.automatic
  /\ item.status \in {"manual_applying", "manual_error", "applied"}
DeleteItem(i, item) ==
  /\ DeleteId(i) /\ item.status \in {"manual_applying", "applied"}
  /\ item.restore # "none" => item.status = "applied"

Shaped(i, item) ==
  \/ WorldItem(i, item) \/ SelfItem(i, item) \/ EditItem(i, item) \/ DeleteItem(i, item)

ItemsShaped == \A i \in DOMAIN ledger : Shaped(i, ledger[i])

(* A content came after the one it replaced, and what it bears is on record. *)
ContentsFit ==
  \A v \in 1..Len(contents) :
    contents[v].over \in 0..(v - 1) /\ contents[v].receipts \subseteq DOMAIN ledger

(* The receipt of i came back by a restore. *)
Returned(i) ==
  \E d \in DOMAIN ledger :
    d.kind = "delete" /\ ledger[d].restore # "none" /\ i \in ReceiptsOf(d.over)

(* RejectedStaysOut is kept since it holds of what waits for a person already. *)
Waiting == {"pending", "rejected"}
WaitingIsOut ==
  \A i \in DOMAIN ledger : ledger[i].status \in Waiting /\ ReceiptPresent(i) => Returned(i)

StoreInv == BooksTypeOK /\ ItemsShaped /\ ContentsFit /\ SavedOnce /\ WaitingIsOut

-----------------------------------------------------------------------------
(* One write of each kind *)

LEMMA BooksTyped ==
  ASSUME BooksTypeOK
  PROVE  /\ Len(contents) \in Nat
         /\ \A v \in 1..Len(contents) : contents[v] \in Contents
         /\ \A b \in Books : files[b] \in 0..Len(contents)
  BY DEF BooksTypeOK

LEMMA WriteTyped ==
  ASSUME BooksTypeOK, NEW i \in Ids, NEW item \in Items, Write(i, item)
  PROVE  /\ DOMAIN ledger' = DOMAIN ledger \cup {i}
         /\ DOMAIN ledger' \subseteq Ids
         /\ ledger'[i] = item
         /\ \A j \in DOMAIN ledger \ {i} : ledger'[j] = ledger[j]
         /\ \A j \in DOMAIN ledger' : ledger'[j] \in Items
  BY DEF BooksTypeOK, Write

LEMMA AppendTyped ==
  ASSUME BooksTypeOK, NEW c \in Contents, contents' = Append(contents, c)
  PROVE  /\ contents' \in Seq(Contents)
         /\ Len(contents') = Len(contents) + 1
         /\ contents'[Len(contents) + 1] = c
         /\ \A v \in 1..Len(contents) : contents'[v] = contents[v]
  BY DEF BooksTypeOK

(* What an operation may do to the ledger for its item, to the texts there are and
   to the entry of its book. *)
Records(i) ==
  \/ UNCHANGED ledger /\ i \in DOMAIN ledger
  \/ \E item \in Items :
       /\ Write(i, item) /\ Shaped(i, item)
       /\ i.kind = "delete" /\ i \in DOMAIN ledger /\ ledger[i].restore # "none"
            => item.restore # "none"
Adds(i) ==
  \/ UNCHANGED contents
  \/ \E c \in Contents :
       /\ contents' = Append(contents, c)
       /\ c.over \in 0..Len(contents)
       /\ c.receipts \subseteq DOMAIN ledger \cup {i}
       /\ c.by.kind # "delete" => c.by \notin ReceiptsOf(c.over)
Puts(i, v) ==
  v \in 0..Len(contents') /\ files' = [files EXCEPT ![i.book] = v]

(* No revision changes once it is there. *)
LEMMA AddsGrows ==
  ASSUME BooksTypeOK, NEW i, Adds(i)
  PROVE  /\ contents' \in Seq(Contents)
         /\ Len(contents') \in Nat /\ Len(contents) <= Len(contents')
         /\ \A v \in 1..Len(contents) : contents'[v] = contents[v]
         /\ \A v \in 0..Len(contents) : ReceiptsOf(v)' = ReceiptsOf(v)
  <1>1. Len(contents) \in Nat
    BY BooksTyped
  <1>2. CASE UNCHANGED contents
    BY <1>1, <1>2 DEF BooksTypeOK, ReceiptsOf
  <1>3. CASE \E c \in Contents : contents' = Append(contents, c)
    BY <1>1, <1>3, AppendTyped DEF ReceiptsOf
  <1> QED BY <1>2, <1>3 DEF Adds

LEMMA RecordsTyped ==
  ASSUME BooksTypeOK, NEW i \in Ids, Records(i)
  PROVE  /\ DOMAIN ledger' = DOMAIN ledger \cup {i}
         /\ DOMAIN ledger' \subseteq Ids
         /\ \A j \in DOMAIN ledger' : ledger'[j] \in Items
         /\ \A j \in DOMAIN ledger \ {i} : ledger'[j] = ledger[j]
  <1>1. CASE UNCHANGED ledger /\ i \in DOMAIN ledger
    BY <1>1 DEF BooksTypeOK
  <1>2. CASE \E item \in Items : Write(i, item)
    BY <1>2, WriteTyped
  <1> QED BY <1>1, <1>2 DEF Records

(* What came back stays there. *)
LEMMA ReturnedStays ==
  ASSUME StoreInv, NEW i \in Ids, Records(i), Adds(i), NEW j, Returned(j)
  PROVE  Returned(j)'
  <1>1. PICK d \in DOMAIN ledger :
          d.kind = "delete" /\ ledger[d].restore # "none" /\ j \in ReceiptsOf(d.over)
    BY DEF Returned
  <1>2. d.over \in 1..Len(contents)
    BY <1>1 DEF StoreInv, ItemsShaped, Shaped, WorldItem, SelfItem, EditItem, DeleteItem,
       LaneId, EditId, DeleteId
  <1>3. ReceiptsOf(d.over)' = ReceiptsOf(d.over)
    BY <1>2, AddsGrows, BooksTyped DEF StoreInv
  <1>4. d \in DOMAIN ledger' /\ ledger'[d].restore # "none"
    <2>1. CASE UNCHANGED ledger
      BY <1>1, <2>1
    <2>2. CASE \E item \in Items :
                 /\ Write(i, item)
                 /\ i.kind = "delete" /\ i \in DOMAIN ledger /\ ledger[i].restore # "none"
                      => item.restore # "none"
      <3>1. PICK item \in Items :
              /\ Write(i, item)
              /\ i.kind = "delete" /\ i \in DOMAIN ledger /\ ledger[i].restore # "none"
                   => item.restore # "none"
        BY <2>2
      <3> QED BY <1>1, <3>1, WriteTyped DEF StoreInv
    <2> QED BY <2>1, <2>2 DEF Records
  <1> QED BY <1>1, <1>3, <1>4 DEF Returned

LEMMA ItemsStayShaped ==
  ASSUME StoreInv, NEW i \in Ids, Records(i), Adds(i)
  PROVE  ItemsShaped'
  <1> SUFFICES ASSUME NEW j \in DOMAIN ledger'
               PROVE  Shaped(j, ledger[j])'
    BY DEF ItemsShaped
  <1>1. \A k, item : Shaped(k, item) => Shaped(k, item)'
    BY AddsGrows, BooksTyped DEF StoreInv, Shaped, WorldItem, SelfItem, EditItem, DeleteItem,
       LaneId, EditId, DeleteId
  <1>2. CASE j \in DOMAIN ledger /\ ledger'[j] = ledger[j]
    BY <1>1, <1>2 DEF StoreInv, ItemsShaped
  <1>3. CASE j = i
    <2>1. CASE UNCHANGED ledger /\ i \in DOMAIN ledger
      BY <1>2, <1>3, <2>1
    <2>2. CASE \E item \in Items : Write(i, item) /\ Shaped(i, item)
      BY <1>1, <1>3, <2>2, WriteTyped DEF StoreInv
    <2> QED BY <2>1, <2>2 DEF Records
  <1>4. BooksTypeOK
    BY DEF StoreInv
  <1>5. j = i \/ (j \in DOMAIN ledger /\ ledger'[j] = ledger[j])
    BY <1>4, RecordsTyped
  <1> QED BY <1>2, <1>3, <1>5

LEMMA ContentsStayFit ==
  ASSUME StoreInv, NEW i \in Ids, Records(i), Adds(i)
  PROVE  ContentsFit' /\ SavedOnce'
  <1> SUFFICES ASSUME NEW v \in 1..Len(contents')
               PROVE  (/\ contents[v].over \in 0..(v - 1)
                       /\ contents[v].receipts \subseteq DOMAIN ledger
                       /\ contents[v].by.kind # "delete" =>
                            contents[v].by \notin ReceiptsOf(contents[v].over))'
    BY DEF ContentsFit, SavedOnce
  <1>1. Len(contents) \in Nat
    BY BooksTyped DEF StoreInv
  <1>2. DOMAIN ledger' = DOMAIN ledger \cup {i}
    BY RecordsTyped DEF StoreInv
  <1>3. CASE v \in 1..Len(contents)
    <2>1. contents'[v] = contents[v]
      BY <1>3, AddsGrows DEF StoreInv
    <2>2. contents[v].over \in 0..(v - 1)
      BY <1>3 DEF StoreInv, ContentsFit
    <2>3. contents[v].over \in 0..Len(contents)
      BY <1>1, <1>3, <2>2
    <2>4. (contents[v].by \notin ReceiptsOf(contents[v].over))'
            <=> contents[v].by \notin ReceiptsOf(contents[v].over)
      BY <2>1, <2>3, AddsGrows DEF StoreInv, ReceiptsOf
    <2> QED BY <1>2, <1>3, <2>1, <2>2, <2>4 DEF StoreInv, ContentsFit, SavedOnce
  <1>4. CASE v \notin 1..Len(contents)
    <2>1. PICK c \in Contents :
            /\ contents' = Append(contents, c)
            /\ c.over \in 0..Len(contents)
            /\ c.receipts \subseteq DOMAIN ledger \cup {i}
            /\ c.by.kind # "delete" => c.by \notin ReceiptsOf(c.over)
      BY <1>4 DEF Adds
    <2>2. v = Len(contents) + 1 /\ contents'[v] = c
      BY <1>1, <1>4, <2>1, AppendTyped DEF StoreInv
    <2>3. (contents[v].by \notin ReceiptsOf(contents[v].over))'
            <=> c.by \notin ReceiptsOf(c.over)
      BY <2>1, <2>2, AddsGrows DEF StoreInv, ReceiptsOf
    <2> QED BY <1>1, <1>2, <2>1, <2>2, <2>3
  <1> QED BY <1>3, <1>4

(* The step of an operation on one item: what is waiting and is in the entry it
   leaves must have come back by a restore. *)
LEMMA StoreKept ==
  ASSUME StoreInv, NEW i \in Ids, NEW v, Records(i), Adds(i), Puts(i, v),
         \A j \in DOMAIN ledger' :
           j.book = i.book /\ ledger'[j].status \in Waiting /\ j \in ReceiptsOf(v)'
             => Returned(j)'
  PROVE  StoreInv'
  <1>1. BooksTypeOK'
    <2>1. BooksTypeOK /\ i.book \in Books
      BY DEF StoreInv, Ids
    <2>2. files' \in [Books -> 0..Len(contents')]
      BY <2>1, AddsGrows, BooksTyped DEF BooksTypeOK, Puts
    <2> QED BY <2>1, <2>2, RecordsTyped, AddsGrows DEF BooksTypeOK
  <1>2. WaitingIsOut'
    <2> SUFFICES ASSUME NEW j \in DOMAIN ledger',
                        ledger'[j].status \in Waiting, ReceiptPresent(j)'
                 PROVE  Returned(j)'
      BY DEF WaitingIsOut
    <2>1. i.book \in Books /\ j.book \in Books
      BY RecordsTyped DEF StoreInv, Ids
    <2>2. CASE j.book = i.book
      BY <2>1, <2>2 DEF StoreInv, BooksTypeOK, Puts, ReceiptPresent
    <2>3. CASE j.book # i.book
      <3>1. files'[j.book] = files[j.book]
        BY <2>1, <2>3 DEF StoreInv, BooksTypeOK, Puts
      <3>2. ReceiptPresent(j)
        BY <2>1, <3>1, AddsGrows, BooksTyped DEF StoreInv, ReceiptPresent, ReceiptsOf
      <3>3. j \in DOMAIN ledger /\ ledger'[j] = ledger[j]
        BY <2>3, RecordsTyped DEF StoreInv
      <3> QED BY <3>2, <3>3, ReturnedStays DEF StoreInv, WaitingIsOut
    <2> QED BY <2>2, <2>3
  <1> QED BY <1>1, <1>2, ItemsStayShaped, ContentsStayFit DEF StoreInv

(* The entry stays what it is. *)
LEMMA StoreKeptByRecord ==
  ASSUME StoreInv, NEW i \in Ids, Records(i), UNCHANGED <<contents, files>>,
         ledger'[i].status \in Waiting /\ ReceiptPresent(i) => Returned(i)
  PROVE  StoreInv'
  <1>1. Adds(i)
    BY DEF Adds
  <1>2. Puts(i, files[i.book])
    BY BooksTyped DEF StoreInv, BooksTypeOK, Puts, Ids
  <1>3. ASSUME NEW j \in DOMAIN ledger', j.book = i.book, ledger'[j].status \in Waiting,
               j \in ReceiptsOf(files[i.book])
        PROVE  Returned(j)'
    <2>1. ReceiptPresent(j)
      BY <1>3 DEF ReceiptsOf, ReceiptPresent
    <2>2. CASE j = i
      BY <1>1, <1>3, <2>1, <2>2, ReturnedStays
    <2>3. CASE j # i
      <3>1. j \in DOMAIN ledger /\ ledger'[j] = ledger[j]
        BY <2>3, RecordsTyped DEF StoreInv
      <3>2. Returned(j)
        BY <1>3, <2>1, <3>1 DEF StoreInv, WaitingIsOut
      <3> QED BY <1>1, <3>2, ReturnedStays
    <2> QED BY <2>2, <2>3
  <1>4. ReceiptsOf(files[i.book])' = ReceiptsOf(files[i.book])
    BY DEF ReceiptsOf
  <1> QED BY <1>1, <1>2, <1>3, <1>4, StoreKept

LEMMA StoreStutters ==
  ASSUME StoreInv, UNCHANGED bookVars
  PROVE  StoreInv'
  BY DEF bookVars, StoreInv, BooksTypeOK, ItemsShaped, Shaped, WorldItem, SelfItem, EditItem,
     DeleteItem, LaneId, EditId, DeleteId, ContentsFit, SavedOnce, WaitingIsOut, Returned,
     ReceiptPresent, ReceiptsOf

-----------------------------------------------------------------------------
(* The operations *)

LEMMA SaveWrites ==
  ASSUME StoreInv, NEW i \in Ids, i.body \in Bodies, NEW over, NEW happens, happens,
         Outcome(i, over) = "saves", Save(i, over, happens)
  PROVE  LET c == [body |-> i.body, receipts |-> ReceiptsOf(over) \cup {i},
                   over |-> over, by |-> i]
         IN  /\ ~ReceiptPresent(i) /\ over = files[i.book] /\ over \in 0..Len(contents)
             /\ c \in Contents
             /\ contents' = Append(contents, c)
             /\ files' = [files EXCEPT ![i.book] = Len(contents) + 1]
  <1>1. ~ReceiptPresent(i) /\ over = files[i.book]
    BY DEF Outcome
  <1>2. over \in 0..Len(contents) /\ Len(contents) \in Nat
    BY <1>1, BooksTyped DEF StoreInv, Ids
  <1>3. ReceiptsOf(over) \in SUBSET Ids
    BY <1>2, BooksTyped DEF StoreInv, ReceiptsOf, Contents
  <1> QED BY <1>1, <1>2, <1>3 DEF Contents, Save, Replace

(* What save leaves of an entry and of its item. *)
LEMMA SaveKeeps ==
  ASSUME StoreInv, NEW i \in Ids, i.kind # "delete", i.body \in Bodies, NEW over,
         NEW happens, Records(i), Save(i, over, happens),
         ledger'[i].status \in Waiting =>
           ~ReceiptPresent(i) /\ ~(happens /\ Outcome(i, over) = "saves")
  PROVE  StoreInv'
  <1>1. CASE ~(happens /\ Outcome(i, over) = "saves")
    BY <1>1, StoreKeptByRecord DEF Save
  <1>2. CASE happens /\ Outcome(i, over) = "saves"
    <2> DEFINE c == [body |-> i.body, receipts |-> ReceiptsOf(over) \cup {i},
                     over |-> over, by |-> i]
    <2>1. /\ ~ReceiptPresent(i) /\ over = files[i.book] /\ over \in 0..Len(contents)
          /\ c \in Contents
          /\ contents' = Append(contents, c)
          /\ files' = [files EXCEPT ![i.book] = Len(contents) + 1]
      BY <1>2, SaveWrites
    <2>2. BooksTypeOK /\ Len(contents) \in Nat
      BY BooksTyped DEF StoreInv
    <2>3. ReceiptsOf(over) \subseteq DOMAIN ledger
      BY <2>1, <2>2 DEF StoreInv, ContentsFit, ReceiptsOf
    <2>4. Adds(i)
      BY <2>1, <2>3 DEF Adds, ReceiptPresent
    <2> PICK v \in Nat : v = Len(contents) + 1
      BY <2>2
    <2>5. Len(contents') = v /\ contents'[v] = c
      BY <2>1, <2>2, AppendTyped
    <2>6. Puts(i, v)
      BY <2>1, <2>2, <2>5 DEF Puts
    <2>7. ReceiptsOf(v)' = ReceiptsOf(over) \cup {i}
      BY <2>2, <2>5 DEF ReceiptsOf
    <2>8. ASSUME NEW j \in DOMAIN ledger', j.book = i.book, ledger'[j].status \in Waiting,
                 j \in ReceiptsOf(over) \cup {i}
          PROVE  Returned(j)'
      <3>1. j # i
        BY <1>2, <2>8
      <3>2. j \in DOMAIN ledger /\ ledger'[j] = ledger[j]
        BY <2>2, <3>1, RecordsTyped
      <3>3. ReceiptPresent(j)
        BY <2>1, <2>8, <3>1 DEF ReceiptPresent
      <3>4. Returned(j)
        BY <2>8, <3>2, <3>3 DEF StoreInv, WaitingIsOut
      <3> QED BY <2>4, <3>4, ReturnedStays
    <2> QED BY <2>4, <2>6, <2>7, <2>8, StoreKept
  <1> QED BY <1>1, <1>2

(* What commit records of an item. *)
CommitItem(i, over, automatic, saved) ==
  Item(IF saved < 3 THEN "applying"
       ELSE IF Outcome(i, over) \in {"there", "saves"} THEN Applied(automatic)
       ELSE IF automatic /\ i.book = "self" THEN "error" ELSE "pending", over, automatic)

LEMMA CommittedKeeps ==
  ASSUME StoreInv, NEW i \in Ids, LaneId(i), NEW over \in Nat, NEW automatic \in BOOLEAN,
         i.book = "self" => automatic, NEW saved \in 0..3,
         Committed(i, over, automatic, saved)
  PROVE  /\ StoreInv'
         /\ saved = 0 => UNCHANGED bookVars
         /\ saved # 0 => Write(i, CommitItem(i, over, automatic, saved))
  <1> DEFINE item == CommitItem(i, over, automatic, saved)
  <1>1. CASE saved = 0
    BY <1>1, StoreStutters DEF Committed, Save, bookVars
  <1>2. CASE saved # 0
    <2>1. Write(i, item)
      BY <1>2 DEF Committed, CommitItem
    <2>2. item \in Items /\ item.automatic = automatic
      BY DEF CommitItem, Item, Items, Statuses, Applied
    <2>3. Shaped(i, item)
      BY <2>2 DEF CommitItem, Item, Applied, Shaped, WorldItem, SelfItem, LaneId, Ids, Books
    <2>4. Records(i)
      BY <2>1, <2>2, <2>3 DEF Records, LaneId
    <2>5. ledger'[i] = item
      BY <2>1, <2>2, WriteTyped DEF StoreInv
    <2>6. item.status \in Waiting => Outcome(i, over) \notin {"there", "saves"}
      BY DEF CommitItem, Item, Applied, Waiting
    <2>7. Outcome(i, over) # "there" => ~ReceiptPresent(i)
      BY DEF Outcome
    <2>8. Save(i, over, saved >= 2)
      BY DEF Committed
    <2>9. StoreInv'
      BY <2>4, <2>5, <2>6, <2>7, <2>8, SaveKeeps DEF LaneId
    <2> QED BY <1>2, <2>1, <2>9
  <1> QED BY <1>1, <1>2

(* manual.save: the item of an edit keeps the revision the edit was made on. *)
LEMMA EditSavedKeeps ==
  ASSUME StoreInv, NEW i \in Ids, EditId(i), NEW saved \in 0..3, EditSaved(i, saved)
  PROVE  /\ StoreInv'
         /\ UNCHANGED ledger \/ \E item \in Items : Write(i, item)
  <1>1. CASE Status(i) = "applied"
    BY <1>1, StoreStutters DEF EditSaved, bookVars
  <1>2. CASE Status(i) # "applied" /\ saved = 0
    BY <1>2, StoreStutters DEF EditSaved, Save, bookVars
  <1>3. CASE Status(i) # "applied" /\ saved # 0
    <2>1. Save(i, i.over, saved >= 2)
      BY <1>3 DEF EditSaved
    <2>2. CASE saved < 3 /\ Status(i) # "none"
      <3>1. UNCHANGED ledger /\ i \in DOMAIN ledger
        BY <1>3, <2>2 DEF EditSaved, Status
      <3>2. ledger[i].status \notin Waiting
        BY <3>1 DEF StoreInv, ItemsShaped, Shaped, WorldItem, SelfItem, EditItem, DeleteItem,
           LaneId, EditId, DeleteId, Waiting
      <3>3. Records(i)
        BY <3>1 DEF Records
      <3>4. StoreInv'
        BY <2>1, <3>1, <3>2, <3>3, SaveKeeps DEF EditId
      <3> QED BY <3>1, <3>4
    <2>3. CASE ~(saved < 3 /\ Status(i) # "none")
      <3> DEFINE item == Item(IF saved < 3 THEN "manual_applying"
                              ELSE IF Outcome(i, i.over) \in {"refused", "conflict"}
                              THEN "manual_error" ELSE "applied", i.over, FALSE)
      <3>1. Write(i, item)
        BY <1>3, <2>3 DEF EditSaved
      <3>2. item \in Items /\ Shaped(i, item) /\ item.status \notin Waiting
        BY DEF Item, Items, Statuses, Ids, Shaped, EditItem, EditId, Waiting
      <3>3. Records(i) /\ ledger'[i] = item
        BY <3>1, <3>2, WriteTyped DEF Records, EditId, StoreInv
      <3>4. StoreInv'
        BY <2>1, <3>2, <3>3, SaveKeeps DEF EditId
      <3> QED BY <3>1, <3>2, <3>4
    <2> QED BY <2>2, <2>3
  <1> QED BY <1>1, <1>2, <1>3

(* manual.delete: an applied deletion, which may have been restored, is not repeated. *)
LEMMA DeletedKeeps ==
  ASSUME StoreInv, NEW i \in Ids, DeleteId(i), NEW saved \in 0..3, Deleted(i, saved)
  PROVE  /\ StoreInv'
         /\ UNCHANGED ledger \/ \E item \in Items : Write(i, item)
         /\ UNCHANGED contents
  <1>1. CASE ~Deletable(i)
    BY <1>1, StoreStutters DEF Deleted, bookVars
  <1>2. CASE Deletable(i) /\ saved = 0
    BY <1>2, StoreStutters DEF Deleted, bookVars
  <1>3. CASE Deletable(i) /\ saved # 0
    <2> DEFINE item == Item(IF saved < 3 THEN "manual_applying" ELSE "applied", i.over, FALSE)
    <2>1. Write(i, item) /\ UNCHANGED contents
      BY <1>3 DEF Deleted
    <2>2. item \in Items /\ Shaped(i, item) /\ item.status \notin Waiting
      BY DEF Item, Items, Statuses, Ids, Shaped, DeleteItem, DeleteId, Waiting
    <2>3. i \in DOMAIN ledger => ledger[i].restore = "none"
      BY <1>3 DEF Deletable, Status, StoreInv, ItemsShaped, Shaped, WorldItem, SelfItem,
         EditItem, DeleteItem, LaneId, EditId, DeleteId
    <2>4. Records(i) /\ Adds(i) /\ ledger'[i] = item
      BY <2>1, <2>2, <2>3, WriteTyped DEF Records, Adds, StoreInv
    <2>5. CASE saved < 2
      <3>1. UNCHANGED files
        BY <1>3, <2>5 DEF Deleted
      <3> QED BY <2>1, <2>2, <2>4, <3>1, StoreKeptByRecord
    <2>6. CASE saved >= 2
      <3>1. Puts(i, 0)
        BY <1>3, <2>1, <2>6, BooksTyped DEF Deleted, Puts, StoreInv
      <3>2. ReceiptsOf(0)' = {}
        BY DEF ReceiptsOf
      <3>3. StoreInv'
        BY <2>4, <3>1, <3>2, StoreKept
      <3> QED BY <2>1, <2>2, <3>3
    <2> QED BY <2>1, <2>5, <2>6
  <1> QED BY <1>1, <1>2, <1>3

(* manual.restore: what comes back has a deletion that says so. *)
LEMMA RestoredKeeps ==
  ASSUME StoreInv, NEW i \in DOMAIN ledger, i.kind = "delete", ledger[i].status = "applied",
         NEW saved \in 0..3, Restored(i, saved)
  PROVE  /\ StoreInv'
         /\ UNCHANGED ledger \/ \E item \in Items : Write(i, item)
         /\ \A v \in (Len(contents) + 1)..Len(contents') : contents'[v].by = i
  <1>1. /\ BooksTypeOK /\ i \in Ids /\ ledger[i] \in Items /\ Len(contents) \in Nat
        /\ DeleteItem(i, ledger[i])
    BY BooksTyped DEF StoreInv, BooksTypeOK, ItemsShaped, Shaped, WorldItem, SelfItem,
       EditItem, LaneId, EditId
  <1>2. ASSUME NEW restore \in {"pending", "done"}
        PROVE  LET item == [ledger[i] EXCEPT !.restore = restore] IN
               /\ item \in Items /\ Shaped(i, item) /\ item.status \notin Waiting
               /\ Write(i, item) => Records(i) /\ ledger'[i] = item
    <2> DEFINE item == [ledger[i] EXCEPT !.restore = restore]
    <2>1. item \in Items /\ item.status = "applied" /\ item.restore # "none"
      BY <1>1 DEF Items
    <2>2. Shaped(i, item)
      BY <1>1, <2>1 DEF Shaped, DeleteItem
    <2>3. Write(i, item) => Records(i)
      BY <2>1, <2>2 DEF Records
    <2>4. Write(i, item) => ledger'[i] = item
      BY <1>1, <2>1, WriteTyped
    <2> HIDE DEF item
    <2>5. item.status \notin Waiting
      BY <2>1 DEF Waiting
    <2> QED BY <2>1, <2>2, <2>3, <2>4, <2>5 DEF item
  <1>3. ASSUME UNCHANGED <<contents, files>>
        PROVE  \/ UNCHANGED ledger
               \/ \E restore \in {"pending", "done"} :
                    Write(i, [ledger[i] EXCEPT !.restore = restore])
    BY DEF Restored
  <1>4. CASE UNCHANGED <<contents, files>>
    <2>1. CASE UNCHANGED ledger
      BY <1>4, <2>1, <1>1, StoreStutters DEF bookVars
    <2>2. CASE \E restore \in {"pending", "done"} :
                 Write(i, [ledger[i] EXCEPT !.restore = restore])
      <3>1. PICK restore \in {"pending", "done"} :
              Write(i, [ledger[i] EXCEPT !.restore = restore])
        BY <2>2
      <3>2. /\ [ledger[i] EXCEPT !.restore = restore] \in Items
            /\ Records(i) /\ ledger'[i].status \notin Waiting
        BY <1>2, <3>1
      <3>3. StoreInv'
        BY <1>1, <1>4, <3>2, StoreKeptByRecord
      <3> QED BY <1>1, <1>4, <3>1, <3>2, <3>3
    <2> QED BY <1>1, <1>3, <1>4, <2>1, <2>2
  <1>5. CASE files[i.book] = 0 /\ saved >= 2
    <2>1. PICK restore \in {"pending", "done"} :
            Write(i, [ledger[i] EXCEPT !.restore = restore])
      BY <1>5 DEF Restored
    <2> DEFINE item == [ledger[i] EXCEPT !.restore = restore]
    <2>2. /\ item \in Items /\ item.status \notin Waiting /\ item.restore # "none"
          /\ Records(i) /\ ledger'[i] = item
      BY <1>1, <1>2, <2>1 DEF Items
    <2>3. /\ CopyOf(i) \in Contents /\ CopyOf(i).over = i.over /\ CopyOf(i).by = i
          /\ CopyOf(i).receipts = ReceiptsOf(i.over) \cup {i}
          /\ CopyOf(i).receipts \subseteq DOMAIN ledger
          /\ i.over \in 1..Len(contents)
      <3>1. i.over \in 1..Len(contents)
        BY <1>1 DEF DeleteItem, DeleteId
      <3>2. contents[i.over] \in Contents
        BY <1>1, <3>1, BooksTyped
      <3>3. ReceiptsOf(i.over) = contents[i.over].receipts
        BY <1>1, <3>1 DEF ReceiptsOf
      <3>4. BodyOf(i.over) = contents[i.over].body
        BY <1>1, <3>1 DEF BodyOf
      <3>5. contents[i.over].receipts \subseteq DOMAIN ledger
        BY <3>1 DEF StoreInv, ContentsFit
      <3> QED BY <1>1, <3>1, <3>2, <3>3, <3>4, <3>5 DEF CopyOf, Contents
    <2>4. PICK v \in Nat :
            /\ Adds(i) /\ Puts(i, v) /\ v \in 1..Len(contents')
            /\ contents'[v] = CopyOf(i)
            /\ \A w \in (Len(contents) + 1)..Len(contents') : contents'[w].by = i
      <3>1. CASE Copies(i) = {}
        <4>1. /\ contents' = Append(contents, CopyOf(i))
              /\ files' = [files EXCEPT ![i.book] = Len(contents) + 1]
          BY <1>5, <3>1 DEF Restored, Replace
        <4>2. /\ Len(contents') = Len(contents) + 1
              /\ contents'[Len(contents) + 1] = CopyOf(i)
          BY <1>1, <2>3, <4>1, AppendTyped
        <4>3. Adds(i)
          BY <1>1, <2>3, <4>1 DEF Adds
        <4>4. PICK v \in Nat : v = Len(contents) + 1
          BY <1>1
        <4>5. /\ Puts(i, v) /\ v \in 1..Len(contents')
              /\ \A w \in (Len(contents) + 1)..Len(contents') : contents'[w].by = i
          BY <1>1, <2>3, <4>1, <4>2, <4>4 DEF Puts
        <4> QED BY <4>2, <4>3, <4>4, <4>5
      <3>2. CASE Copies(i) # {}
        <4>1. UNCHANGED contents /\ \E v \in Copies(i) : files' = [files EXCEPT ![i.book] = v]
          BY <1>5, <3>2 DEF Restored
        <4>2. PICK v \in Copies(i) : files' = [files EXCEPT ![i.book] = v]
          BY <4>1
        <4>3. v \in Nat /\ v \in 1..Len(contents) /\ contents[v] = CopyOf(i)
          BY <1>1 DEF Copies
        <4>4. /\ v \in 1..Len(contents') /\ v \in 0..Len(contents')
              /\ contents'[v] = CopyOf(i)
          BY <1>1, <4>1, <4>3
        <4>6. Adds(i) /\ Puts(i, v)
          BY <4>1, <4>2, <4>4 DEF Adds, Puts
        <4>5. \A w \in (Len(contents) + 1)..Len(contents') : contents'[w].by = i
          BY <1>1, <4>1
        <4> QED BY <4>3, <4>4, <4>5, <4>6
      <3> QED BY <3>1, <3>2
    <2>5. ReceiptsOf(v)' = ReceiptsOf(i.over) \cup {i}
      BY <1>1, <2>3, <2>4 DEF ReceiptsOf
    <2>6. ASSUME NEW j \in DOMAIN ledger', ledger'[j].status \in Waiting,
                 j \in ReceiptsOf(i.over) \cup {i}
          PROVE  Returned(j)'
      <3>1. j \in ReceiptsOf(i.over)
        BY <2>2, <2>6
      <3>2. ReceiptsOf(i.over)' = ReceiptsOf(i.over)
        BY <1>1, <2>3, <2>4, AddsGrows
      <3>3. i \in DOMAIN ledger' /\ ledger'[i].restore # "none"
        BY <1>1, <2>2, RecordsTyped
      <3> QED BY <3>1, <3>2, <3>3 DEF Returned
    <2>7. StoreInv'
      BY <1>1, <2>2, <2>4, <2>5, <2>6, StoreKept
    <2> QED BY <2>1, <2>2, <2>4, <2>7
  <1> QED BY <1>4, <1>5 DEF Restored

-----------------------------------------------------------------------------
(* The runs over the books *)

RunsTyped ==
  /\ runs \in [RunIds -> RunRows]
  /\ lane \in [Books -> Lanes]
  /\ requests \subseteq Ids
  /\ preview \in Previews
  /\ disturbances \in 0..MaxDisturbances

(* An automatic item of the world book was planned on what the review saw. *)
ReviewSeen ==
  \A i \in DOMAIN ledger : i.kind = "lane" /\ i.book = "world" =>
    /\ runs[<<"world", i.run>>].review # "none"
    /\ ledger[i].automatic => ledger[i].over = runs[<<"world", i.run>>].seen

(* Only a proposal is reviewed. *)
ReviewFits == \A r \in RunIds : runs[r].review # "none" => runs[r].body \in Bodies

RequestsFit == \A i \in requests : EditId(i) \/ DeleteId(i)

(* A preview shows an item that could be decided then, with the plan of a commit under
   way. *)
PreviewFits ==
  preview # NoPreview =>
    /\ LaneId(preview.id) /\ preview.id \in DOMAIN ledger
    /\ preview.item.status \in {"pending", "applying"}
    /\ preview.item.status = "applying" => preview.over = preview.item.over

(* Where a run is says what its checkpoint holds. *)
LaneFits(b) ==
  lane[b].at # "none" =>
    /\ lane[b].run \in 1..MaxRun /\ runs[Current(b)].status = "running"
    /\ lane[b].at \in {"review", "item", "commit"} => runs[Current(b)].body \in Bodies
    /\ b = "world" /\ lane[b].at = "extract" => runs[Current(b)].review = "none"
    /\ lane[b].at = "review" => b = "world" /\ runs[Current(b)].review = "none"
    /\ lane[b].at = "item" /\ b = "world" => runs[Current(b)].review # "none"
    /\ lane[b].at = "commit" => b = "self"
LanesFit == \A b \in Books : LaneFits(b)

(* Once a run has come to its end it owes nothing. *)
Over(r) ==
  \/ runs[r].status = "completed"
  \/ lane[r[1]].at = "finish" /\ lane[r[1]].run = r[2]
Concluded(r) ==
  LET i == Lane(r[1], r[2], runs[r].body) IN
  /\ i \in DOMAIN ledger
  /\ ledger[i].status = "applying" => ~ledger[i].automatic
  /\ r[1] = "self" => ledger[i].status \in {"auto_applied", "unchanged"}
OverIsConcluded == \A r \in RunIds : Over(r) => Concluded(r)

RunsInv ==
  RunsTyped /\ ReviewSeen /\ ReviewFits /\ RequestsFit /\ PreviewFits /\ LanesFit
  /\ OverIsConcluded

BooksInv == StoreInv /\ RunsInv

LEMMA CurrentTyped ==
  ASSUME RunsInv, NEW b \in Books, lane[b].at # "none"
  PROVE  /\ Current(b) \in RunIds /\ runs[Current(b)] \in RunRows
         /\ lane[b].run \in 1..MaxRun /\ lane[b] \in Lanes
         /\ Current(b) = <<b, lane[b].run>>
  BY DEF RunsInv, RunsTyped, LanesFit, LaneFits, Current, RunIds

(* The item a run has come to. *)
LEMMA ItemTyped ==
  ASSUME RunsInv, NEW b \in Books, lane[b].at \in {"item", "commit"}
  PROVE  LET i == ItemOf(b) IN
         /\ i \in Ids /\ LaneId(i) /\ i.book = b /\ i.run = lane[b].run
         /\ i.kind = "lane" /\ i.body = runs[Current(b)].body
  <1>1. lane[b].run \in 1..MaxRun /\ runs[Current(b)].body \in Bodies
    BY DEF RunsInv, LanesFit, LaneFits
  <1>2. MaxRun \in Nat
    BY BooksAssumption
  <1> QED BY <1>1, <1>2 DEF ItemOf, Lane, LaneId, Ids

(* Each run has items of its own. *)
LEMMA ItemsOfRuns ==
  ASSUME NEW r, NEW q, NEW body, NEW other,
         Lane(r[1], r[2], body) = Lane(q[1], q[2], other)
  PROVE  r[1] = q[1] /\ r[2] = q[2] /\ body = other
  <1>1. /\ Lane(r[1], r[2], body).book = Lane(q[1], q[2], other).book
        /\ Lane(r[1], r[2], body).run = Lane(q[1], q[2], other).run
        /\ Lane(r[1], r[2], body).body = Lane(q[1], q[2], other).body
    OBVIOUS
  <1> QED BY <1>1 DEF Lane

(* What a step does to the ledger besides one item. *)
Only(i) ==
  /\ DOMAIN ledger \subseteq DOMAIN ledger' /\ DOMAIN ledger' \subseteq DOMAIN ledger \cup {i}
  /\ \A j \in DOMAIN ledger \ {i} : ledger'[j] = ledger[j]

LEMMA OnlyByWrite ==
  ASSUME BooksTypeOK, NEW i \in Ids, UNCHANGED ledger \/ \E item \in Items : Write(i, item)
  PROVE  Only(i)
  BY WriteTyped DEF Only

(* The step of one item leaves the runs that are over as they were, if it leaves its own
   run so. *)
LEMMA OverKept ==
  ASSUME OverIsConcluded, NEW i, Only(i),
         \A r \in RunIds : Over(r)' => Concluded(r)' \/ (Over(r) /\ runs'[r].body = runs[r].body),
         \A r \in RunIds : Over(r)' /\ Concluded(r) /\ i = Lane(r[1], r[2], runs[r].body)
                             /\ runs'[r].body = runs[r].body => Concluded(r)'
  PROVE  OverIsConcluded'
  <1> SUFFICES ASSUME NEW r \in RunIds, Over(r)'
               PROVE  Concluded(r)'
    BY DEF OverIsConcluded
  <1>1. CASE Over(r) /\ runs'[r].body = runs[r].body /\ i # Lane(r[1], r[2], runs[r].body)
    BY <1>1 DEF OverIsConcluded, Concluded, Only
  <1>2. CASE Over(r) /\ runs'[r].body = runs[r].body /\ i = Lane(r[1], r[2], runs[r].body)
    BY <1>2 DEF OverIsConcluded
  <1> QED BY <1>1, <1>2

LEMMA OverKeptByRuns ==
  ASSUME OverIsConcluded, UNCHANGED ledger,
         \A r \in RunIds : Over(r)' => Over(r) /\ runs'[r].body = runs[r].body
  PROVE  OverIsConcluded'
  BY DEF OverIsConcluded, Concluded

LEMMA OtherLanes ==
  ASSUME LanesFit, NEW b \in Books,
         \A c \in Books \ {b} : /\ lane'[c] = lane[c]
                                /\ runs'[<<c, lane[c].run>>] = runs[<<c, lane[c].run>>],
         LaneFits(b)'
  PROVE  LanesFit'
  <1> SUFFICES ASSUME NEW c \in Books, c # b
               PROVE  LaneFits(c)'
    BY DEF LanesFit
  <1>1. lane'[c] = lane[c] /\ runs'[<<c, lane[c].run>>] = runs[<<c, lane[c].run>>]
    OBVIOUS
  <1>2. LaneFits(c)
    BY DEF LanesFit
  <1> QED BY <1>1, <1>2 DEF LaneFits, Current

LEMMA RunChanges ==
  ASSUME RunsInv, NEW b \in Books, lane[b].at # "none", NEW row \in RunRows,
         runs' = [runs EXCEPT ![Current(b)] = row]
  PROVE  /\ runs' \in [RunIds -> RunRows] /\ runs'[<<b, lane[b].run>>] = row
         /\ \A r \in RunIds \ {Current(b)} : runs'[r] = runs[r]
         /\ \A c \in Books \ {b} : runs'[<<c, lane[c].run>>] = runs[<<c, lane[c].run>>]
  <1>1. Current(b) \in RunIds /\ Current(b) = <<b, lane[b].run>>
    BY CurrentTyped
  <1>2. runs \in [RunIds -> RunRows]
    BY DEF RunsInv, RunsTyped
  <1>3. \A c \in Books \ {b} : <<c, lane[c].run>> # <<b, lane[b].run>>
    OBVIOUS
  <1> QED BY <1>1, <1>2, <1>3

LEMMA LaneChanges ==
  ASSUME RunsInv, NEW b \in Books, NEW row \in Lanes, lane' = [lane EXCEPT ![b] = row]
  PROVE  /\ lane' \in [Books -> Lanes] /\ lane'[b] = row
         /\ \A c \in Books \ {b} : lane'[c] = lane[c]
  BY DEF RunsInv, RunsTyped

LEMMA NoLaneTyped == NoLane \in Lanes /\ NoLane.at = "none"
  BY BooksAssumption DEF NoLane, Lanes

LEMMA NewRunTyped == NewRun \in RunRows
  BY DEF NewRun, RunRows

LEMMA NoPreviewTyped == NoPreview \in Previews
  BY BooksAssumption DEF NoPreview, Previews, Lane, Item, Ids, Items, Statuses, Books

-----------------------------------------------------------------------------
(* The steps that leave the books alone *)

LEMMA StartKeeps ==
  ASSUME BooksInv, NEW b \in Books, NEW n \in 1..MaxRun, Start(b, n)
  PROVE  BooksInv'
  <1> DEFINE r == <<b, n>>
             row == [runs[r] EXCEPT !.status = "running"]
             at == IF runs[r].body = "none" THEN "extract"
                   ELSE IF b = "world" /\ runs[r].review = "none" THEN "review" ELSE "item"
             place == [at |-> at, run |-> n, seen |-> files[b]]
  <1>1. /\ lane[b].at = "none" /\ runs[r].status # "completed"
        /\ runs' = [runs EXCEPT ![r] = row]
        /\ lane' = [lane EXCEPT ![b] = place]
        /\ UNCHANGED <<bookVars, requests, preview, disturbances>>
    BY DEF Start
  <1>2. RunsInv /\ StoreInv
    BY DEF BooksInv
  <1>3. r \in RunIds /\ runs[r] \in RunRows /\ runs \in [RunIds -> RunRows]
    BY <1>2 DEF RunsInv, RunsTyped, RunIds
  <1>4. row \in RunRows /\ row.status = "running" /\ row.body = runs[r].body
        /\ row.review = runs[r].review /\ row.seen = runs[r].seen
    BY <1>3 DEF RunRows
  <1>5. place \in Lanes
    BY <1>2, BooksTyped, BooksAssumption DEF StoreInv, Lanes
  <1>6. StoreInv'
    BY <1>1, <1>2, StoreStutters
  <1>7. /\ lane' \in [Books -> Lanes] /\ lane'[b] = place
        /\ \A c \in Books \ {b} : lane'[c] = lane[c]
    BY <1>1, <1>2, <1>5, LaneChanges
  <1>8. /\ runs' \in [RunIds -> RunRows] /\ runs'[r] = row
        /\ \A q \in RunIds \ {r} : runs'[q] = runs[q]
    BY <1>1, <1>3, <1>4
  <1>9. UNCHANGED <<contents, files, ledger, requests, preview, disturbances>>
    BY <1>1 DEF bookVars
  <1>10. RunsTyped'
    BY <1>2, <1>7, <1>8, <1>9 DEF RunsInv, RunsTyped
  <1>11. \A q \in RunIds : /\ runs'[q].body = runs[q].body /\ runs'[q].review = runs[q].review
                           /\ runs'[q].seen = runs[q].seen
    BY <1>4, <1>8
  <1>12. ReviewSeen'
    <2>1. \A i \in DOMAIN ledger : i.kind = "lane" /\ i.book = "world"
            => <<"world", i.run>> \in RunIds
      BY <1>2 DEF StoreInv, ItemsShaped, Shaped, WorldItem, SelfItem, EditItem, DeleteItem,
         LaneId, EditId, DeleteId, RunIds, Books
    <2> QED BY <1>2, <1>9, <1>11, <2>1 DEF RunsInv, ReviewSeen
  <1>13. RequestsFit' /\ PreviewFits'
    <2>1. RequestsFit'
      BY <1>2, <1>9 DEF RunsInv, RequestsFit, EditId, DeleteId
    <2>2. PreviewFits'
      BY <1>2, <1>9 DEF RunsInv, PreviewFits, LaneId
    <2> QED BY <2>1, <2>2
  <1>14. LaneFits(b)'
    <2>1. lane'[b].at = at /\ lane'[b].run = n /\ Current(b)' = r
      BY <1>7 DEF Current
    <2>2. runs'[r].status = "running" /\ runs'[r].body = runs[r].body
          /\ runs'[r].review = runs[r].review
      BY <1>4, <1>8
    <2>3. /\ runs[r].body \in Bodies \cup {"none"}
          /\ runs[r].review # "none" => runs[r].body \in Bodies
          /\ "none" \notin Bodies
      BY <1>2, <1>3, BooksAssumption DEF RunRows, RunsInv, ReviewFits
    <2>4. /\ b = "world" /\ at = "extract" => runs[r].review = "none"
          /\ at \in {"review", "item", "commit"} => runs[r].body \in Bodies
          /\ at = "review" => b = "world" /\ runs[r].review = "none"
          /\ at = "item" /\ b = "world" => runs[r].review # "none"
          /\ at # "commit"
      BY <2>3
    <2> HIDE DEF at
    <2> QED BY <2>1, <2>2, <2>4 DEF LaneFits
  <1>15. LanesFit'
    <2>1. \A c \in Books \ {b} : runs'[<<c, lane[c].run>>] = runs[<<c, lane[c].run>>]
      <3>1. \A c \in Books \ {b} : <<c, lane[c].run>> # r
        OBVIOUS
      <3> QED BY <1>1, <1>3, <3>1
    <2> QED BY <1>2, <1>7, <1>14, <2>1, OtherLanes DEF RunsInv
  <1>16. OverIsConcluded'
    <2>1. ASSUME NEW q \in RunIds, Over(q)'
          PROVE  Over(q) /\ runs'[q].body = runs[q].body
      <3>1. q[1] \in Books
        BY DEF RunIds
      <3>2. place.at # "finish"
        OBVIOUS
      <3> QED BY <1>4, <1>7, <1>8, <1>11, <2>1, <3>1, <3>2 DEF Over
    <2> QED BY <1>2, <1>9, <2>1, OverKeptByRuns DEF RunsInv
  <1>17. ReviewFits'
    BY <1>2, <1>11 DEF RunsInv, ReviewFits
  <1> QED BY <1>6, <1>10, <1>12, <1>13, <1>15, <1>16, <1>17 DEF BooksInv, RunsInv

-----------------------------------------------------------------------------
(* A step of the run that is at a book *)

(* Where the run r goes with its checkpoint at row. *)
Goal(b, r, row, place) ==
  /\ place \in Lanes
  /\ place.at # "none" =>
       /\ place.run = lane[b].run /\ row.status = "running"
       /\ place.at \in {"review", "item", "commit"} => row.body \in Bodies
       /\ b = "world" /\ place.at = "extract" => row.review = "none"
       /\ place.at = "review" => b = "world" /\ row.review = "none"
       /\ place.at = "item" /\ b = "world" => row.review # "none"
       /\ place.at = "commit" => b = "self"

(* The step of the run r, at book b, for its item i; its checkpoint becomes row. *)
Moves(b, r, row, i) ==
  /\ Len(contents) <= Len(contents')
  /\ lane[b].at # "none" /\ r = Current(b)
  /\ runs' = [runs EXCEPT ![r] = row]
  /\ i.book = b /\ i.run = lane[b].run /\ Only(i)
  /\ row.review # "none" => row.body \in Bodies
  /\ b = "world" => \/ runs[r].review = "none"
                    \/ row.review = runs[r].review /\ row.seen = runs[r].seen
  /\ b = "world" /\ i \in DOMAIN ledger' =>
       row.review # "none" /\ (ledger'[i].automatic => ledger'[i].over = row.seen)
  /\ row.status = "completed" => lane[b].at = "finish" /\ Concluded(r)'
  /\ requests' = requests /\ preview' \in {preview, NoPreview}
  /\ disturbances' \in 0..MaxDisturbances
  /\ \/ lane' = [c \in Books |-> NoLane]
     \/ \E place : /\ lane' = [lane EXCEPT ![b] = place] /\ Goal(b, r, row, place)
                   /\ place.at = "finish" => Concluded(r)'

LEMMA LaneStep ==
  ASSUME BooksInv, StoreInv', NEW b \in Books, NEW r, NEW row \in RunRows, NEW i,
         Moves(b, r, row, i)
  PROVE  BooksInv'
  <1> USE DEF Moves
  <1>1. StoreInv /\ RunsInv /\ RunsTyped
    BY DEF BooksInv, RunsInv
  <1>2. r \in RunIds /\ r = <<b, lane[b].run>> /\ runs[r] \in RunRows
    BY <1>1, CurrentTyped
  <1>3. /\ runs' \in [RunIds -> RunRows] /\ runs'[r] = row
        /\ \A q \in RunIds \ {r} : runs'[q] = runs[q]
        /\ \A c \in Books \ {b} : runs'[<<c, lane[c].run>>] = runs[<<c, lane[c].run>>]
    BY <1>1, <1>2, RunChanges
  <1>4. lane' \in [Books -> Lanes]
    BY <1>1, LaneChanges, NoLaneTyped DEF Goal
  <1>5. RunsTyped'
    BY <1>1, <1>3, <1>4, NoPreviewTyped DEF RunsTyped
  <1>6. ReviewSeen'
    <2> SUFFICES ASSUME NEW j \in DOMAIN ledger', j.kind = "lane", j.book = "world"
                 PROVE  /\ runs'[<<"world", j.run>>].review # "none"
                        /\ ledger'[j].automatic
                             => ledger'[j].over = runs'[<<"world", j.run>>].seen
      BY DEF ReviewSeen
    <2>1. CASE j = i
      BY <1>2, <1>3, <2>1
    <2>2. CASE j # i
      <3>1. j \in DOMAIN ledger /\ ledger'[j] = ledger[j]
        BY <2>2 DEF Only
      <3>2. /\ runs[<<"world", j.run>>].review # "none"
            /\ ledger[j].automatic => ledger[j].over = runs[<<"world", j.run>>].seen
        BY <1>1, <3>1 DEF RunsInv, ReviewSeen
      <3>3. <<"world", j.run>> \in RunIds
        BY <1>1, <3>1 DEF StoreInv, ItemsShaped, Shaped, WorldItem, SelfItem, EditItem,
           DeleteItem, LaneId, EditId, DeleteId, RunIds, Books
      <3>4. CASE <<"world", j.run>> = r
        BY <1>2, <1>3, <3>1, <3>2, <3>4
      <3>5. CASE <<"world", j.run>> # r
        BY <1>3, <3>1, <3>2, <3>3, <3>5
      <3> QED BY <3>4, <3>5
    <2> QED BY <2>1, <2>2
  <1>7. ReviewFits'
    BY <1>1, <1>3 DEF RunsInv, ReviewFits
  <1>8. RequestsFit'
    <2>1. Len(contents) \in Nat /\ Len(contents') \in Nat
      BY <1>1, BooksTyped DEF StoreInv, BooksTypeOK
    <2> QED BY <1>1, <2>1 DEF RunsInv, RequestsFit, EditId, DeleteId
  <1>9. PreviewFits'
    BY <1>1 DEF RunsInv, PreviewFits, LaneId, Only
  <1>10. /\ LanesFit'
         /\ \A q \in RunIds : Over(q)' => Concluded(q)' \/ (q # r /\ Over(q))
    <2>1. CASE lane' = [c \in Books |-> NoLane]
      <3>1. \A c \in Books : lane'[c].at = "none"
        BY <2>1, NoLaneTyped
      <3>2. LanesFit'
        BY <3>1 DEF LanesFit, LaneFits
      <3>3. ASSUME NEW q \in RunIds, Over(q)'
            PROVE  Concluded(q)' \/ (q # r /\ Over(q))
        <4>1. runs'[q].status = "completed"
          BY <3>1, <3>3 DEF Over, RunIds
        <4> QED BY <1>3, <4>1 DEF Over
      <3> QED BY <3>2, <3>3
    <2>2. CASE \E place :
                 /\ lane' = [lane EXCEPT ![b] = place] /\ Goal(b, r, row, place)
                 /\ place.at = "finish" => Concluded(r)'
      <3>1. PICK place :
              /\ lane' = [lane EXCEPT ![b] = place] /\ Goal(b, r, row, place)
              /\ place.at = "finish" => Concluded(r)'
        BY <2>2
      <3>2. lane'[b] = place /\ \A c \in Books \ {b} : lane'[c] = lane[c]
        BY <1>1, <3>1, LaneChanges DEF Goal
      <3>3. LaneFits(b)'
        <4>1. place.at # "none" => Current(b)' = r
          BY <1>2, <3>1, <3>2 DEF Goal, Current
        <4>2. place.at # "none" => place.run \in 1..MaxRun
          BY <1>1, <3>1, CurrentTyped DEF Goal
        <4> QED BY <1>3, <3>1, <3>2, <4>1, <4>2 DEF LaneFits, Goal
      <3>4. LanesFit'
        BY <1>1, <1>3, <3>2, <3>3, OtherLanes DEF RunsInv
      <3>5. ASSUME NEW q \in RunIds, Over(q)'
            PROVE  Concluded(q)' \/ (q # r /\ Over(q))
        <4>1. q[1] \in Books /\ q = <<q[1], q[2]>>
          BY DEF RunIds
        <4>2. CASE q = r
          <5>1. row.status = "completed" \/ place.at = "finish"
            BY <1>2, <1>3, <3>2, <3>5, <4>2 DEF Over
          <5> QED BY <3>1, <4>2, <5>1
        <4>3. CASE q # r /\ q[1] # b
          BY <1>3, <3>2, <3>5, <4>1, <4>3 DEF Over
        <4>4. CASE q # r /\ q[1] = b
          <5>1. q[2] # lane[b].run
            BY <1>2, <4>1, <4>4
          <5>2. place.at = "finish" => place.run = lane[b].run
            BY <3>1 DEF Goal
          <5> QED BY <1>3, <3>2, <3>5, <4>4, <5>1, <5>2 DEF Over
        <4> QED BY <4>2, <4>3, <4>4
      <3> QED BY <3>4, <3>5
    <2> QED BY <2>1, <2>2
  <1>11. OverIsConcluded'
    <2>1. ASSUME NEW q \in RunIds, Over(q)', i = Lane(q[1], q[2], runs[q].body)
          PROVE  Concluded(q)'
      <3>1. q[1] = b /\ q[2] = lane[b].run
        BY <2>1 DEF Lane
      <3>2. q = r
        BY <1>2, <3>1 DEF RunIds
      <3> QED BY <1>10, <2>1, <3>2
    <2>2. \A q \in RunIds : Over(q)' => Concluded(q)' \/ (Over(q) /\ runs'[q].body = runs[q].body)
      BY <1>3, <1>10
    <2>3. OverIsConcluded
      BY <1>1 DEF RunsInv
    <2> QED BY <2>1, <2>2, <2>3, OverKept
  <1> QED BY <1>5, <1>6, <1>7, <1>8, <1>9, <1>10, <1>11 DEF BooksInv, RunsInv

(* A step that leaves the books and the ledger alone. *)
Quiet(b, r, row, place) ==
  /\ lane[b].at # "none" /\ r = Current(b)
  /\ runs' = [runs EXCEPT ![r] = row]
  /\ lane' = [lane EXCEPT ![b] = place] /\ Goal(b, r, row, place)
  /\ row.review # "none" => row.body \in Bodies
  /\ b = "world" => \/ runs[r].review = "none"
                    \/ row.review = runs[r].review /\ row.seen = runs[r].seen
  /\ row.status = "completed" => lane[b].at = "finish" /\ row.body = runs[r].body
  /\ place.at = "finish" => Concluded(r)'

LEMMA QuietLaneStep ==
  ASSUME BooksInv, UNCHANGED <<bookVars, requests, preview>>,
         disturbances' \in 0..MaxDisturbances,
         NEW b \in Books, NEW r, NEW row \in RunRows, NEW place, Quiet(b, r, row, place)
  PROVE  BooksInv'
  <1> USE DEF Quiet
  <1> DEFINE i == Lane(b, lane[b].run, "none")
  <1>1. StoreInv' /\ UNCHANGED ledger /\ Only(i)
    BY StoreStutters DEF BooksInv, bookVars, Only
  <1>2. Len(contents) <= Len(contents')
    BY BooksTyped DEF BooksInv, StoreInv, bookVars
  <1>3. i \notin DOMAIN ledger'
    BY <1>1, BooksAssumption DEF BooksInv, StoreInv, ItemsShaped, Shaped, WorldItem, SelfItem,
       EditItem, DeleteItem, LaneId, EditId, DeleteId, Lane
  <1>4. row.status = "completed" => Concluded(r)'
    <2>1. r \in RunIds /\ runs \in [RunIds -> RunRows] /\ r = <<b, lane[b].run>>
      BY CurrentTyped DEF BooksInv, RunsInv, RunsTyped
    <2>2. lane[b].at = "finish" => Over(r)
      BY <2>1 DEF Over
    <2> QED BY <1>1, <2>1, <2>2 DEF BooksInv, RunsInv, OverIsConcluded, Concluded
  <1>5. i.book = b /\ i.run = lane[b].run
    BY DEF Lane
  <1>6. requests' = requests /\ preview' \in {preview, NoPreview}
    OBVIOUS
  <1> HIDE DEF i
  <1>7. Moves(b, r, row, i)
    BY <1>1, <1>2, <1>3, <1>4, <1>5, <1>6 DEF Moves
  <1> QED BY <1>1, <1>7, LaneStep

LEMMA DisturbTyped ==
  ASSUME RunsInv, Disturb \/ UNCHANGED disturbances
  PROVE  disturbances' \in 0..MaxDisturbances
  BY DisturbancesAssumption DEF RunsInv, RunsTyped, Disturb

(* Where a lane goes, the run it is at stays the same. *)
LEMMA GoesTyped ==
  ASSUME RunsInv, NEW b \in Books, lane[b].at # "none",
         NEW at \in {"none", "extract", "review", "item", "commit", "finish"}
  PROVE  LET place == [lane[b] EXCEPT !.at = at] IN
         /\ Goes(b, at) = [lane EXCEPT ![b] = place]
         /\ place \in Lanes /\ place.at = at /\ place.run = lane[b].run
  BY CurrentTyped DEF Goes, Lanes, RunsInv, RunsTyped

LEMMA ExtractedKeeps ==
  ASSUME BooksInv, NEW b \in Books, Extracted(b)
  PROVE  BooksInv'
  <1>1. PICK body \in Bodies :
          runs' = [runs EXCEPT ![Current(b)].body = body,
                               ![Current(b)].seen = IF b = "self" THEN lane[b].seen ELSE @]
    BY DEF Extracted
  <1> PICK r : r = Current(b)
    OBVIOUS
  <1> DEFINE row == [runs[r] EXCEPT !.body = body,
                                    !.seen = IF b = "self" THEN lane[b].seen ELSE @]
             at == IF b = "self" THEN "item" ELSE "review"
             place == [lane[b] EXCEPT !.at = at]
  <1>2. RunsInv /\ lane[b].at = "extract" /\ lane[b].at # "none"
    BY DEF BooksInv, Extracted
  <1>3. /\ r \in RunIds /\ runs[r] \in RunRows /\ lane[b] \in Lanes /\ lane[b].seen \in Nat
        /\ runs[r].status = "running"
        /\ b = "world" => runs[r].review = "none"
    BY <1>2, CurrentTyped DEF RunsInv, LanesFit, LaneFits, Lanes
  <1>4. /\ row \in RunRows /\ row.body \in Bodies /\ row.status = runs[r].status
        /\ row.review = runs[r].review
    BY <1>3 DEF RunRows
  <1>5. runs' = [runs EXCEPT ![r] = row]
    BY <1>1, <1>2, <1>3 DEF RunsInv, RunsTyped
  <1>6. /\ lane' = [lane EXCEPT ![b] = place]
        /\ place \in Lanes /\ place.at = at /\ place.run = lane[b].run
    <2>1. lane' = Goes(b, at)
      BY DEF Extracted
    <2>2. at \in {"none", "extract", "review", "item", "commit", "finish"}
      OBVIOUS
    <2> HIDE DEF at
    <2> QED BY <1>2, <2>1, <2>2, GoesTyped
  <1>7. Goal(b, r, row, place)
    <2>1. b = "world" \/ b = "self"
      BY DEF Books
    <2>2. /\ place.at # "none" /\ place.at # "extract" /\ place.at # "commit"
          /\ b = "self" => place.at = "item"
          /\ b = "world" => place.at = "review"
      BY <1>6, <2>1
    <2> HIDE DEF row, place
    <2> QED BY <1>3, <1>4, <1>6, <2>1, <2>2 DEF Goal
  <1>8. UNCHANGED <<bookVars, requests, preview, disturbances>>
    BY DEF Extracted
  <1>9. disturbances' \in 0..MaxDisturbances
    BY <1>2, <1>8, DisturbTyped
  <1>10. place.at # "finish" /\ row.status # "completed"
    BY <1>3, <1>4, <1>6
  <1> HIDE DEF row, place
  <1>11. Quiet(b, r, row, place)
    BY <1>2, <1>3, <1>4, <1>5, <1>6, <1>7, <1>10 DEF Quiet
  <1> QED BY <1>4, <1>8, <1>9, <1>11, QuietLaneStep

LEMMA ReviewedKeeps ==
  ASSUME BooksInv, Reviewed
  PROVE  BooksInv'
  <1>1. PICK review \in {"auto", "person", "observe"} :
          runs' = [runs EXCEPT ![Current("world")].review = review,
                               ![Current("world")].seen = lane["world"].seen]
    BY DEF Reviewed
  <1> PICK r : r = Current("world")
    OBVIOUS
  <1> DEFINE row == [runs[r] EXCEPT !.review = review, !.seen = lane["world"].seen]
             place == [lane["world"] EXCEPT !.at = "item"]
  <1>2. RunsInv /\ lane["world"].at = "review" /\ lane["world"].at # "none" /\ "world" \in Books
    BY DEF BooksInv, Reviewed, Books
  <1>3. /\ r \in RunIds /\ runs[r] \in RunRows
        /\ lane["world"] \in Lanes /\ lane["world"].seen \in Nat
        /\ runs[r].status = "running" /\ runs[r].body \in Bodies /\ runs[r].review = "none"
    BY <1>2, CurrentTyped DEF RunsInv, LanesFit, LaneFits, Lanes
  <1>4. /\ row \in RunRows /\ row.body = runs[r].body /\ row.status = runs[r].status
        /\ row.review = review
    BY <1>3 DEF RunRows
  <1>5. runs' = [runs EXCEPT ![r] = row]
    BY <1>1, <1>2, <1>3 DEF RunsInv, RunsTyped
  <1>6. /\ lane' = [lane EXCEPT !["world"] = place]
        /\ place \in Lanes /\ place.at = "item" /\ place.run = lane["world"].run
    BY <1>2, GoesTyped DEF Reviewed
  <1>7. UNCHANGED <<bookVars, requests, preview, disturbances>>
    BY DEF Reviewed
  <1>8. disturbances' \in 0..MaxDisturbances
    BY <1>2, <1>7, DisturbTyped
  <1> HIDE DEF row, place
  <1>9. Goal("world", r, row, place)
    BY <1>3, <1>4, <1>6 DEF Goal
  <1>10. Quiet("world", r, row, place)
    BY <1>2, <1>3, <1>4, <1>5, <1>6, <1>9 DEF Quiet
  <1> QED BY <1>2, <1>4, <1>7, <1>8, <1>10, QuietLaneStep

(* A run that ends its attempt, or itself. *)
LEMMA EndKeeps ==
  ASSUME BooksInv, NEW b \in Books, lane[b].at # "none", NEW row \in RunRows,
         runs' = [runs EXCEPT ![Current(b)] = row], lane' = [lane EXCEPT ![b] = NoLane],
         UNCHANGED <<bookVars, requests, preview>>, Disturb \/ UNCHANGED disturbances,
         \/ row.body = runs[Current(b)].body /\ row.review = runs[Current(b)].review
            /\ row.seen = runs[Current(b)].seen
         \/ b = "self" /\ row.review = "none" /\ row.status = "error",
         row.status = "completed" => lane[b].at = "finish"
  PROVE  BooksInv'
  <1> PICK r : r = Current(b)
    OBVIOUS
  <1>1. RunsInv /\ r \in RunIds
    BY CurrentTyped DEF BooksInv
  <1>2. disturbances' \in 0..MaxDisturbances
    BY <1>1, DisturbTyped
  <1>3. Goal(b, r, row, NoLane) /\ NoLane.at # "finish"
    BY NoLaneTyped DEF Goal
  <1>4. runs[r].review # "none" => runs[r].body \in Bodies
    BY <1>1 DEF RunsInv, ReviewFits
  <1>5. Quiet(b, r, row, NoLane)
    BY <1>1, <1>3, <1>4 DEF Quiet
  <1> QED BY <1>2, <1>5, QuietLaneStep

LEMMA CallFailsKeeps ==
  ASSUME BooksInv, NEW b \in Books, CallFails(b)
  PROVE  BooksInv'
  <1>1. RunsInv /\ lane[b].at # "none"
    BY DEF BooksInv, CallFails
  <1> DEFINE row == [runs[Current(b)] EXCEPT !.status = "error"]
  <1>2. runs[Current(b)] \in RunRows
    BY <1>1, CurrentTyped
  <1>3. /\ row \in RunRows /\ row.body = runs[Current(b)].body
        /\ row.review = runs[Current(b)].review /\ row.seen = runs[Current(b)].seen
        /\ row.status = "error"
    BY <1>2 DEF RunRows
  <1>4. runs' = [runs EXCEPT ![Current(b)] = row]
    BY DEF CallFails
  <1>5. /\ lane' = [lane EXCEPT ![b] = NoLane] /\ Disturb
        /\ UNCHANGED <<bookVars, requests, preview>>
    BY DEF CallFails
  <1> HIDE DEF row
  <1> QED BY <1>1, <1>3, <1>4, <1>5, EndKeeps

LEMMA FinishKeeps ==
  ASSUME BooksInv, NEW b \in Books, Finish(b)
  PROVE  BooksInv'
  <1>1. RunsInv /\ lane[b].at = "finish"
    BY DEF BooksInv, Finish
  <1> DEFINE row == [runs[Current(b)] EXCEPT !.status = "completed"]
  <1>2. runs[Current(b)] \in RunRows
    BY <1>1, CurrentTyped
  <1>3. /\ row \in RunRows /\ row.body = runs[Current(b)].body
        /\ row.review = runs[Current(b)].review /\ row.seen = runs[Current(b)].seen
    BY <1>2 DEF RunRows
  <1>4. runs' = [runs EXCEPT ![Current(b)] = row]
    BY DEF Finish
  <1>5. /\ lane' = [lane EXCEPT ![b] = NoLane]
        /\ UNCHANGED <<bookVars, requests, preview, disturbances>>
    BY DEF Finish
  <1> HIDE DEF row
  <1> QED BY <1>1, <1>3, <1>4, <1>5, EndKeeps

-----------------------------------------------------------------------------
(* A run comes to its item *)

LEMMA SaveGrows ==
  ASSUME StoreInv, NEW i \in Ids, i.body \in Bodies, NEW over, NEW happens,
         Save(i, over, happens)
  PROVE  /\ Len(contents) <= Len(contents')
         /\ UNCHANGED contents \/ (happens /\ Outcome(i, over) = "saves")
  <1>1. Len(contents) \in Nat /\ BooksTypeOK
    BY BooksTyped DEF StoreInv
  <1>2. CASE happens /\ Outcome(i, over) = "saves"
    <2> DEFINE c == [body |-> i.body, receipts |-> ReceiptsOf(over) \cup {i},
                     over |-> over, by |-> i]
    <2>1. c \in Contents /\ contents' = Append(contents, c)
      BY <1>2, SaveWrites
    <2> HIDE DEF c
    <2> QED BY <1>1, <1>2, <2>1, AppendTyped
  <1>3. CASE ~(happens /\ Outcome(i, over) = "saves")
    BY <1>1, <1>3 DEF Save
  <1> QED BY <1>2, <1>3

LEMMA WholeTyped ==
  ASSUME RunsInv, NEW saved, NEW n, NEW after, Whole(saved, n, after)
  PROVE  /\ \/ saved = n /\ lane' = after /\ preview' = preview
            \/ saved # n /\ lane' = [c \in Books |-> NoLane] /\ preview' = NoPreview
         /\ disturbances' \in 0..MaxDisturbances
  BY DisturbTyped DEF Whole

LEMMA LaneCommitsKeeps ==
  ASSUME BooksInv, NEW b \in Books, lane[b].at \in {"item", "commit"},
         NEW over \in Nat, NEW automatic \in BOOLEAN, b = "self" => automatic,
         NEW n \in {3, 4}, NEW saved \in (n - 3)..n,
         b = "world" => runs[Current(b)].review # "none"
                        /\ (automatic => over = runs[Current(b)].seen),
         LaneCommits(b, ItemOf(b), over, automatic, saved, n), UNCHANGED requests
  PROVE  BooksInv'
  <1> PICK r : r = Current(b)
    OBVIOUS
  <1> PICK i : i = ItemOf(b)
    OBVIOUS
  <1> PICK k \in 0..3 : k = saved - (n - 3) /\ (saved = n <=> k = 3)
    OBVIOUS
  <1> DEFINE outcome == Outcome(i, over)
             goesOn == outcome \in {"there", "saves"} \/ (b = "world" /\ outcome = "conflict")
             after == IF goesOn THEN Goes(b, "finish") ELSE [lane EXCEPT ![b] = NoLane]
             row == IF goesOn \/ saved < n THEN runs[r] ELSE Raised(b, outcome)
             item == CommitItem(i, over, automatic, k)
  <1>1. StoreInv /\ RunsInv /\ lane[b].at # "none"
    BY DEF BooksInv
  <1>2. /\ r \in RunIds /\ runs[r] \in RunRows /\ r = <<b, lane[b].run>>
        /\ runs[r].status = "running" /\ runs[r].body \in Bodies
    BY <1>1, CurrentTyped DEF RunsInv, LanesFit, LaneFits
  <1>3. /\ i \in Ids /\ LaneId(i) /\ i.book = b /\ i.run = lane[b].run
        /\ i.kind = "lane" /\ i.body = runs[r].body
    BY <1>1, ItemTyped
  <1>4. /\ Committed(i, over, automatic, k) /\ Whole(saved, n, after)
        /\ runs' = IF goesOn \/ saved < n THEN runs ELSE [runs EXCEPT ![r] = Raised(b, outcome)]
    BY DEF LaneCommits
  <1>5. /\ StoreInv'
        /\ k = 0 => UNCHANGED bookVars
        /\ k # 0 => Write(i, item)
    BY <1>1, <1>3, <1>4, CommittedKeeps
  <1>6. item \in Items /\ item.over = over /\ item.automatic = automatic
    BY DEF CommitItem, Item, Items, Statuses, Applied
  <1>7. /\ Only(i)
        /\ UNCHANGED ledger \/ (i \in DOMAIN ledger' /\ ledger'[i] = item)
    BY <1>1, <1>3, <1>5, <1>6, OnlyByWrite, WriteTyped DEF StoreInv, bookVars
  <1>8. Len(contents) <= Len(contents')
    <2>1. Save(i, over, k >= 2)
      BY <1>4 DEF Committed
    <2> QED BY <1>1, <1>3, <2>1, SaveGrows DEF LaneId
  <1>9. /\ row \in RunRows /\ row.status # "completed"
        /\ goesOn \/ saved < n => row = runs[r]
        /\ \/ b = "self" /\ row.review = "none"
           \/ row.body = runs[r].body /\ row.review = runs[r].review /\ row.seen = runs[r].seen
    <2>1. CASE goesOn \/ saved < n
      BY <1>2, <2>1
    <2>2. CASE ~(goesOn \/ saved < n) /\ b = "self" /\ outcome = "conflict"
      <3>1. row = [NewRun EXCEPT !.status = "error"]
        BY <2>2 DEF Raised
      <3> QED BY <2>2, <3>1 DEF NewRun, RunRows
    <2>3. CASE ~(goesOn \/ saved < n) /\ ~(b = "self" /\ outcome = "conflict")
      <3>1. row = [runs[r] EXCEPT !.status = "error"]
        BY <2>3 DEF Raised
      <3> QED BY <1>2, <2>3, <3>1 DEF RunRows
    <2> QED BY <2>1, <2>2, <2>3
  <1>10. runs' = [runs EXCEPT ![r] = row]
    BY <1>1, <1>2, <1>4 DEF RunsInv, RunsTyped
  <1>11. row.review # "none" => row.body \in Bodies
    BY <1>2, <1>9
  <1>12. b = "world" /\ i \in DOMAIN ledger' =>
           row.review # "none" /\ (ledger'[i].automatic => ledger'[i].over = row.seen)
    <2>1. CASE b = "world" /\ UNCHANGED ledger /\ i \in DOMAIN ledger
      <3>1. /\ runs[r].review # "none"
            /\ ledger[i].automatic => ledger[i].over = runs[r].seen
        BY <1>1, <1>2, <1>3, <2>1 DEF RunsInv, ReviewSeen
      <3> QED BY <1>9, <2>1, <3>1
    <2>2. CASE b = "world" /\ i \in DOMAIN ledger' /\ ledger'[i] = item
      BY <1>6, <1>9, <2>2
    <2> QED BY <1>7, <2>1, <2>2
  <1>13. k = 3 /\ goesOn => Concluded(r)'
    <2> SUFFICES ASSUME k = 3, goesOn
                 PROVE  Concluded(r)'
      OBVIOUS
    <2> HIDE DEF item, row
    <2>1. i \in DOMAIN ledger' /\ ledger'[i] = item
      <3>1. Write(i, item) /\ item \in Items /\ i \in Ids /\ BooksTypeOK
        BY <1>1, <1>3, <1>5, <1>6 DEF StoreInv
      <3> QED BY <3>1, WriteTyped
    <2>2. runs'[r].body = i.body /\ i = Lane(r[1], r[2], runs'[r].body)
      <3>1. row = runs[r] /\ runs'[r] = row
        BY <1>1, <1>2, <1>9, <1>10 DEF RunsInv, RunsTyped
      <3> QED BY <1>2, <1>3, <3>1 DEF ItemOf
    <2>3. /\ item.status # "applying"
          /\ b = "self" => item.status = "auto_applied"
      BY DEF item, CommitItem, Item, Applied
    <2>4. r[1] = b
      BY <1>2
    <2> QED BY <2>1, <2>2, <2>3, <2>4 DEF Concluded
  <1>14. /\ preview' \in {preview, NoPreview} /\ disturbances' \in 0..MaxDisturbances
         /\ \/ lane' = [c \in Books |-> NoLane]
            \/ \E place : /\ lane' = [lane EXCEPT ![b] = place] /\ Goal(b, r, row, place)
                          /\ place.at = "finish" => Concluded(r)'
    <2>1. /\ \/ saved = n /\ lane' = after /\ preview' = preview
             \/ saved # n /\ lane' = [c \in Books |-> NoLane] /\ preview' = NoPreview
          /\ disturbances' \in 0..MaxDisturbances
      BY <1>1, <1>4, WholeTyped
    <2>2. CASE saved # n
      BY <2>1, <2>2
    <2>3. CASE saved = n /\ goesOn
      <3> DEFINE place == [lane[b] EXCEPT !.at = "finish"]
      <3>1. /\ lane' = [lane EXCEPT ![b] = place]
            /\ place \in Lanes /\ place.at = "finish" /\ place.run = lane[b].run
        BY <1>1, <2>1, <2>3, GoesTyped
      <3> HIDE DEF place
      <3>2. Goal(b, r, row, place)
        BY <1>2, <1>9, <2>3, <3>1 DEF Goal
      <3> QED BY <1>13, <2>1, <2>3, <3>1, <3>2
    <2>4. CASE saved = n /\ ~goesOn
      <3>1. lane' = [lane EXCEPT ![b] = NoLane]
        BY <2>1, <2>4
      <3>2. Goal(b, r, row, NoLane) /\ NoLane.at # "finish"
        BY NoLaneTyped DEF Goal
      <3> QED BY <2>1, <2>4, <3>1, <3>2
    <2> QED BY <2>2, <2>3, <2>4
  <1> HIDE DEF row, item
  <1>15. Moves(b, r, row, i)
    BY <1>1, <1>3, <1>7, <1>8, <1>9, <1>10, <1>11, <1>12, <1>14 DEF Moves
  <1> QED BY <1>5, <1>9, <1>15, LaneStep

LEMMA AtItem ==
  ASSUME BooksInv, NEW b \in Books, lane[b].at \in {"item", "commit"}
  PROVE  /\ Current(b) \in RunIds /\ runs[Current(b)] \in RunRows
         /\ Current(b) = <<b, lane[b].run>>
         /\ runs[Current(b)].status = "running" /\ runs[Current(b)].body \in Bodies
         /\ b = "world" => runs[Current(b)].review # "none"
         /\ lane[b].at # "none"
  BY CurrentTyped DEF BooksInv, RunsInv, LanesFit, LaneFits

(* The item is there already, and is nothing to commit. *)
LEMMA PassesKeeps ==
  ASSUME BooksInv, NEW b \in Books, lane[b].at = "item",
         ItemOf(b) \in DOMAIN ledger, ledger[ItemOf(b)].status # "applying",
         b = "self" => ledger[ItemOf(b)].status # "error",
         lane' = Goes(b, "finish"),
         UNCHANGED <<bookVars, runs, requests, preview, disturbances>>
  PROVE  BooksInv'
  <1> PICK r : r = Current(b)
    OBVIOUS
  <1> DEFINE place == [lane[b] EXCEPT !.at = "finish"]
  <1>1. RunsInv /\ StoreInv /\ UNCHANGED ledger /\ UNCHANGED runs
    BY DEF BooksInv, bookVars
  <1>2. /\ r \in RunIds /\ runs[r] \in RunRows /\ r = <<b, lane[b].run>>
        /\ runs[r].status = "running" /\ runs[r].body \in Bodies /\ lane[b].at # "none"
    BY AtItem
  <1>3. /\ lane' = [lane EXCEPT ![b] = place]
        /\ place \in Lanes /\ place.at = "finish" /\ place.run = lane[b].run
    BY <1>1, <1>2, GoesTyped
  <1> HIDE DEF place
  <1>4. Goal(b, r, runs[r], place)
    BY <1>2, <1>3 DEF Goal
  <1>5. Concluded(r)'
    <2>1. ItemOf(b) = Lane(r[1], r[2], runs'[r].body) /\ r[1] = b
      BY <1>1, <1>2 DEF ItemOf
    <2>2. b = "self" => ledger[ItemOf(b)].status \in {"auto_applied", "unchanged"}
      <3>1. Shaped(ItemOf(b), ledger[ItemOf(b)])
        BY <1>1 DEF StoreInv, ItemsShaped
      <3>2. ItemOf(b).kind = "lane" /\ ItemOf(b).book = b
        BY <1>1, ItemTyped
      <3> QED BY <3>1, <3>2 DEF Shaped, WorldItem, SelfItem, EditItem, DeleteItem, EditId,
           DeleteId
    <2> QED BY <1>1, <2>1, <2>2 DEF Concluded
  <1>6. runs' = [runs EXCEPT ![r] = runs[r]]
    BY <1>1, <1>2 DEF RunsInv, RunsTyped
  <1>7. Quiet(b, r, runs[r], place)
    BY <1>2, <1>3, <1>4, <1>5, <1>6 DEF Quiet
  <1>8. disturbances' \in 0..MaxDisturbances
    BY <1>1, DisturbTyped
  <1> QED BY <1>2, <1>7, <1>8, QuietLaneStep

(* The item is recorded for the first time, and the entry is left alone. *)
LEMMA NewItemKeeps ==
  ASSUME BooksInv, NEW b \in Books, lane[b].at = "item", ItemOf(b) \notin DOMAIN ledger,
         NEW item \in Items, Write(ItemOf(b), item), Shaped(ItemOf(b), item),
         b = "world" => ~item.automatic,
         UNCHANGED <<contents, files, runs, requests>>,
         preview' \in {preview, NoPreview}, disturbances' \in 0..MaxDisturbances,
         \/ lane' = [c \in Books |-> NoLane]
         \/ /\ lane' = Goes(b, "finish")
            /\ b = "world" \/ item.status \in {"auto_applied", "unchanged"}
  PROVE  BooksInv'
  <1> PICK r : r = Current(b)
    OBVIOUS
  <1> PICK i : i = ItemOf(b)
    OBVIOUS
  <1>1. RunsInv /\ StoreInv /\ BooksTypeOK
    BY DEF BooksInv, StoreInv
  <1>2. /\ r \in RunIds /\ runs[r] \in RunRows /\ r = <<b, lane[b].run>>
        /\ runs[r].status = "running" /\ runs[r].body \in Bodies /\ lane[b].at # "none"
        /\ b = "world" => runs[r].review # "none"
    BY AtItem
  <1>3. /\ i \in Ids /\ LaneId(i) /\ i.book = b /\ i.run = lane[b].run
        /\ i.kind = "lane" /\ i.body = runs[r].body
    BY <1>1, ItemTyped
  <1>4. i \in DOMAIN ledger' /\ ledger'[i] = item /\ Only(i)
    BY <1>1, <1>3, WriteTyped, OnlyByWrite
  <1>5. ~ReceiptPresent(i)
    <2>1. files[b] \in 0..Len(contents) /\ Len(contents) \in Nat
      BY <1>1, BooksTyped
    <2> QED BY <1>1, <1>3, <2>1 DEF StoreInv, ContentsFit, ReceiptPresent, ReceiptsOf
  <1>6. StoreInv'
    <2>1. Records(i)
      BY <1>3 DEF Records
    <2> QED BY <1>1, <1>3, <1>5, <2>1, StoreKeptByRecord
  <1>7. runs' = [runs EXCEPT ![r] = runs[r]]
    BY <1>1, <1>2 DEF RunsInv, RunsTyped
  <1>8. b = "world" \/ item.status \in {"auto_applied", "unchanged"} => Concluded(r)'
    <2>1. i = Lane(r[1], r[2], runs'[r].body) /\ r[1] = b
      BY <1>2 DEF ItemOf
    <2>2. b = "world" \/ b = "self"
      BY DEF Books
    <2> QED BY <1>4, <2>1, <2>2 DEF Concluded
  <1>9. Goes(b, "finish") = [lane EXCEPT ![b] = [lane[b] EXCEPT !.at = "finish"]]
        /\ Goal(b, r, runs[r], [lane[b] EXCEPT !.at = "finish"])
    BY <1>1, <1>2, GoesTyped DEF Goal
  <1>10. \/ lane' = [c \in Books |-> NoLane]
         \/ \E place : /\ lane' = [lane EXCEPT ![b] = place] /\ Goal(b, r, runs[r], place)
                       /\ place.at = "finish" => Concluded(r)'
    BY <1>8, <1>9
  <1>11. Len(contents) <= Len(contents')
    BY <1>1, BooksTyped
  <1>12. Moves(b, r, runs[r], i)
    BY <1>2, <1>3, <1>4, <1>7, <1>10, <1>11 DEF Moves
  <1> QED BY <1>2, <1>6, <1>12, LaneStep

LEMMA WorldResumesKeeps ==
  ASSUME BooksInv, WorldResumes
  PROVE  BooksInv'
  <1> PICK i : i = ItemOf("world")
    OBVIOUS
  <1>1. "world" \in Books /\ lane["world"].at = "item" /\ i \in DOMAIN ledger /\ UNCHANGED requests
    BY DEF Books, WorldResumes
  <1>2. RunsInv /\ BooksTypeOK /\ ledger[i] \in Items
    BY <1>1 DEF BooksInv, StoreInv, BooksTypeOK
  <1>3. CASE ledger[i].status = "applying"
    <2>1. PICK saved \in 0..3 :
            LaneCommits("world", i, ledger[i].over, ledger[i].automatic, saved, 3)
      BY <1>3 DEF WorldResumes
    <2>2. ledger[i].over \in Nat /\ ledger[i].automatic \in BOOLEAN
      BY <1>2 DEF Items
    <2>3. /\ runs[Current("world")].review # "none"
          /\ ledger[i].automatic => ledger[i].over = runs[Current("world")].seen
      BY <1>1, <1>2, ItemTyped DEF RunsInv, ReviewSeen, Current
    <2>4. saved \in (3 - 3)..3
      OBVIOUS
    <2> QED BY <1>1, <2>1, <2>2, <2>3, <2>4, LaneCommitsKeeps
  <1>4. CASE ledger[i].status # "applying"
    <2>1. /\ lane' = Goes("world", "finish")
          /\ UNCHANGED <<bookVars, runs, preview, disturbances>>
      BY <1>4 DEF WorldResumes
    <2> QED BY <1>1, <1>4, <2>1, PassesKeeps
  <1> QED BY <1>3, <1>4

LEMMA WorldDecidesKeeps ==
  ASSUME BooksInv, WorldDecides
  PROVE  BooksInv'
  <1> PICK i : i = ItemOf("world")
    OBVIOUS
  <1> DEFINE over == files["world"]
             status == IF runs[Current("world")].review = "observe" THEN "observing"
                       ELSE IF BodyOf(over) = i.body THEN "unchanged" ELSE "pending"
  <1>1. /\ "world" \in Books /\ lane["world"].at = "item" /\ i \notin DOMAIN ledger
        /\ UNCHANGED requests
    BY DEF Books, WorldDecides
  <1>2. RunsInv /\ BooksTypeOK /\ over \in Nat
    BY <1>1, BooksTyped DEF BooksInv, StoreInv
  <1>3. CASE status = "pending" /\ MayAutoApply(i)
    <2>1. PICK saved \in 2..4 : LaneCommits("world", i, over, TRUE, saved, 4)
      BY <1>3 DEF WorldDecides
    <2>2. saved \in (4 - 3)..4
      OBVIOUS
    <2>3. /\ runs[Current("world")].review # "none"
          /\ over = runs[Current("world")].seen
      BY <1>3 DEF MayAutoApply
    <2> QED BY <1>1, <1>2, <2>1, <2>2, <2>3, LaneCommitsKeeps
  <1>4. CASE ~(status = "pending" /\ MayAutoApply(i))
    <2> DEFINE item == Item(status, over, FALSE)
    <2>1. /\ Write(i, item) /\ lane' = Goes("world", "finish")
          /\ UNCHANGED <<contents, files, runs, preview, disturbances>>
      BY <1>4 DEF WorldDecides
    <2>2. item \in Items /\ ~item.automatic
      BY <1>2 DEF Item, Items, Statuses
    <2>3. Shaped(i, item)
      BY <1>1, <1>2, ItemTyped DEF Item, Shaped, WorldItem
    <2>4. disturbances' \in 0..MaxDisturbances
      BY <1>2, <2>1, DisturbTyped
    <2> HIDE DEF item
    <2> QED BY <1>1, <2>1, <2>2, <2>3, <2>4, NewItemKeeps
  <1> QED BY <1>3, <1>4

LEMMA WorldDiesKeeps ==
  ASSUME BooksInv, WorldDies
  PROVE  BooksInv'
  <1> PICK i : i = ItemOf("world")
    OBVIOUS
  <1> DEFINE item == Item("pending", files["world"], FALSE)
  <1>1. /\ "world" \in Books /\ lane["world"].at = "item" /\ i \notin DOMAIN ledger
        /\ Write(i, item) /\ Whole(1, 4, lane) /\ UNCHANGED <<contents, files, runs, requests>>
    BY DEF Books, WorldDies
  <1>2. RunsInv /\ BooksTypeOK /\ files["world"] \in Nat
    BY <1>1, BooksTyped DEF BooksInv, StoreInv
  <1>3. item \in Items /\ ~item.automatic
    BY <1>2 DEF Item, Items, Statuses
  <1>4. Shaped(i, item)
    BY <1>1, <1>2, ItemTyped DEF Item, Shaped, WorldItem
  <1>5. /\ lane' = [c \in Books |-> NoLane] /\ preview' = NoPreview
        /\ disturbances' \in 0..MaxDisturbances
    BY <1>1, <1>2, WholeTyped
  <1> HIDE DEF item
  <1> QED BY <1>1, <1>3, <1>4, <1>5, NewItemKeeps

LEMMA SelfResumesKeeps ==
  ASSUME BooksInv, SelfResumes
  PROVE  BooksInv'
  <1> PICK i : i = ItemOf("self")
    OBVIOUS
  <1>1. "self" \in Books /\ lane["self"].at = "item" /\ i \in DOMAIN ledger /\ UNCHANGED requests
    BY DEF Books, SelfResumes
  <1>2. ledger[i] \in Items
    BY <1>1 DEF BooksInv, StoreInv, BooksTypeOK
  <1>3. CASE ledger[i].status \in {"applying", "error"}
    <2>1. PICK saved \in 0..3 : LaneCommits("self", i, ledger[i].over, TRUE, saved, 3)
      BY <1>3 DEF SelfResumes
    <2>2. ledger[i].over \in Nat
      BY <1>2 DEF Items
    <2>3. saved \in (3 - 3)..3
      OBVIOUS
    <2> QED BY <1>1, <2>1, <2>2, <2>3, LaneCommitsKeeps
  <1>4. CASE ledger[i].status \notin {"applying", "error"}
    <2>1. /\ lane' = Goes("self", "finish")
          /\ UNCHANGED <<bookVars, runs, preview, disturbances>>
      BY <1>4 DEF SelfResumes
    <2> QED BY <1>1, <1>4, <2>1, PassesKeeps
  <1> QED BY <1>3, <1>4

LEMMA SelfCommitsKeeps ==
  ASSUME BooksInv, SelfCommits
  PROVE  BooksInv'
  <1>1. "self" \in Books /\ lane["self"].at = "commit" /\ UNCHANGED requests
    BY DEF Books, SelfCommits
  <1>2. PICK saved \in 0..3 :
          LaneCommits("self", ItemOf("self"), runs[Current("self")].seen, TRUE, saved, 3)
    BY DEF SelfCommits
  <1>3. saved \in (3 - 3)..3 /\ runs[Current("self")].seen \in Nat
    BY <1>1, AtItem DEF RunRows
  <1> QED BY <1>1, <1>2, <1>3, LaneCommitsKeeps

LEMMA SelfPlansKeeps ==
  ASSUME BooksInv, SelfPlans
  PROVE  BooksInv'
  <1> PICK i : i = ItemOf("self")
    OBVIOUS
  <1> PICK r : r = Current("self")
    OBVIOUS
  <1> DEFINE seen == runs[r].seen
  <1>1. /\ "self" \in Books /\ lane["self"].at = "item" /\ i \notin DOMAIN ledger
        /\ UNCHANGED <<contents, files, requests, preview, disturbances>>
    BY DEF Books, SelfPlans
  <1>2. /\ RunsInv /\ r \in RunIds /\ runs[r] \in RunRows /\ r = <<"self", lane["self"].run>>
        /\ runs[r].status = "running" /\ runs[r].body \in Bodies
        /\ lane["self"].at # "none"
    BY <1>1, AtItem DEF BooksInv
  <1>3. disturbances' \in 0..MaxDisturbances
    BY <1>1, <1>2, DisturbTyped
  <1>4. CASE seen # files["self"]
    <2>1. /\ runs' = [runs EXCEPT ![r] = Raised("self", "conflict")]
          /\ lane' = [lane EXCEPT !["self"] = NoLane] /\ UNCHANGED ledger
      BY <1>4 DEF SelfPlans
    <2> PICK row : row = Raised("self", "conflict")
      OBVIOUS
    <2>2. row \in RunRows /\ row.review = "none" /\ row.status = "error"
      BY DEF Raised, NewRun, RunRows
    <2> QED BY <1>1, <1>2, <2>1, <2>2, EndKeeps DEF bookVars
  <1>5. CASE seen = files["self"] /\ BodyOf(seen) = i.body
    <2> DEFINE item == Item("unchanged", seen, TRUE)
    <2>1. Write(i, item) /\ lane' = Goes("self", "finish") /\ UNCHANGED runs
      BY <1>5 DEF SelfPlans
    <2>2. item \in Items /\ item.status = "unchanged"
      BY <1>2 DEF Item, Items, Statuses, RunRows
    <2>3. Shaped(i, item)
      BY <1>1, <1>2, ItemTyped DEF Item, Shaped, SelfItem
    <2> HIDE DEF item
    <2> QED BY <1>1, <1>3, <2>1, <2>2, <2>3, NewItemKeeps
  <1>6. CASE seen = files["self"] /\ BodyOf(seen) # i.body
    <2> DEFINE place == [lane["self"] EXCEPT !.at = "commit"]
    <2>1. lane' = Goes("self", "commit") /\ UNCHANGED <<ledger, runs>>
      BY <1>6 DEF SelfPlans
    <2>2. /\ lane' = [lane EXCEPT !["self"] = place]
          /\ place \in Lanes /\ place.at = "commit" /\ place.run = lane["self"].run
      BY <1>1, <1>2, <2>1, GoesTyped
    <2> HIDE DEF place
    <2>3. Goal("self", r, runs[r], place)
      BY <1>2, <2>2 DEF Goal
    <2>4. runs' = [runs EXCEPT ![r] = runs[r]]
      BY <1>2, <2>1 DEF RunsInv, RunsTyped
    <2>5. Quiet("self", r, runs[r], place)
      BY <1>2, <2>2, <2>3, <2>4 DEF Quiet
    <2> QED BY <1>1, <1>2, <1>3, <2>1, <2>5, QuietLaneStep DEF bookVars
  <1> QED BY <1>4, <1>5, <1>6

-----------------------------------------------------------------------------
(* A person, and the death of the process *)

(* What a person may do to an item of a run. *)
Respects(i) ==
  i.kind = "lane" /\ i \in DOMAIN ledger' =>
    /\ i \in DOMAIN ledger
    /\ ledger'[i].automatic => ledger[i].automatic /\ ledger'[i].over = ledger[i].over
    /\ ledger'[i].status = "applying" /\ ledger'[i].automatic
         => ledger[i].status = "applying" /\ ledger[i].automatic
    /\ i.book = "self" /\ ledger[i].status \in {"auto_applied", "unchanged"}
         => ledger'[i].status \in {"auto_applied", "unchanged"}

LEMMA PersonStep ==
  ASSUME BooksInv, StoreInv', NEW i, Only(i), Respects(i), UNCHANGED runs,
         \A j \in requests' : j \in Ids /\ (EditId(j) \/ DeleteId(j))',
         preview' \in Previews, PreviewFits', disturbances' \in 0..MaxDisturbances,
         lane' = lane \/ lane' = [c \in Books |-> NoLane]
  PROVE  BooksInv'
  <1>1. RunsInv /\ StoreInv
    BY DEF BooksInv
  <1>2. RunsTyped'
    BY <1>1, NoLaneTyped DEF RunsInv, RunsTyped
  <1>3. RequestsFit' /\ ReviewFits'
    BY <1>1 DEF RequestsFit, RunsInv, ReviewFits
  <1>4. ReviewSeen'
    BY <1>1 DEF RunsInv, ReviewSeen, Respects, Only
  <1>5. LanesFit'
    BY <1>1, NoLaneTyped DEF RunsInv, LanesFit, LaneFits, Current
  <1>6. OverIsConcluded'
    <2>1. \A r \in RunIds : Over(r)' => Over(r)
      BY NoLaneTyped DEF Over, RunIds
    <2>2. ASSUME NEW r \in RunIds, Concluded(r), i = Lane(r[1], r[2], runs[r].body)
          PROVE  Concluded(r)'
      <3>1. i.kind = "lane" /\ i.book = r[1]
        BY <2>2 DEF Lane
      <3>2. i \in DOMAIN ledger /\ i \in DOMAIN ledger'
        BY <2>2 DEF Concluded, Only
      <3> QED BY <2>2, <3>1, <3>2 DEF Concluded, Respects
    <2>3. OverIsConcluded
      BY <1>1 DEF RunsInv
    <2> QED BY <2>1, <2>2, <2>3, OverKept
  <1> QED BY <1>2, <1>3, <1>4, <1>5, <1>6 DEF BooksInv, RunsInv

(* Nothing of the books changes: the requests or the preview do. *)
LEMMA AskingKeeps ==
  ASSUME BooksInv, UNCHANGED <<bookVars, runs>>,
         \A j \in requests' : j \in requests \/ (j \in Ids /\ (EditId(j) \/ DeleteId(j))),
         preview' \in Previews, PreviewFits', Disturb \/ UNCHANGED disturbances,
         lane' = lane \/ lane' = [c \in Books |-> NoLane]
  PROVE  BooksInv'
  <1>1. RunsInv /\ StoreInv'
    BY StoreStutters DEF BooksInv
  <1>2. disturbances' \in 0..MaxDisturbances
    BY <1>1, DisturbTyped
  <1>3. UNCHANGED <<contents, ledger, runs>>
    BY DEF bookVars
  <1>4. \A j \in requests' : j \in Ids /\ (EditId(j) \/ DeleteId(j))'
    BY <1>1, <1>3 DEF RunsInv, RunsTyped, RequestsFit, EditId, DeleteId
  <1> DEFINE i == Edit("self", 0, "none")
  <1>5. Only(i) /\ Respects(i)
    BY <1>3 DEF Only, Respects, Edit
  <1> HIDE DEF i
  <1> QED BY <1>1, <1>2, <1>3, <1>4, <1>5, PersonStep

LEMMA PreviewStays ==
  ASSUME BooksInv, DOMAIN ledger \subseteq DOMAIN ledger', preview' \in {preview, NoPreview}
  PROVE  preview' \in Previews /\ PreviewFits'
  BY NoPreviewTyped DEF BooksInv, RunsInv, RunsTyped, PreviewFits, LaneId

LEMMA DiesKeeps ==
  ASSUME BooksInv, Dies
  PROVE  BooksInv'
  <1>1. /\ UNCHANGED <<bookVars, runs, requests>> /\ preview' = NoPreview /\ Disturb
        /\ lane' = [c \in Books |-> NoLane] /\ UNCHANGED ledger
    BY DEF Dies, bookVars
  <1>2. preview' \in Previews /\ PreviewFits'
    BY <1>1, PreviewStays
  <1> QED BY <1>1, <1>2, AskingKeeps

LEMMA AskKeeps ==
  ASSUME BooksInv, Ask
  PROVE  BooksInv'
  <1>1. PICK b \in Books, body \in Bodies :
          \E i \in {Edit(b, files[b], body), Delete(b, files[b])} :
            /\ i.kind = "delete" => files[b] # 0
            /\ requests' = requests \cup {i}
    BY DEF Ask
  <1>2. PICK i \in {Edit(b, files[b], body), Delete(b, files[b])} :
          /\ i.kind = "delete" => files[b] # 0
          /\ requests' = requests \cup {i}
    BY <1>1
  <1>3. files[b] \in 0..Len(contents) /\ Len(contents) \in Nat /\ MaxRun \in Nat
    BY BooksTyped, BooksAssumption DEF BooksInv, StoreInv
  <1>4. i \in Ids
    BY <1>2, <1>3 DEF Edit, Delete, Ids
  <1>5. EditId(i) \/ DeleteId(i)
    BY <1>2, <1>3 DEF Edit, Delete, EditId, DeleteId
  <1>6. /\ UNCHANGED <<bookVars, runs>> /\ UNCHANGED lane /\ UNCHANGED preview /\ Disturb
        /\ UNCHANGED ledger
    BY DEF Ask, bookVars
  <1>7. preview' \in Previews /\ PreviewFits'
    BY <1>6, PreviewStays
  <1> QED BY <1>2, <1>4, <1>5, <1>6, <1>7, AskingKeeps

LEMMA PreviewKeeps ==
  ASSUME BooksInv, NEW i \in DOMAIN ledger, Preview(i)
  PROVE  BooksInv'
  <1>1. /\ ledger[i].status \in {"pending", "applying"}
        /\ preview' = [id |-> i, item |-> ledger[i],
                       over |-> IF ledger[i].status = "applying" THEN ledger[i].over
                                ELSE files[i.book]]
        /\ UNCHANGED <<bookVars, runs, lane, requests>> /\ Disturb
        /\ UNCHANGED ledger
    BY DEF Preview, bookVars
  <1>2. i \in Ids /\ ledger[i] \in Items /\ files[i.book] \in Nat
    BY BooksTyped DEF BooksInv, StoreInv, BooksTypeOK, Ids
  <1>3. LaneId(i)
    BY <1>1 DEF BooksInv, StoreInv, ItemsShaped, Shaped, WorldItem, SelfItem, EditItem, DeleteItem
  <1>4. preview' \in Previews
    BY <1>1, <1>2 DEF Previews, Items
  <1>5. PreviewFits'
    BY <1>1, <1>3 DEF PreviewFits, LaneId
  <1> QED BY <1>1, <1>4, <1>5, AskingKeeps

(* The lengths and the requests after an operation by hand. *)
LEMMA RequestsStay ==
  ASSUME BooksInv, StoreInv', Len(contents) <= Len(contents'), UNCHANGED requests
  PROVE  \A j \in requests' : j \in Ids /\ (EditId(j) \/ DeleteId(j))'
  <1>1. Len(contents) \in Nat /\ Len(contents') \in Nat
    BY BooksTyped DEF BooksInv, StoreInv, BooksTypeOK
  <1> QED BY <1>1 DEF BooksInv, RunsInv, RunsTyped, RequestsFit, EditId, DeleteId

LEMMA ArrivesKeeps ==
  ASSUME BooksInv, NEW i \in requests, Arrives(i)
  PROVE  BooksInv'
  <1>1. RunsInv /\ StoreInv /\ i \in Ids /\ (EditId(i) \/ DeleteId(i))
    BY DEF BooksInv, RunsInv, RunsTyped, RequestsFit
  <1>2. PICK saved \in 0..3 :
          /\ IF i.kind = "edit" THEN EditSaved(i, saved) ELSE Deleted(i, saved)
          /\ Whole(saved, 3, lane)
    BY DEF Arrives
  <1>3. /\ StoreInv' /\ Only(i) /\ Len(contents) <= Len(contents')
    <2>1. CASE EditId(i)
      <3>1. EditSaved(i, saved)
        BY <1>2, <2>1 DEF EditId
      <3>2. StoreInv' /\ Only(i)
        BY <1>1, <2>1, <3>1, EditSavedKeeps, OnlyByWrite DEF StoreInv
      <3>3. Len(contents) <= Len(contents')
        <4>1. CASE Status(i) = "applied"
          BY <1>1, <3>1, <4>1, BooksTyped DEF EditSaved, bookVars, StoreInv
        <4>2. CASE Status(i) # "applied"
          BY <1>1, <2>1, <3>1, <4>2, SaveGrows DEF EditSaved, EditId
        <4> QED BY <4>1, <4>2
      <3> QED BY <3>2, <3>3
    <2>2. CASE DeleteId(i)
      <3>1. Deleted(i, saved)
        BY <1>2, <2>2 DEF DeleteId
      <3>2. StoreInv' /\ UNCHANGED contents /\ Only(i)
        BY <1>1, <2>2, <3>1, DeletedKeeps, OnlyByWrite DEF StoreInv
      <3>3. Len(contents) <= Len(contents')
        BY <1>1, <3>2, BooksTyped DEF StoreInv
      <3> QED BY <3>2, <3>3
    <2> QED BY <1>1, <2>1, <2>2
  <1>4. Respects(i)
    BY <1>1 DEF Respects, EditId, DeleteId
  <1>5. /\ lane' = lane \/ lane' = [c \in Books |-> NoLane]
        /\ preview' \in {preview, NoPreview} /\ disturbances' \in 0..MaxDisturbances
    BY <1>1, <1>2, WholeTyped
  <1>6. UNCHANGED <<runs, requests>>
    BY DEF Arrives
  <1>7. preview' \in Previews /\ PreviewFits'
    BY <1>3, <1>5, PreviewStays DEF Only
  <1> QED BY <1>3, <1>4, <1>5, <1>6, <1>7, PersonStep, RequestsStay

LEMMA RestoreKeeps ==
  ASSUME BooksInv, NEW i \in DOMAIN ledger, Restore(i)
  PROVE  BooksInv'
  <1>1. RunsInv /\ StoreInv /\ BooksTypeOK /\ i \in Ids /\ Len(contents) \in Nat
    BY BooksTyped DEF BooksInv, StoreInv, BooksTypeOK
  <1>2. i.kind = "delete" /\ ledger[i].status = "applied"
    BY DEF Restore
  <1>3. PICK saved \in 0..3 : Restored(i, saved) /\ Whole(saved, 3, lane)
    BY DEF Restore
  <1>4. StoreInv' /\ Only(i)
    BY <1>1, <1>2, <1>3, RestoredKeeps, OnlyByWrite
  <1>5. Len(contents) <= Len(contents')
    <2>1. UNCHANGED contents \/ contents' = Append(contents, CopyOf(i))
      BY <1>3 DEF Restored, Replace
    <2> QED BY <1>1, <2>1 DEF BooksTypeOK
  <1>6. Respects(i)
    BY <1>2 DEF Respects
  <1>7. /\ lane' = lane \/ lane' = [c \in Books |-> NoLane]
        /\ preview' \in {preview, NoPreview} /\ disturbances' \in 0..MaxDisturbances
    BY <1>1, <1>3, WholeTyped
  <1>8. UNCHANGED <<runs, requests>>
    BY DEF Restore
  <1>9. preview' \in Previews /\ PreviewFits'
    BY <1>4, <1>7, PreviewStays DEF Only
  <1> QED BY <1>4, <1>5, <1>6, <1>7, <1>8, <1>9, PersonStep, RequestsStay

LEMMA RejectKeeps ==
  ASSUME BooksInv, NEW i \in DOMAIN ledger, Reject(i)
  PROVE  BooksInv'
  <1> DEFINE item == [ledger[i] EXCEPT !.status = "rejected"]
  <1>1. /\ ledger[i].status = "pending" /\ Write(i, item)
        /\ UNCHANGED <<contents, files, runs, lane, requests, preview, disturbances>>
    BY DEF Reject, laneVars
  <1>2. /\ RunsInv /\ StoreInv /\ BooksTypeOK /\ i \in Ids /\ ledger[i] \in Items
        /\ Len(contents) \in Nat
    BY BooksTyped DEF BooksInv, StoreInv, BooksTypeOK
  <1>3. /\ item \in Items /\ item.status = "rejected" /\ item.over = ledger[i].over
        /\ item.automatic = ledger[i].automatic
    BY <1>2 DEF Items, Statuses
  <1>4. LaneId(i) /\ i.book = "world"
    BY <1>1, <1>2 DEF StoreInv, ItemsShaped, Shaped, WorldItem, SelfItem, EditItem, DeleteItem
  <1> HIDE DEF item
  <1>5. ledger'[i] = item /\ Only(i)
    BY <1>1, <1>2, <1>3, WriteTyped, OnlyByWrite
  <1>6. StoreInv'
    <2>1. Shaped(i, item)
      BY <1>3, <1>4 DEF Shaped, WorldItem
    <2>2. Records(i)
      BY <1>1, <1>3, <1>4, <2>1 DEF Records, LaneId
    <2>3. ReceiptPresent(i) => Returned(i)
      BY <1>1, <1>2 DEF StoreInv, WaitingIsOut, Waiting
    <2> QED BY <1>1, <1>2, <2>2, <2>3, StoreKeptByRecord
  <1>7. Respects(i)
    BY <1>3, <1>4, <1>5 DEF Respects
  <1>8. preview' \in Previews /\ PreviewFits'
    BY <1>1, <1>5, PreviewStays DEF Only
  <1>9. \A j \in requests' : j \in Ids /\ (EditId(j) \/ DeleteId(j))'
    BY <1>1, <1>2, <1>6, RequestsStay
  <1>10. disturbances' \in 0..MaxDisturbances
    BY <1>1, <1>2, DisturbTyped
  <1> QED BY <1>1, <1>5, <1>6, <1>7, <1>8, <1>9, <1>10, PersonStep

LEMMA ApplyKeeps ==
  ASSUME BooksInv, Apply
  PROVE  BooksInv'
  <1> PICK i : i = preview.id
    OBVIOUS
  <1> DEFINE automatic == ledger[i].status = "applying" /\ ledger[i].automatic
             standing == ledger[i] = preview.item
                         /\ (preview.over = 0 => ReceiptPresent(i) \/ files[i.book] = 0)
  <1>1. /\ RunsInv /\ StoreInv /\ BooksTypeOK /\ preview \in Previews /\ preview # NoPreview
        /\ UNCHANGED <<runs, requests>>
    BY DEF Apply, BooksInv, StoreInv, RunsInv, RunsTyped
  <1>2. /\ LaneId(i) /\ i \in DOMAIN ledger /\ i \in Ids /\ preview.over \in Nat
        /\ preview.item.status \in {"pending", "applying"}
        /\ preview.item.status = "applying" => preview.over = preview.item.over
    BY <1>1 DEF RunsInv, PreviewFits, Previews
  <1>3. CASE ~standing
    <2>1. preview' = NoPreview /\ UNCHANGED <<bookVars, lane, disturbances>> /\ UNCHANGED ledger
      BY <1>1, <1>3 DEF Apply, bookVars
    <2>2. preview' \in Previews /\ PreviewFits'
      BY <2>1, PreviewStays
    <2> QED BY <1>1, <2>1, <2>2, AskingKeeps
  <1>4. CASE standing
    <2>1. PICK saved \in 0..3 :
            /\ Committed(i, preview.over, automatic, saved)
            /\ IF saved = 3 THEN preview' = NoPreview /\ UNCHANGED <<lane, disturbances>>
               ELSE Whole(saved, 3, lane)
      BY <1>1, <1>4 DEF Apply
    <2> PICK auto \in BOOLEAN : auto = automatic
      OBVIOUS
    <2>2. i.book = "self" => automatic
      BY <1>2, <1>4 DEF BooksInv, StoreInv, ItemsShaped, Shaped, WorldItem, SelfItem, EditItem,
         DeleteItem, LaneId, EditId, DeleteId
    <2>3. /\ StoreInv'
          /\ saved = 0 => UNCHANGED bookVars
          /\ saved # 0 => Write(i, CommitItem(i, preview.over, auto, saved))
      BY <1>1, <1>2, <2>1, <2>2, CommittedKeeps
    <2> PICK item : item = CommitItem(i, preview.over, auto, saved)
      OBVIOUS
    <2>4. /\ item \in Items /\ item.over = preview.over /\ item.automatic = auto
          /\ i.book = "self" => item.status # "pending"
      BY <1>2, <2>2 DEF CommitItem, Item, Items, Statuses, Applied
    <2>5. Only(i) /\ (UNCHANGED ledger \/ ledger'[i] = item)
      BY <1>1, <1>2, <2>3, <2>4, WriteTyped, OnlyByWrite DEF bookVars
    <2>6. Len(contents) <= Len(contents')
      <3>1. Save(i, preview.over, saved >= 2)
        BY <2>1 DEF Committed
      <3> QED BY <1>1, <1>2, <3>1, SaveGrows DEF LaneId
    <2>7. Respects(i)
      <3>1. ledger[i].status \in {"pending", "applying"}
        BY <1>2, <1>4
      <3>2. auto => ledger[i].over = preview.over /\ ledger[i].automatic
                    /\ ledger[i].status = "applying"
        BY <1>2, <1>4
      <3> QED BY <1>2, <2>4, <2>5, <3>1, <3>2 DEF Respects
    <2>8. /\ lane' = lane \/ lane' = [c \in Books |-> NoLane]
          /\ preview' \in {preview, NoPreview} /\ disturbances' \in 0..MaxDisturbances
      BY <1>1, <2>1, WholeTyped, DisturbTyped
    <2>9. preview' \in Previews /\ PreviewFits'
      BY <2>5, <2>8, PreviewStays DEF Only
    <2>10. \A j \in requests' : j \in Ids /\ (EditId(j) \/ DeleteId(j))'
      BY <1>1, <2>3, <2>6, RequestsStay
    <2> QED BY <1>1, <2>3, <2>5, <2>7, <2>8, <2>9, <2>10, PersonStep
  <1> QED BY <1>3, <1>4

-----------------------------------------------------------------------------
(* What every state is *)

LEMMA InitKeeps ==
  ASSUME Init
  PROVE  BooksInv
  <1>1. Len(contents) = 0 /\ DOMAIN ledger = {}
    BY DEF Init, BooksInit
  <1>2. BooksTypeOK
    BY <1>1 DEF Init, BooksInit, BooksTypeOK
  <1>3. StoreInv
    BY <1>1, <1>2 DEF StoreInv, ItemsShaped, ContentsFit, SavedOnce, WaitingIsOut
  <1>4. /\ runs \in [RunIds -> RunRows] /\ \A r \in RunIds : runs[r] = NewRun
        /\ lane \in [Books -> Lanes] /\ \A b \in Books : lane[b] = NoLane
    BY NewRunTyped, NoLaneTyped DEF Init
  <1>5. RunsTyped
    BY <1>4, NoPreviewTyped, DisturbancesAssumption DEF Init, RunsTyped
  <1>6. RequestsFit /\ PreviewFits /\ ReviewFits /\ ReviewSeen
    BY <1>1, <1>4 DEF Init, RequestsFit, PreviewFits, ReviewFits, ReviewSeen, NewRun
  <1>7. LanesFit
    BY <1>4, NoLaneTyped DEF LanesFit, LaneFits
  <1>8. OverIsConcluded
    <2>1. \A r \in RunIds : r[1] \in Books
      BY DEF RunIds
    <2>2. \A r \in RunIds : ~Over(r)
      BY <1>4, <2>1, NoLaneTyped DEF Over, NewRun
    <2> QED BY <2>2 DEF OverIsConcluded
  <1> QED BY <1>3, <1>5, <1>6, <1>7, <1>8 DEF BooksInv, RunsInv

LEMMA StutterKeeps ==
  ASSUME BooksInv, UNCHANGED vars
  PROVE  BooksInv'
  <1>1. /\ UNCHANGED <<bookVars, runs>> /\ UNCHANGED <<lane, requests, preview, disturbances>>
        /\ UNCHANGED ledger
    BY DEF vars, laneVars, bookVars
  <1>2. preview' \in Previews /\ PreviewFits'
    BY <1>1, PreviewStays
  <1> QED BY <1>1, <1>2, AskingKeeps

LEMMA NextKeeps ==
  ASSUME BooksInv, [Next]_vars
  PROVE  BooksInv'
  <1>1. CASE UNCHANGED vars
    BY <1>1, StutterKeeps
  <1>2. ASSUME NEW b \in Books, Comes(b) \/ Lives(b) \/ CallFails(b)
        PROVE  BooksInv'
    <2>1. CASE Comes(b)
      BY <2>1, StartKeeps DEF Comes
    <2>2. CASE Lives(b)
      BY <2>2, ExtractedKeeps, FinishKeeps, ReviewedKeeps, WorldResumesKeeps,
         WorldDecidesKeeps, SelfResumesKeeps, SelfPlansKeeps, SelfCommitsKeeps DEF Lives
    <2>3. CASE CallFails(b)
      BY <2>3, CallFailsKeeps
    <2> QED BY <1>2, <2>1, <2>2, <2>3
  <1>3. CASE Person
    <2>1. CASE Ask \/ Apply
      BY <2>1, AskKeeps, ApplyKeeps
    <2>2. CASE \E i \in requests : Arrives(i)
      BY <2>2, ArrivesKeeps
    <2>3. CASE \E i \in DOMAIN ledger : Restore(i) \/ Preview(i) \/ Reject(i)
      BY <2>3, RestoreKeeps, PreviewKeeps, RejectKeeps
    <2> QED BY <1>3, <2>1, <2>2, <2>3 DEF Person
  <1> QED BY <1>1, <1>2, <1>3, WorldDiesKeeps, DiesKeeps DEF Next

(* The files, the items and the runs always fit together: the items have what their
   kind allows, the texts what they replaced and whose receipts they bear, and a run
   is where its checkpoint lets it be. *)
THEOREM BooksInvariant == Spec => []BooksInv
  BY InitKeeps, NextKeeps, PTL DEF Spec

(* Every file has the values the code can give it. *)
THEOREM TypeCorrect == Spec => []TypeOK
  <1>1. BooksInv => TypeOK
    BY DEF BooksInv, StoreInv, RunsInv, RunsTyped, TypeOK
  <1> QED BY <1>1, BooksInvariant, PTL

(* books.save looks for the receipt of an item in the entry it is about to replace: no
   retry, second request or recovery saves again what the entry holds. *)
THEOREM SavedOnceHolds == Spec => []SavedOnce
  <1>1. BooksInv => SavedOnce
    BY DEF BooksInv, StoreInv
  <1> QED BY <1>1, BooksInvariant, PTL

(* A run is completed only when its proposal is on record, no automatic save of it is
   under way and, in the self book, it was saved or changed nothing. *)
THEOREM CompletedOwesNothingHolds == Spec => []CompletedOwesNothing
  <1>1. BooksInv => CompletedOwesNothing
    BY DEF BooksInv, RunsInv, OverIsConcluded, Over, Concluded, CompletedOwesNothing
  <1> QED BY <1>1, BooksInvariant, PTL

(* A person can reject only what is not in the book, and no run and no other request
   puts it there later, save for the restore of an entry that held it. *)
THEOREM RejectedStaysOutHolds == Spec => []RejectedStaysOut
  <1>1. BooksInv => RejectedStaysOut
    BY DEF BooksInv, StoreInv, WaitingIsOut, Waiting, Returned, RejectedStaysOut
  <1> QED BY <1>1, BooksInvariant, PTL

-----------------------------------------------------------------------------
(* What a save replaces *)

(* The new text v was planned for what it replaces. *)
Planned(v) ==
  LET i == contents'[v].by IN
  i.kind # "delete" =>
    /\ contents'[v].over = files[i.book]
    /\ i \in DOMAIN ledger' /\ ledger'[i].over = files[i.book]
    /\ i.book = "world" /\ ledger'[i].automatic =>
         runs[<<"world", i.run>>].seen = files[i.book]
AllPlanned == \A v \in (Len(contents) + 1)..Len(contents') : Planned(v)

LEMMA NothingNew ==
  ASSUME BooksInv, UNCHANGED contents
  PROVE  AllPlanned
  BY BooksTyped DEF BooksInv, StoreInv, AllPlanned

LEMMA SavePlanned ==
  ASSUME BooksInv, NEW i \in Ids, i.body \in Bodies, NEW over, NEW happens,
         Save(i, over, happens),
         happens =>
           /\ i \in DOMAIN ledger' /\ ledger'[i].over = over
           /\ i.book = "world" /\ ledger'[i].automatic
                => runs[<<"world", i.run>>].seen = over
  PROVE  AllPlanned
  <1>1. CASE happens /\ Outcome(i, over) = "saves"
    <2> DEFINE c == [body |-> i.body, receipts |-> ReceiptsOf(over) \cup {i},
                     over |-> over, by |-> i]
    <2>1. StoreInv /\ BooksTypeOK /\ Len(contents) \in Nat
      BY BooksTyped DEF BooksInv, StoreInv
    <2>2. over = files[i.book] /\ c \in Contents /\ contents' = Append(contents, c)
      BY <1>1, <2>1, SaveWrites
    <2>3. c.by = i /\ c.over = over
      OBVIOUS
    <2> HIDE DEF c
    <2>4. Len(contents') = Len(contents) + 1 /\ contents'[Len(contents) + 1] = c
      BY <2>1, <2>2, AppendTyped
    <2>5. ASSUME NEW v \in (Len(contents) + 1)..Len(contents')
          PROVE  contents'[v] = c
      BY <2>1, <2>4
    <2> QED BY <1>1, <2>2, <2>3, <2>5 DEF AllPlanned, Planned
  <1>2. CASE ~(happens /\ Outcome(i, over) = "saves")
    BY <1>2, NothingNew DEF Save
  <1> QED BY <1>1, <1>2

(* A commit puts its plan on record before it saves. *)
LEMMA CommitPlanned ==
  ASSUME BooksInv, NEW i \in Ids, LaneId(i), NEW over \in Nat, NEW automatic \in BOOLEAN,
         i.book = "self" => automatic, NEW saved \in 0..3,
         Committed(i, over, automatic, saved),
         i.book = "world" /\ automatic => runs[<<"world", i.run>>].seen = over
  PROVE  AllPlanned
  <1>1. saved # 0 => Write(i, CommitItem(i, over, automatic, saved))
    BY CommittedKeeps DEF BooksInv
  <1>2. /\ CommitItem(i, over, automatic, saved) \in Items
        /\ CommitItem(i, over, automatic, saved).over = over
        /\ CommitItem(i, over, automatic, saved).automatic = automatic
    BY DEF CommitItem, Item, Items, Statuses, Applied
  <1>3. saved # 0 => i \in DOMAIN ledger' /\ ledger'[i] = CommitItem(i, over, automatic, saved)
    BY <1>1, <1>2, WriteTyped DEF BooksInv, StoreInv
  <1>4. Save(i, over, saved >= 2) /\ i.body \in Bodies
    BY DEF Committed, LaneId
  <1>5. saved >= 2 => saved # 0
    OBVIOUS
  <1> QED BY <1>2, <1>3, <1>4, <1>5, SavePlanned

LEMMA LaneCommitsPlanned ==
  ASSUME BooksInv, NEW b \in Books, lane[b].at \in {"item", "commit"},
         NEW over \in Nat, NEW automatic \in BOOLEAN, b = "self" => automatic,
         NEW n \in {3, 4}, NEW saved \in (n - 3)..n,
         b = "world" /\ automatic => over = runs[Current(b)].seen,
         LaneCommits(b, ItemOf(b), over, automatic, saved, n)
  PROVE  AllPlanned
  <1> PICK i : i = ItemOf(b)
    OBVIOUS
  <1> PICK k \in 0..3 : k = saved - (n - 3)
    OBVIOUS
  <1>1. i \in Ids /\ LaneId(i) /\ i.book = b /\ i.run = lane[b].run
    BY ItemTyped DEF BooksInv
  <1>2. Committed(i, over, automatic, k)
    BY DEF LaneCommits
  <1> QED BY <1>1, <1>2, CommitPlanned DEF Current

LEMMA WorldPlanned ==
  ASSUME BooksInv, WorldResumes \/ WorldDecides
  PROVE  AllPlanned
  <1> PICK i : i = ItemOf("world")
    OBVIOUS
  <1>1. /\ "world" \in Books /\ lane["world"].at = "item" /\ RunsInv /\ BooksTypeOK
        /\ files["world"] \in Nat
    <2>1. "world" \in Books /\ RunsInv /\ BooksTypeOK
      BY DEF Books, BooksInv, StoreInv
    <2>2. lane["world"].at = "item"
      BY DEF WorldResumes, WorldDecides
    <2> QED BY <2>1, <2>2, BooksTyped
  <1>2. CASE UNCHANGED contents
    BY <1>2, NothingNew
  <1>3. CASE /\ i \in DOMAIN ledger
             /\ \E saved \in 0..3 :
                  LaneCommits("world", i, ledger[i].over, ledger[i].automatic, saved, 3)
    <2>1. PICK saved \in 0..3 :
            LaneCommits("world", i, ledger[i].over, ledger[i].automatic, saved, 3)
      BY <1>3
    <2>2. ledger[i].over \in Nat /\ ledger[i].automatic \in BOOLEAN
      BY <1>1, <1>3 DEF BooksTypeOK, Items
    <2>3. ledger[i].automatic => ledger[i].over = runs[Current("world")].seen
      BY <1>1, <1>3, ItemTyped DEF RunsInv, ReviewSeen, Current
    <2>4. saved \in (3 - 3)..3
      OBVIOUS
    <2> QED BY <1>1, <2>1, <2>2, <2>3, <2>4, LaneCommitsPlanned
  <1>4. CASE /\ MayAutoApply(i)
             /\ \E saved \in 2..4 : LaneCommits("world", i, files["world"], TRUE, saved, 4)
    <2>1. PICK saved \in 2..4 : LaneCommits("world", i, files["world"], TRUE, saved, 4)
      BY <1>4
    <2>2. saved \in (4 - 3)..4
      OBVIOUS
    <2>3. files["world"] = runs[Current("world")].seen
      BY <1>4 DEF MayAutoApply
    <2> QED BY <1>1, <2>1, <2>2, <2>3, LaneCommitsPlanned
  <1>5. WorldResumes => UNCHANGED contents \/ (/\ i \in DOMAIN ledger
             /\ \E saved \in 0..3 :
                  LaneCommits("world", i, ledger[i].over, ledger[i].automatic, saved, 3))
    BY DEF WorldResumes, bookVars
  <1>6. WorldDecides => UNCHANGED contents \/ (/\ MayAutoApply(i)
             /\ \E saved \in 2..4 : LaneCommits("world", i, files["world"], TRUE, saved, 4))
    BY DEF WorldDecides
  <1> QED BY <1>2, <1>3, <1>4, <1>5, <1>6

LEMMA SelfPlanned ==
  ASSUME BooksInv, SelfResumes \/ SelfCommits
  PROVE  AllPlanned
  <1> PICK i : i = ItemOf("self")
    OBVIOUS
  <1>1. "self" \in Books /\ lane["self"].at \in {"item", "commit"} /\ BooksTypeOK
    BY DEF Books, SelfResumes, SelfCommits, BooksInv, StoreInv
  <1>2. CASE UNCHANGED contents
    BY <1>2, NothingNew
  <1>3. CASE \E over \in Nat, saved \in 0..3 : LaneCommits("self", i, over, TRUE, saved, 3)
    <2>1. PICK over \in Nat, saved \in 0..3 : LaneCommits("self", i, over, TRUE, saved, 3)
      BY <1>3
    <2>2. saved \in (3 - 3)..3
      OBVIOUS
    <2> QED BY <1>1, <2>1, <2>2, LaneCommitsPlanned
  <1>4. SelfResumes => UNCHANGED contents
                       \/ \E over \in Nat, saved \in 0..3 : LaneCommits("self", i, over, TRUE, saved, 3)
    <2>1. i \in DOMAIN ledger => ledger[i].over \in Nat
      BY <1>1 DEF BooksTypeOK, Items
    <2> QED BY <2>1 DEF SelfResumes, bookVars
  <1>5. SelfCommits => \E over \in Nat, saved \in 0..3 : LaneCommits("self", i, over, TRUE, saved, 3)
    <2>1. runs[Current("self")].seen \in Nat
      BY <1>1, AtItem DEF RunRows
    <2> QED BY <2>1 DEF SelfCommits
  <1> QED BY <1>2, <1>3, <1>4, <1>5

LEMMA ArrivesPlanned ==
  ASSUME BooksInv, NEW i \in requests, Arrives(i)
  PROVE  AllPlanned
  <1>1. StoreInv /\ BooksTypeOK /\ i \in Ids /\ (EditId(i) \/ DeleteId(i))
    BY DEF BooksInv, StoreInv, RunsInv, RunsTyped, RequestsFit
  <1>2. PICK saved \in 0..3 :
          IF i.kind = "edit" THEN EditSaved(i, saved) ELSE Deleted(i, saved)
    BY DEF Arrives
  <1>3. CASE DeleteId(i)
    <2>1. UNCHANGED contents
      BY <1>1, <1>2, <1>3, DeletedKeeps DEF DeleteId
    <2> QED BY <2>1, NothingNew
  <1>4. CASE EditId(i)
    <2>1. EditSaved(i, saved)
      BY <1>2, <1>4 DEF EditId
    <2>2. CASE Status(i) = "applied"
      BY <2>1, <2>2, NothingNew DEF EditSaved, bookVars
    <2>3. CASE Status(i) # "applied"
      <3>1. Save(i, i.over, saved >= 2) /\ i.body \in Bodies
        BY <1>4, <2>1, <2>3 DEF EditSaved, EditId
      <3>2. ASSUME saved >= 2
            PROVE  /\ i \in DOMAIN ledger' /\ ledger'[i].over = i.over
                   /\ ~ledger'[i].automatic
        <4>1. CASE saved < 3 /\ Status(i) # "none"
          <5>1. UNCHANGED ledger /\ i \in DOMAIN ledger
            BY <2>1, <2>3, <4>1 DEF EditSaved, Status
          <5>2. Shaped(i, ledger[i])
            BY <1>1, <5>1 DEF StoreInv, ItemsShaped
          <5> QED BY <1>4, <5>1, <5>2 DEF Shaped, WorldItem, SelfItem, EditItem, DeleteItem,
               LaneId, EditId, DeleteId
        <4>2. CASE ~(saved < 3 /\ Status(i) # "none")
          <5> DEFINE item == Item(IF saved < 3 THEN "manual_applying"
                                  ELSE IF Outcome(i, i.over) \in {"refused", "conflict"}
                                  THEN "manual_error" ELSE "applied", i.over, FALSE)
          <5>1. Write(i, item)
            <6>1. saved # 0
              BY <3>2
            <6> QED BY <2>1, <2>3, <4>2, <6>1 DEF EditSaved
          <5>2. item \in Items /\ item.over = i.over /\ ~item.automatic
            BY <1>1 DEF Item, Items, Statuses, Ids
          <5> HIDE DEF item
          <5> QED BY <1>1, <5>1, <5>2, WriteTyped
        <4> QED BY <4>1, <4>2
      <3> QED BY <1>1, <3>1, <3>2, SavePlanned
    <2> QED BY <2>2, <2>3
  <1> QED BY <1>1, <1>3, <1>4

LEMMA RestorePlanned ==
  ASSUME BooksInv, NEW i \in DOMAIN ledger, Restore(i)
  PROVE  AllPlanned
  <1>1. i.kind = "delete" /\ ledger[i].status = "applied"
        /\ \E saved \in 0..3 : Restored(i, saved)
    BY DEF Restore
  <1>2. \A v \in (Len(contents) + 1)..Len(contents') : contents'[v].by = i
    BY <1>1, RestoredKeeps DEF BooksInv
  <1> QED BY <1>1, <1>2 DEF AllPlanned, Planned

LEMMA ApplyPlanned ==
  ASSUME BooksInv, Apply
  PROVE  AllPlanned
  <1> PICK i : i = preview.id
    OBVIOUS
  <1> DEFINE automatic == ledger[i].status = "applying" /\ ledger[i].automatic
  <1>1. /\ RunsInv /\ StoreInv /\ preview \in Previews /\ preview # NoPreview
    BY DEF Apply, BooksInv, RunsInv, RunsTyped
  <1>2. /\ LaneId(i) /\ i \in DOMAIN ledger /\ i \in Ids /\ preview.over \in Nat
        /\ preview.item.status = "applying" => preview.over = preview.item.over
        /\ preview.item.status \in {"pending", "applying"}
    BY <1>1 DEF RunsInv, PreviewFits, Previews
  <1>3. CASE UNCHANGED contents
    BY <1>3, NothingNew
  <1>4. CASE /\ ledger[i] = preview.item
             /\ \E saved \in 0..3 : Committed(i, preview.over, automatic, saved)
    <2>1. PICK saved \in 0..3 : Committed(i, preview.over, automatic, saved)
      BY <1>4
    <2> PICK auto \in BOOLEAN : auto = automatic
      OBVIOUS
    <2>2. i.book = "self" => auto
      BY <1>1, <1>2, <1>4 DEF StoreInv, ItemsShaped, Shaped, WorldItem, SelfItem, EditItem,
         DeleteItem, LaneId, EditId, DeleteId
    <2>3. i.book = "world" /\ auto => runs[<<"world", i.run>>].seen = preview.over
      BY <1>1, <1>2, <1>4 DEF RunsInv, ReviewSeen, LaneId
    <2>4. Committed(i, preview.over, auto, saved)
      BY <2>1
    <2> QED BY <1>2, <2>2, <2>3, <2>4, CommitPlanned
  <1> QED BY <1>3, <1>4 DEF Apply, bookVars

LEMMA NextPlanned ==
  ASSUME BooksInv, [Next]_vars
  PROVE  AllPlanned
  <1>1. CASE UNCHANGED contents
    BY <1>1, NothingNew
  <1>2. CASE Person
    BY <1>1, <1>2, ApplyPlanned, ArrivesPlanned, RestorePlanned
       DEF Person, Ask, Preview, Reject, bookVars
  <1>3. ASSUME NEW b \in Books, Lives(b)
        PROVE  AllPlanned
    BY <1>1, <1>3, WorldPlanned, SelfPlanned
       DEF Lives, Extracted, Finish, Reviewed, SelfPlans, bookVars
  <1>4. UNCHANGED vars => UNCHANGED contents
    BY DEF vars, bookVars
  <1>5. (\E b \in Books : Comes(b) \/ CallFails(b)) \/ WorldDies \/ Dies => UNCHANGED contents
    BY DEF Comes, Start, CallFails, WorldDies, Dies, bookVars
  <1> QED BY <1>1, <1>2, <1>3, <1>4, <1>5 DEF Next

(* Whoever saves an entry, a run, a recovery or a person, replaces the revision that the
   item on record was planned for, and an automatic save of the world book the one its
   review saw. *)
THEOREM SavesAsPlannedHolds == Spec => SavesAsPlanned
  <1>1. BooksInv /\ [Next]_vars =>
          [\A v \in (Len(contents) + 1)..Len(contents') :
             LET i == contents'[v].by IN
             i.kind # "delete" =>
               /\ contents'[v].over = files[i.book]
               /\ i \in DOMAIN ledger' /\ ledger'[i].over = files[i.book]
               /\ i.book = "world" /\ ledger'[i].automatic =>
                    runs[<<"world", i.run>>].seen = files[i.book]]_vars
    BY NextPlanned DEF AllPlanned, Planned
  <1> QED BY <1>1, BooksInvariant, PTL DEF Spec, SavesAsPlanned
=============================================================================

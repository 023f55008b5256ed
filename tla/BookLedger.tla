------------------------------ MODULE BookLedger ------------------------------
(***************************************************************************)
(* The cognition books (cognition/books.py) and the ledger of what is to be  *)
(* done to them (maintenance.py, manual.py).  A book entry is one Markdown   *)
(* file, a ledger item one JSON file; each is replaced atomically, and       *)
(* nothing holds two files together but the order of the writes and the      *)
(* receipts a save leaves in the entry.  Every operation here runs under     *)
(* books.LOCK; saved says how many of its writes were made before the        *)
(* process died.                                                             *)
(*                                                                          *)
(* Each book has one entry, which may be missing.  A content stands for the  *)
(* raw text of a file: a save stamps its text, so that no save writes one    *)
(* that was there before, while a restore writes the same text each time.    *)
(***************************************************************************)
EXTENDS Integers, Sequences, FiniteSets

CONSTANTS
  MaxRun,   \* bound: runs of the daily maintenance, for each book
  Bodies,   \* what a proposal or an edit may say ("none": no text at all)
  Refused   \* those under a title that validate_name refuses to a new entry

ASSUME BooksAssumption == MaxRun \in Nat /\ Refused \subseteq Bodies /\ "none" \notin Bodies

VARIABLES
  contents,  \* every raw text that ever was: a revision is a place in it
  files,     \* the revision each book's entry file has, 0 if there is none
  ledger     \* cognition_maintenance/items

bookVars == <<contents, files, ledger>>

-----------------------------------------------------------------------------
(* Files *)

Books == {"world", "self"}

(* The digest that names an item: a proposal of a run, an edit or a deletion asked
   for by hand on a revision of the entry, over. *)
Lane(b, n, body) == [kind |-> "lane", book |-> b, run |-> n, over |-> 0, body |-> body]
Edit(b, over, body) == [kind |-> "edit", book |-> b, run |-> 0, over |-> over, body |-> body]
Delete(b, over) == [kind |-> "delete", book |-> b, run |-> 0, over |-> over, body |-> "none"]
Ids == [kind : {"lane", "edit", "delete"}, book : Books, run : 0..MaxRun,
        over : Nat, body : Bodies \cup {"none"}]

(* A text, the receipts in its frontmatter, the revision it replaced and the item
   it was saved or restored for. *)
Contents == [body : Bodies, receipts : SUBSET Ids, over : Nat, by : Ids]

Statuses == {"pending", "observing", "unchanged", "applying", "auto_applied", "applied",
             "rejected", "error", "manual_applying", "manual_error"}
Items == [status : Statuses, over : Nat, automatic : BOOLEAN, restore : {"none", "pending", "done"}]
Item(status, over, automatic) ==
  [status |-> status, over |-> over, automatic |-> automatic, restore |-> "none"]

Status(i) == IF i \in DOMAIN ledger THEN ledger[i].status ELSE "none"
ReceiptsOf(v) == IF v = 0 THEN {} ELSE contents[v].receipts
ReceiptPresent(i) == i \in ReceiptsOf(files[i.book])
BodyOf(v) == IF v = 0 THEN "none" ELSE contents[v].body

Write(i, item) ==
  ledger' = [j \in DOMAIN ledger \cup {i} |-> IF j = i THEN item ELSE ledger[j]]

-----------------------------------------------------------------------------
(* books.save *)

(* Mutants: no receipt is looked for; the revision is not compared. *)
OutcomeAgain(i, over) ==
  IF over = 0 /\ i.body \in Refused THEN "refused"
  ELSE IF over = files[i.book] THEN "saves"
  ELSE IF files[i.book] = 0 THEN "refused" ELSE "conflict"

OutcomeAnyway(i, over) ==
  IF ReceiptPresent(i) THEN "there"
  ELSE IF over = 0 /\ i.body \in Refused THEN "refused" ELSE "saves"

(* It is there already, or the title of a new entry is refused, or the file is the
   one the caller planned on; RevisionConflict says that it changed, and any other
   BookError that it is gone. *)
Outcome(i, over) ==
  IF ReceiptPresent(i) THEN "there"
  ELSE IF over = 0 /\ i.body \in Refused THEN "refused"
  ELSE IF over = files[i.book] THEN "saves"
  ELSE IF files[i.book] = 0 THEN "refused" ELSE "conflict"

(* atomic_text of the new content; a backup of the old one was written before. *)
Replace(i, content) ==
  /\ contents' = Append(contents, content)
  /\ files' = [files EXCEPT ![i.book] = Len(contents) + 1]

Save(i, over, happens) ==
  IF happens /\ Outcome(i, over) = "saves"
    THEN Replace(i, [body |-> i.body, receipts |-> ReceiptsOf(over) \cup {i},
                     over |-> over, by |-> i])
    ELSE UNCHANGED <<contents, files>>

-----------------------------------------------------------------------------
(* maintenance.commit: the intent, the save, what came of it *)

Applied(automatic) == IF automatic THEN "auto_applied" ELSE "applied"

Committed(i, over, automatic, saved) ==
  LET after == IF Outcome(i, over) \in {"there", "saves"} THEN Applied(automatic)
               ELSE IF automatic /\ i.book = "self" THEN "error" ELSE "pending"
  IN  /\ IF saved = 0 THEN UNCHANGED ledger
         ELSE Write(i, Item(IF saved < 3 THEN "applying" ELSE after, over, automatic))
      /\ Save(i, over, saved >= 2)

-----------------------------------------------------------------------------
(* manual.py *)

(* manual.save: a request that was applied is not repeated. *)
EditSaved(i, saved) ==
  LET after == IF Outcome(i, i.over) \in {"refused", "conflict"} THEN "manual_error" ELSE "applied"
  IN  IF Status(i) = "applied" THEN UNCHANGED bookVars
      ELSE /\ IF saved = 0 \/ (saved < 3 /\ Status(i) # "none") THEN UNCHANGED ledger
              ELSE Write(i, Item(IF saved < 3 THEN "manual_applying" ELSE after, i.over, FALSE))
           /\ Save(i, i.over, saved >= 2)

(* manual.delete: compared again when a request is repeated, then unlinked. *)
Deletable(i) ==
  \/ Status(i) = "none" /\ files[i.book] = i.over
  \/ Status(i) = "manual_applying" /\ files[i.book] \in {0, i.over}

Deleted(i, saved) ==
  IF ~Deletable(i) THEN UNCHANGED bookVars
  ELSE /\ IF saved = 0 THEN UNCHANGED ledger
          ELSE Write(i, Item(IF saved < 3 THEN "manual_applying" ELSE "applied", i.over, FALSE))
       /\ files' = IF saved >= 2 THEN [files EXCEPT ![i.book] = 0] ELSE files
       /\ UNCHANGED contents

(* The text that a deletion's restore writes: the deleted one and a receipt. *)
CopyOf(i) ==
  [body |-> BodyOf(i.over), receipts |-> ReceiptsOf(i.over) \cup {i}, over |-> i.over, by |-> i]
Copies(i) == {v \in 1..Len(contents) : contents[v] = CopyOf(i)}

(* manual.restore: a missing file is written, the first time or again; a restore
   that died after its write is concluded; anything else in the way stands. *)
Restored(i, saved) ==
  LET item == ledger[i] IN
  IF files[i.book] = 0
    THEN /\ IF saved = 0 THEN UNCHANGED ledger
            ELSE Write(i, [item EXCEPT !.restore = IF saved < 3 THEN "pending" ELSE "done"])
         /\ IF saved < 2 THEN UNCHANGED <<contents, files>>
            ELSE IF Copies(i) = {} THEN Replace(i, CopyOf(i))
            ELSE /\ files' = [files EXCEPT ![i.book] = CHOOSE v \in Copies(i) : TRUE]
                 /\ UNCHANGED contents
    ELSE /\ IF item.restore = "pending" /\ files[i.book] \in Copies(i) /\ saved > 0
              THEN Write(i, [item EXCEPT !.restore = "done"])
              ELSE UNCHANGED ledger
         /\ UNCHANGED <<contents, files>>

BooksInit ==
  /\ contents = <<>>
  /\ files = [b \in Books |-> 0]
  /\ ledger = <<>>

BooksTypeOK ==
  /\ contents \in Seq(Contents)
  /\ files \in [Books -> 0..Len(contents)]
  /\ DOMAIN ledger \subseteq Ids
  /\ \A i \in DOMAIN ledger : ledger[i] \in Items
=============================================================================

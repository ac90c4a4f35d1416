------------------------------- MODULE Imports -------------------------------
(***************************************************************************)
(* The life of a catalogue import (library/imports.py): a batch of rows is *)
(* staged, validated, committed and rolled back, over a catalogue of       *)
(* works, editions, copies and the links from works to their authors.      *)
(*                                                                         *)
(* A row names its work, its edition and maybe a copy and an author.       *)
(* Commit finds each of them or creates it, and remembers which it         *)
(* created; rollback deletes what the batch created and nothing else needs.*)
(* Commit locks the batch.  Validation and rollback do not: they act on    *)
(* the status that their request had read, which is a step of its own.     *)
(* What makes rows faulty (parsing) is left out: a batch is faulty or not. *)
(***************************************************************************)
EXTENDS Library, FiniteSetsExt

CONSTANTS
  Batches, Faulty,               \* batches, and those with errors in their rows
  ImportRows, RowBatch,          \* rows are numbers: a batch takes them in order
  RowWork, RowEdition, RowCopy, RowAuthor,   \* RowCopy, RowAuthor: maybe None
  OldWorks                       \* works that were there before

BatchRows(b) == {r \in ImportRows : RowBatch[r] = b}
NamedWorks == {RowWork[r] : r \in ImportRows} \cup OldWorks
NamedEditions == {RowEdition[r] : r \in ImportRows}
NamedCopies == {RowCopy[r] : r \in ImportRows} \ {None}
NamedAuthors == {RowAuthor[r] : r \in ImportRows} \ {None}

ASSUME ImportsAssumption ==
  /\ ImportRows \subseteq Nat /\ IsFiniteSet(ImportRows)
  /\ RowBatch \in [ImportRows -> Batches]
  /\ Faulty \subseteq Batches
  /\ None \notin NamedWorks /\ None \notin NamedEditions

\* Who made a record: a row, or somebody before (Old).  It stands for the key.
Old == 0
Makers == ImportRows \cup {Old, None}

ASSUME OldAssumption == Old \notin ImportRows

VARIABLES
  batchStatus,      \* CatalogImportBatch.status
  validating,       \* the request that staged the batch is about to validate it
  reverting,        \* what rollbacks under way have found: "cancel", "reverse"
  result,           \* commit_result: what the row created
  works,            \* the maker of each work, None if it is not there
  editions, workOf, \* the maker of each edition, and its work
  holdings, editionOf,   \* the maker of each copy, and its edition
  links,            \* work and author
  inUse              \* copies with a loan or a hold

catalogueVars == <<works, editions, workOf, holdings, editionOf, links>>
batchVars == <<batchStatus, validating, reverting, result>>
importVars == <<batchVars, catalogueVars, inUse>>

CatalogImportStatus == {"staged", "validated", "committed", "rolled_back"}
NothingMade == [work |-> FALSE, edition |-> FALSE, copy |-> FALSE, link |-> FALSE]

----------------------------------------------------------------------------
\* stage_import, in a request that goes on to validate_import.
Stage(b) ==
  /\ batchStatus[b] = "absent"
  /\ batchStatus' = [batchStatus EXCEPT ![b] = "staged"]
  /\ validating' = [validating EXCEPT ![b] = TRUE]
  /\ UNCHANGED <<reverting, result, catalogueVars, inUse>>

\* validate_import: it has the batch as it was staged.
ValidateBatch(b) ==
  /\ validating[b]
  /\ validating' = [validating EXCEPT ![b] = FALSE]
  /\ batchStatus' = [batchStatus EXCEPT ![b] = "validated"]
  /\ UNCHANGED <<reverting, result, catalogueVars, inUse>>

\* The rows that make something: the first that names what is not there.
Makes(S, naming, there) ==
  {r \in S : /\ naming[r] # None /\ there[naming[r]] = None
             /\ \A q \in S : naming[q] = naming[r] => r <= q}

Made(S, naming, there) ==
  [x \in DOMAIN there |->
     IF \E r \in Makes(S, naming, there) : naming[r] = x
     THEN CHOOSE r \in Makes(S, naming, there) : naming[r] = x ELSE there[x]]

\* What belongs to a new record, by the row that made it.
Owned(S, naming, there, owner, was) ==
  [x \in DOMAIN there |->
     IF \E r \in Makes(S, naming, there) : naming[r] = x
     THEN owner[CHOOSE r \in Makes(S, naming, there) : naming[r] = x] ELSE was[x]]

\* Rows that link an author to a work they found: of those that name the same
\* pair, the first.
Links(S) ==
  {r \in S : /\ RowAuthor[r] # None /\ r \notin Makes(S, RowWork, works)
             /\ <<RowWork[r], RowAuthor[r]>> \notin links
             /\ \A q \in S : q < r =>
                  ~(RowWork[q] = RowWork[r] /\ RowAuthor[q] = RowAuthor[r])}

\* commit_import, with the batch locked.  Some rows may fail, for the limit of
\* the plan or for a record that another batch has just made: each alone.
CommitBatch(b, failed) ==
  LET S == BatchRows(b) \ failed
  IN  /\ batchStatus[b] = "validated" /\ b \notin Faulty
      /\ batchStatus' = [batchStatus EXCEPT ![b] = "committed"]
      /\ works' = Made(S, RowWork, works)
      /\ editions' = Made(S, RowEdition, editions)
      /\ workOf' = Owned(S, RowEdition, editions, RowWork, workOf)
      /\ holdings' = Made(S, RowCopy, holdings)
      /\ editionOf' = Owned(S, RowCopy, holdings, RowEdition, editionOf)
      /\ links' = links \cup {<<RowWork[r], RowAuthor[r]>> :
                                 r \in {r \in S : RowAuthor[r] # None}}
      /\ result' = [r \in ImportRows |->
                      IF r \in S
                      THEN [work |-> r \in Makes(S, RowWork, works),
                            edition |-> r \in Makes(S, RowEdition, editions),
                            copy |-> r \in Makes(S, RowCopy, holdings),
                            link |-> r \in Links(S)]
                      ELSE IF r \in failed THEN NothingMade ELSE result[r]]
      /\ UNCHANGED <<validating, reverting, inUse>>

----------------------------------------------------------------------------
(* rollback_import.                                                        *)

\* It reads the status without a lock: any number of requests may ...
ReadBatch(b) ==
  /\ batchStatus[b] \in {"staged", "validated", "committed"}
  /\ reverting' = [reverting EXCEPT ![b] = @ \cup
                     {IF batchStatus[b] = "committed" THEN "reverse" ELSE "cancel"}]
  /\ UNCHANGED <<batchStatus, validating, result, catalogueVars, inUse>>

\* One that has found it so is done: the last of them, or not.
Done(b, found) ==
  /\ found \in reverting[b]
  /\ reverting' \in {reverting, [reverting EXCEPT ![b] = @ \ {found}]}

\* ... and marks a batch that was not committed, ...
CancelBatch(b) ==
  /\ Done(b, "cancel")
  /\ batchStatus' = [batchStatus EXCEPT ![b] = "rolled_back"]
  /\ UNCHANGED <<validating, result, catalogueVars, inUse>>

\* Mutation: an edition goes although copies of it stay.
EditionsOf(b) ==
  {e \in NamedEditions : \E r \in BatchRows(b) :
     result[r].edition /\ RowEdition[r] = e /\ editions[e] = r}

\* The batch's own copies without a history, ...
GoneCopies(b) ==
  {c \in NamedCopies \ inUse : \E r \in BatchRows(b) :
     result[r].copy /\ RowCopy[r] = c /\ holdings[c] = r}

\* ... its own editions without other copies, ...
GoneEditions(b) ==
  {e \in NamedEditions :
     /\ \E r \in BatchRows(b) : result[r].edition /\ RowEdition[r] = e /\ editions[e] = r
     /\ \A c \in NamedCopies \ GoneCopies(b) : holdings[c] # None => editionOf[c] # e}

\* Mutation: works are looked at while their editions are still there.
GoneWorksFirst(b) ==
  {w \in NamedWorks :
     /\ \E r \in BatchRows(b) : result[r].work /\ RowWork[r] = w /\ works[w] = r
     /\ \A e \in NamedEditions : editions[e] # None => workOf[e] # w}

\* ... and its own works without other editions.
GoneWorks(b) ==
  {w \in NamedWorks :
     /\ \E r \in BatchRows(b) : result[r].work /\ RowWork[r] = w /\ works[w] = r
     /\ \A e \in NamedEditions \ GoneEditions(b) : editions[e] # None => workOf[e] # w}

\* ... or reverses a batch that was.
RevertBatch(b) ==
  /\ Done(b, "reverse")
  /\ LET goneW == GoneWorks(b)  goneE == GoneEditions(b)  goneC == GoneCopies(b)
         unlinked == {<<RowWork[r], RowAuthor[r]>> : r \in {r \in BatchRows(b) : result[r].link}}
     IN  /\ works' = [w \in NamedWorks |-> IF w \in goneW THEN None ELSE works[w]]
         /\ editions' = [e \in NamedEditions |-> IF e \in goneE THEN None ELSE editions[e]]
         /\ workOf' = [e \in NamedEditions |-> IF e \in goneE THEN None ELSE workOf[e]]
         /\ holdings' = [c \in NamedCopies |-> IF c \in goneC THEN None ELSE holdings[c]]
         /\ editionOf' = [c \in NamedCopies |-> IF c \in goneC THEN None ELSE editionOf[c]]
         /\ links' = {k \in links : k[1] \notin goneW /\ k \notin unlinked}
  /\ batchStatus' = [batchStatus EXCEPT ![b] = "rolled_back"]
  /\ UNCHANGED <<validating, result, inUse>>

----------------------------------------------------------------------------
\* A copy is lent, or held.
UseCopy(c) ==
  /\ holdings[c] # None
  /\ inUse' = inUse \cup {c}
  /\ UNCHANGED <<batchVars, catalogueVars>>

ImportsInit ==
  /\ batchStatus = [b \in Batches |-> "absent"]
  /\ validating = [b \in Batches |-> FALSE]
  /\ reverting = [b \in Batches |-> {}]
  /\ result = [r \in ImportRows |-> NothingMade]
  /\ works = [w \in NamedWorks |-> IF w \in OldWorks THEN Old ELSE None]
  /\ editions = [e \in NamedEditions |-> None]
  /\ workOf = [e \in NamedEditions |-> None]
  /\ holdings = [c \in NamedCopies |-> None]
  /\ editionOf = [c \in NamedCopies |-> None]
  /\ links = {} /\ inUse = {}

ImportsNext ==
  \/ \E b \in Batches :
        \/ Stage(b) \/ ValidateBatch(b) \/ ReadBatch(b) \/ CancelBatch(b) \/ RevertBatch(b)
        \/ \E failed \in SUBSET BatchRows(b) : CommitBatch(b, failed)
  \/ \E c \in NamedCopies : UseCopy(c)

ImportsSpec == ImportsInit /\ [][ImportsNext]_importVars

----------------------------------------------------------------------------
(* Properties.                                                             *)

ImportsTypeOK ==
  /\ batchStatus \in [Batches -> CatalogImportStatus \cup {"absent"}]
  /\ validating \in [Batches -> BOOLEAN]
  /\ reverting \in [Batches -> SUBSET {"cancel", "reverse"}]
  /\ result \in [ImportRows ->
                    [work : BOOLEAN, edition : BOOLEAN, copy : BOOLEAN, link : BOOLEAN]]
  /\ works \in [NamedWorks -> Makers]
  /\ editions \in [NamedEditions -> Makers] /\ workOf \in [NamedEditions -> NamedWorks \cup {None}]
  /\ holdings \in [NamedCopies -> Makers]
  /\ editionOf \in [NamedCopies -> NamedEditions \cup {None}]
  /\ links \subseteq NamedWorks \X NamedAuthors
  /\ inUse \subseteq NamedCopies

\* Whatever batches are committed and rolled back, in whatever order, and
\* whichever of their rows fail: every copy has its edition and every edition
\* and link its work; no copy with a history is lost, and no work that was
\* there before.
CatalogueWhole ==
  /\ \A c \in NamedCopies : holdings[c] # None => editions[editionOf[c]] # None
  /\ \A e \in NamedEditions : editions[e] # None => works[workOf[e]] # None
  /\ \A k \in links : works[k[1]] # None
  /\ \A c \in inUse : holdings[c] # None
  /\ \A w \in OldWorks : works[w] = Old

\* Nothing is left of the batch but what somebody else needs by now.
Reverted(b) ==
  \A r \in BatchRows(b) :
    /\ RowCopy[r] # None /\ holdings[RowCopy[r]] = r => RowCopy[r] \in inUse
    /\ editions[RowEdition[r]] = r =>
          \E c \in NamedCopies : holdings[c] # None /\ editionOf[c] = RowEdition[r]
    /\ works[RowWork[r]] = r =>
          \E e \in NamedEditions : editions[e] # None /\ workOf[e] = RowWork[r]

\* A rollback of a batch that it found committed leaves nothing of it, whatever
\* other rollbacks and commits have done since it looked.
RollbackReverses ==
  [][\A b \in Batches : "reverse" \in reverting[b] \ reverting'[b]
                          => Reverted(b)']_importVars
=============================================================================

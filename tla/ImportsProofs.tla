---------------------------- MODULE ImportsProofs ----------------------------
(***************************************************************************)
(* The catalogue stays whole and a rollback reverses its batch, for any    *)
(* batches of any rows over any names.                                     *)
(***************************************************************************)
EXTENDS Imports, WellFoundedInduction, TLAPS

\* What is there belongs to something that is named.
Placed ==
  /\ \A c \in NamedCopies : holdings[c] # None => editionOf[c] \in NamedEditions
  /\ \A e \in NamedEditions : editions[e] # None => workOf[e] \in NamedWorks

\* A row has made what bears its name.
MadeWork(r) == works[RowWork[r]] = r
MadeEdition(r) == editions[RowEdition[r]] = r
MadeCopy(r) == RowCopy[r] # None /\ holdings[RowCopy[r]] = r

\* What a row made and is still there is in the result of its batch.
Remembered ==
  \A r \in ImportRows : /\ MadeWork(r) => result[r].work
                        /\ MadeEdition(r) => result[r].edition
                        /\ MadeCopy(r) => result[r].copy

\* A batch that may still be committed has made nothing: none is committed twice.
CommittedOnce ==
  \A b \in Batches :
    /\ batchStatus[b] \in {"validated", "committed"} => ~validating[b]
    /\ batchStatus[b] \in {"absent", "staged", "validated"} \/ validating[b] =>
         \A r \in BatchRows(b) : ~MadeWork(r) /\ ~MadeEdition(r) /\ ~MadeCopy(r)

ImportsInv == ImportsTypeOK /\ Placed /\ CatalogueWhole /\ Remembered /\ CommittedOnce

----------------------------------------------------------------------------
(* What a commit makes.                                                    *)

LEMMA LeastExists ==
  ASSUME NEW S \in SUBSET Nat, S # {}
  PROVE  \E x \in S : \A y \in S : x <= y
<1> DEFINE R == OpToRel(<, Nat)
<1>1. IsWellFoundedOn(R, Nat)
  BY NatLessThanWellFounded
<1>2. PICK x \in S : \A y \in S : <<y, x>> \notin R
  <2> HIDE DEF R
  <2> QED BY <1>1, WFMin
<1>3. \A y \in S : <<y, x>> \in R <=> y < x
  BY DEF OpToRel
<1>4. \A y \in S : ~(y < x)
  BY <1>2, <1>3
<1> HIDE DEF R
<1> QED BY <1>4

LEMMA RowsAreNumbers ==
  /\ ImportRows \subseteq Nat
  /\ None \notin ImportRows /\ Old \notin ImportRows /\ Old # None
<1>1. ImportRows \subseteq Nat
  BY ImportsAssumption
<1>2. None \notin Int
  BY LibraryAssumption
<1>3. Old \in Nat
  BY DEF Old
<1>4. None \notin ImportRows
  <2> SUFFICES ASSUME None \in ImportRows PROVE FALSE
    OBVIOUS
  <2>1. None \in Nat
    BY <1>1
  <2> QED BY <1>2, <2>1
<1>5. Old # None
  BY <1>2, <1>3
<1> QED BY <1>1, <1>4, <1>5, OldAssumption

\* A record is made for a name that was missing, by a row that bears it.
LEMMA MadeByRow ==
  ASSUME NEW S \in SUBSET ImportRows, NEW naming, NEW there
  PROVE  \A x \in DOMAIN there :
           Made(S, naming, there)[x] # there[x] =>
             /\ there[x] = None
             /\ Made(S, naming, there)[x] \in Makes(S, naming, there)
             /\ naming[Made(S, naming, there)[x]] = x
<1> DEFINE M == Made(S, naming, there)
           K == Makes(S, naming, there)
<1>1. \A x \in DOMAIN there :
         M[x] = IF \E r \in K : naming[r] = x
                THEN CHOOSE r \in K : naming[r] = x ELSE there[x]
  BY DEF Made
<1>2. \A r \in K : there[naming[r]] = None
  BY DEF Makes
<1> HIDE DEF M, K
<1>3. ASSUME NEW x \in DOMAIN there, M[x] # there[x]
      PROVE  there[x] = None /\ M[x] \in K /\ naming[M[x]] = x
  BY <1>1, <1>2, <1>3
<1> QED BY <1>3 DEF M, K

\* What rows name is there afterwards.
LEMMA MadeForAll ==
  ASSUME NEW S \in SUBSET ImportRows, NEW naming, NEW there
  PROVE  \A r \in S : naming[r] # None /\ naming[r] \in DOMAIN there =>
           Made(S, naming, there)[naming[r]] # None
<1> DEFINE M == Made(S, naming, there)
           K == Makes(S, naming, there)
<1>1. \A x \in DOMAIN there :
         M[x] = IF \E r \in K : naming[r] = x
                THEN CHOOSE r \in K : naming[r] = x ELSE there[x]
  BY DEF Made
<1>2. \A r \in K : r # None
  BY RowsAreNumbers DEF Makes
<1>3. ASSUME NEW r \in S, naming[r] # None, there[naming[r]] = None
      PROVE  \E q \in K : naming[q] = naming[r]
  <2> DEFINE T == {q \in S : naming[q] = naming[r]}
  <2>1. T \in SUBSET Nat /\ T # {}
    BY RowsAreNumbers
  <2>2. PICK q \in T : \A t \in T : q <= t
    <3> HIDE DEF T
    <3> QED BY <2>1, LeastExists
  <2> QED BY <1>3, <2>2 DEF Makes
<1> HIDE DEF M, K
<1>4. ASSUME NEW r \in S, naming[r] # None, naming[r] \in DOMAIN there
      PROVE  M[naming[r]] # None
  BY <1>1, <1>2, <1>3, <1>4
<1> QED BY <1>4 DEF M

\* What is new belongs to what its row names; the rest stays as it was.
LEMMA OwnedFacts ==
  ASSUME NEW S \in SUBSET ImportRows, NEW naming, NEW there, NEW owner, NEW was
  PROVE  \A x \in DOMAIN there :
           Owned(S, naming, there, owner, was)[x] =
             IF Made(S, naming, there)[x] # there[x]
             THEN owner[Made(S, naming, there)[x]] ELSE was[x]
<1> DEFINE M == Made(S, naming, there)
           K == Makes(S, naming, there)
<1>1. \A x \in DOMAIN there :
         M[x] = IF \E r \in K : naming[r] = x
                THEN CHOOSE r \in K : naming[r] = x ELSE there[x]
  BY DEF Made
<1>2. \A x \in DOMAIN there :
         Owned(S, naming, there, owner, was)[x] =
           IF \E r \in K : naming[r] = x
           THEN owner[CHOOSE r \in K : naming[r] = x] ELSE was[x]
  BY DEF Owned
<1>3. \A r \in K : r # None /\ there[naming[r]] = None
  BY RowsAreNumbers DEF Makes
<1> HIDE DEF M, K
<1>4. ASSUME NEW x \in DOMAIN there, \E r \in K : naming[r] = x
      PROVE  M[x] = (CHOOSE r \in K : naming[r] = x) /\ M[x] # there[x]
  BY <1>1, <1>3, <1>4
<1> QED BY <1>1, <1>2, <1>4 DEF M

----------------------------------------------------------------------------
LEMMA ImportsFirst == ImportsInit => ImportsInv
<1> SUFFICES ASSUME ImportsInit PROVE ImportsInv
  OBVIOUS
<1> USE RowsAreNumbers
<1>1. ImportsTypeOK
  BY DEF ImportsInit, ImportsTypeOK, Makers, NothingMade, CatalogImportStatus
<1>2. Placed /\ CatalogueWhole
  BY DEF ImportsInit, Placed, CatalogueWhole, NamedWorks
<1>3. \A r \in ImportRows : ~MadeWork(r) /\ ~MadeEdition(r) /\ ~MadeCopy(r)
  BY DEF ImportsInit, MadeWork, MadeEdition, MadeCopy, NamedWorks, NamedEditions, NamedCopies
<1>4. Remembered /\ CommittedOnce
  BY <1>3 DEF ImportsInit, Remembered, CommittedOnce, BatchRows
<1> QED BY <1>1, <1>2, <1>4 DEF ImportsInv

----------------------------------------------------------------------------
(* A commit.                                                               *)

LEMMA CommitKeeps ==
  ASSUME ImportsInv, NEW b \in Batches, NEW failed \in SUBSET BatchRows(b),
         CommitBatch(b, failed)
  PROVE  ImportsInv'
<1> USE DEF ImportsInv, ImportsTypeOK
<1> DEFINE S == BatchRows(b) \ failed
<1>1. /\ batchStatus[b] = "validated"
      /\ batchStatus' = [batchStatus EXCEPT ![b] = "committed"]
      /\ works' = Made(S, RowWork, works)
      /\ editions' = Made(S, RowEdition, editions)
      /\ workOf' = Owned(S, RowEdition, editions, RowWork, workOf)
      /\ holdings' = Made(S, RowCopy, holdings)
      /\ editionOf' = Owned(S, RowCopy, holdings, RowEdition, editionOf)
      /\ links' = links \cup {<<RowWork[r], RowAuthor[r]>> :
                                 r \in {r \in S : RowAuthor[r] # None}}
      /\ result' = [r \in ImportRows |->
                      IF r \in S
                      THEN [work |-> r \in Makes(S, RowWork, works),
                            edition |-> r \in Makes(S, RowEdition, editions),
                            copy |-> r \in Makes(S, RowCopy, holdings),
                            link |-> r \in Links(S)]
                      ELSE IF r \in failed THEN NothingMade ELSE result[r]]
      /\ UNCHANGED <<validating, reverting, inUse>>
  BY DEF CommitBatch
<1>2. S \in SUBSET ImportRows /\ S \subseteq BatchRows(b)
  BY DEF BatchRows
<1> HIDE DEF S
<1>3. /\ \A r \in ImportRows : RowWork[r] \in NamedWorks /\ RowWork[r] # None
      /\ \A r \in ImportRows : RowEdition[r] \in NamedEditions /\ RowEdition[r] # None
      /\ \A r \in ImportRows : RowCopy[r] # None => RowCopy[r] \in NamedCopies
      /\ \A r \in ImportRows : RowAuthor[r] # None => RowAuthor[r] \in NamedAuthors
  <2>1. None \notin NamedWorks /\ None \notin NamedEditions
    BY ImportsAssumption
  <2> QED BY <2>1 DEF NamedWorks, NamedEditions, NamedCopies, NamedAuthors
<1>0. DOMAIN works = NamedWorks /\ DOMAIN editions = NamedEditions /\ DOMAIN holdings = NamedCopies
  OBVIOUS
<1>4. /\ \A w \in NamedWorks : works'[w] # works[w] =>
            /\ works[w] = None /\ works'[w] \in Makes(S, RowWork, works)
            /\ RowWork[works'[w]] = w
      /\ \A r \in S : works'[RowWork[r]] # None
  <2>1. \A x \in DOMAIN works :
           Made(S, RowWork, works)[x] # works[x] =>
             /\ works[x] = None
             /\ Made(S, RowWork, works)[x] \in Makes(S, RowWork, works)
             /\ RowWork[Made(S, RowWork, works)[x]] = x
    BY ONLY <1>2, MadeByRow
  <2>2. \A r \in S : RowWork[r] # None /\ RowWork[r] \in DOMAIN works =>
           Made(S, RowWork, works)[RowWork[r]] # None
    BY ONLY <1>2, MadeForAll
  <2> QED BY <1>0, <1>1, <1>2, <1>3, <2>1, <2>2
<1>5. /\ \A e \in NamedEditions : editions'[e] # editions[e] =>
            /\ editions[e] = None /\ editions'[e] \in Makes(S, RowEdition, editions)
            /\ RowEdition[editions'[e]] = e
      /\ \A r \in S : editions'[RowEdition[r]] # None
  <2>1. \A x \in DOMAIN editions :
           Made(S, RowEdition, editions)[x] # editions[x] =>
             /\ editions[x] = None
             /\ Made(S, RowEdition, editions)[x] \in Makes(S, RowEdition, editions)
             /\ RowEdition[Made(S, RowEdition, editions)[x]] = x
    BY ONLY <1>2, MadeByRow
  <2>2. \A r \in S : RowEdition[r] # None /\ RowEdition[r] \in DOMAIN editions =>
           Made(S, RowEdition, editions)[RowEdition[r]] # None
    BY ONLY <1>2, MadeForAll
  <2> QED BY <1>0, <1>1, <1>2, <1>3, <2>1, <2>2
<1>6. \A c \in NamedCopies : holdings'[c] # holdings[c] =>
            /\ holdings[c] = None /\ holdings'[c] \in Makes(S, RowCopy, holdings)
            /\ RowCopy[holdings'[c]] = c
  <2>1. \A x \in DOMAIN holdings :
           Made(S, RowCopy, holdings)[x] # holdings[x] =>
             /\ holdings[x] = None
             /\ Made(S, RowCopy, holdings)[x] \in Makes(S, RowCopy, holdings)
             /\ RowCopy[Made(S, RowCopy, holdings)[x]] = x
    BY ONLY <1>2, MadeByRow
  <2> QED BY <1>0, <1>1, <2>1
<1>7. \A e \in NamedEditions :
         workOf'[e] = IF editions'[e] # editions[e] THEN RowWork[editions'[e]] ELSE workOf[e]
  BY <1>1, <1>2, OwnedFacts
<1>8. \A c \in NamedCopies :
         editionOf'[c] = IF holdings'[c] # holdings[c] THEN RowEdition[holdings'[c]]
                         ELSE editionOf[c]
  BY <1>1, <1>2, OwnedFacts
<1>9. /\ Makes(S, RowWork, works) \subseteq S /\ Makes(S, RowEdition, editions) \subseteq S
      /\ Makes(S, RowCopy, holdings) \subseteq S
  BY DEF Makes
<1>10. ImportsTypeOK'
  <2>1. /\ DOMAIN works' = NamedWorks /\ DOMAIN editions' = NamedEditions
        /\ DOMAIN holdings' = NamedCopies
        /\ works' = [w \in NamedWorks |-> works'[w]]
        /\ editions' = [e \in NamedEditions |-> editions'[e]]
        /\ workOf' = [e \in NamedEditions |-> workOf'[e]]
        /\ holdings' = [c \in NamedCopies |-> holdings'[c]]
        /\ editionOf' = [c \in NamedCopies |-> editionOf'[c]]
    BY <1>1 DEF Made, Owned
  <2>2. works' \in [NamedWorks -> Makers]
    BY <1>2, <1>4, <1>9, <2>1 DEF Makers
  <2>3. editions' \in [NamedEditions -> Makers] /\ holdings' \in [NamedCopies -> Makers]
    BY <1>2, <1>5, <1>6, <1>9, <2>1 DEF Makers
  <2>4. workOf' \in [NamedEditions -> NamedWorks \cup {None}]
    <3>1. \A e \in NamedEditions : workOf'[e] \in NamedWorks \cup {None}
      BY <1>2, <1>3, <1>5, <1>7, <1>9
    <3> QED BY <2>1, <3>1
  <2>5. editionOf' \in [NamedCopies -> NamedEditions \cup {None}]
    <3>1. \A c \in NamedCopies : editionOf'[c] \in NamedEditions \cup {None}
      BY <1>2, <1>3, <1>6, <1>8, <1>9
    <3> QED BY <2>1, <3>1
  <2>6. links' \subseteq NamedWorks \X NamedAuthors
    BY <1>1, <1>2, <1>3
  <2>7. result' \in [ImportRows -> [work : BOOLEAN, edition : BOOLEAN, copy : BOOLEAN, link : BOOLEAN]]
    <3>1. \A r \in ImportRows :
             result'[r] \in [work : BOOLEAN, edition : BOOLEAN, copy : BOOLEAN, link : BOOLEAN]
      BY <1>1 DEF NothingMade
    <3>2. result' = [r \in ImportRows |-> result'[r]]
      BY <1>1
    <3> QED BY <3>1, <3>2
  <2>8. batchStatus' \in [Batches -> CatalogImportStatus \cup {"absent"}]
    BY <1>1 DEF CatalogImportStatus
  <2> QED BY <1>1, <2>2, <2>3, <2>4, <2>5, <2>6, <2>7, <2>8
<1>11. Placed'
  <2>1. \A c \in NamedCopies : holdings'[c] # None => editionOf'[c] \in NamedEditions
    BY <1>2, <1>3, <1>6, <1>8, <1>9 DEF Placed
  <2>2. \A e \in NamedEditions : editions'[e] # None => workOf'[e] \in NamedWorks
    BY <1>2, <1>3, <1>5, <1>7, <1>9 DEF Placed
  <2> QED BY <2>1, <2>2 DEF Placed
<1>12. CatalogueWhole'
  <2>1. \A w \in NamedWorks : works[w] # None => works'[w] # None
    BY <1>4
  <2>2. \A e \in NamedEditions : editions[e] # None => editions'[e] # None
    BY <1>5
  <2>3. \A c \in NamedCopies : holdings'[c] # None => editions'[editionOf'[c]] # None
    <3>1. ASSUME NEW c \in NamedCopies, holdings'[c] # holdings[c]
          PROVE  editions'[editionOf'[c]] # None
      BY <1>5, <1>6, <1>8, <1>9, <3>1
    <3>2. ASSUME NEW c \in NamedCopies, holdings'[c] = holdings[c], holdings'[c] # None
          PROVE  editions'[editionOf'[c]] # None
      BY <1>8, <2>2, <3>2 DEF CatalogueWhole, Placed
    <3> QED BY <3>1, <3>2
  <2>4. \A e \in NamedEditions : editions'[e] # None => works'[workOf'[e]] # None
    <3>1. ASSUME NEW e \in NamedEditions, editions'[e] # editions[e]
          PROVE  works'[workOf'[e]] # None
      BY <1>4, <1>5, <1>7, <1>9, <3>1
    <3>2. ASSUME NEW e \in NamedEditions, editions'[e] = editions[e], editions'[e] # None
          PROVE  works'[workOf'[e]] # None
      BY <1>7, <2>1, <3>2 DEF CatalogueWhole, Placed
    <3> QED BY <3>1, <3>2
  <2>5. \A k \in links' : works'[k[1]] # None
    <3>1. ASSUME NEW k \in links
          PROVE  works'[k[1]] # None
      <4>1. k[1] \in NamedWorks
        OBVIOUS
      <4> QED BY <2>1, <3>1, <4>1 DEF CatalogueWhole
    <3> QED BY <1>1, <1>4, <3>1
  <2>6. \A c \in inUse' : holdings'[c] # None
    BY <1>1, <1>6 DEF CatalogueWhole
  <2>7. \A w \in OldWorks : works'[w] = Old
    BY <1>4, RowsAreNumbers DEF CatalogueWhole, NamedWorks
  <2> QED BY <2>3, <2>4, <2>5, <2>6, <2>7 DEF CatalogueWhole
<1>13. ASSUME NEW r \in ImportRows
       PROVE  /\ MadeWork(r)' /\ ~MadeWork(r) => r \in Makes(S, RowWork, works)
              /\ MadeEdition(r)' /\ ~MadeEdition(r) => r \in Makes(S, RowEdition, editions)
              /\ MadeCopy(r)' /\ ~MadeCopy(r) => r \in Makes(S, RowCopy, holdings)
  BY <1>3, <1>4, <1>5, <1>6 DEF MadeWork, MadeEdition, MadeCopy
<1>14. \A r \in BatchRows(b) : ~MadeWork(r) /\ ~MadeEdition(r) /\ ~MadeCopy(r)
  BY <1>1 DEF CommittedOnce
<1>15. Remembered'
  <2> SUFFICES ASSUME NEW r \in ImportRows
               PROVE  /\ MadeWork(r)' => result'[r].work
                      /\ MadeEdition(r)' => result'[r].edition
                      /\ MadeCopy(r)' => result'[r].copy
    BY DEF Remembered
  <2>1. CASE r \in S
    <3>1. ~MadeWork(r) /\ ~MadeEdition(r) /\ ~MadeCopy(r)
      BY <1>2, <1>14, <2>1
    <3>2. /\ result'[r].work = (r \in Makes(S, RowWork, works))
          /\ result'[r].edition = (r \in Makes(S, RowEdition, editions))
          /\ result'[r].copy = (r \in Makes(S, RowCopy, holdings))
      BY <1>1, <2>1
    <3> QED BY <1>13, <3>1, <3>2
  <2>2. CASE r \notin S
    <3>1. /\ MadeWork(r)' => MadeWork(r)
          /\ MadeEdition(r)' => MadeEdition(r)
          /\ MadeCopy(r)' => MadeCopy(r)
      BY <1>9, <1>13, <2>2
    <3>2. CASE r \in failed
      BY <1>14, <3>1, <3>2
    <3>3. CASE r \notin failed
      BY <1>1, <2>2, <3>1, <3>3 DEF Remembered
    <3> QED BY <3>2, <3>3
  <2> QED BY <2>1, <2>2
<1>16. CommittedOnce'
  <2>1. batchStatus'[b] = "committed" /\ ~validating'[b]
    BY <1>1 DEF CommittedOnce
  <2>2. ASSUME NEW a \in Batches, a # b, NEW r \in BatchRows(a)
        PROVE  /\ MadeWork(r)' => MadeWork(r)
               /\ MadeEdition(r)' => MadeEdition(r)
               /\ MadeCopy(r)' => MadeCopy(r)
    <3>1. r \in ImportRows /\ r \notin S
      BY <1>2, <2>2 DEF BatchRows
    <3> QED BY <1>9, <1>13, <3>1
  <2> QED BY <1>1, <2>1, <2>2 DEF CommittedOnce
<1> QED BY <1>10, <1>11, <1>12, <1>15, <1>16

----------------------------------------------------------------------------
(* A rollback.                                                             *)

\* What a rollback takes away, and that it takes nothing else.
LEMMA RevertEffect ==
  ASSUME ImportsInv, NEW b \in Batches, RevertBatch(b)
  PROVE  /\ works' = [w \in NamedWorks |-> IF w \in GoneWorks(b) THEN None ELSE works[w]]
         /\ editions' = [e \in NamedEditions |->
                           IF e \in GoneEditions(b) THEN None ELSE editions[e]]
         /\ workOf' = [e \in NamedEditions |-> IF e \in GoneEditions(b) THEN None ELSE workOf[e]]
         /\ holdings' = [c \in NamedCopies |-> IF c \in GoneCopies(b) THEN None ELSE holdings[c]]
         /\ editionOf' = [c \in NamedCopies |->
                            IF c \in GoneCopies(b) THEN None ELSE editionOf[c]]
         /\ \A k \in links' : k \in links /\ k[1] \notin GoneWorks(b)
         /\ batchStatus' = [batchStatus EXCEPT ![b] = "rolled_back"]
         /\ Done(b, "reverse")
         /\ UNCHANGED <<validating, result, inUse>>
BY DEF RevertBatch

\* One rollback less is under way, or as many as before.
LEMMA DoneType ==
  ASSUME ImportsTypeOK, NEW b \in Batches, NEW found, Done(b, found)
  PROVE  /\ reverting' \in [Batches -> SUBSET {"cancel", "reverse"}]
         /\ \A a \in Batches : \A f \in reverting[a] \ reverting'[a] : a = b /\ f = found
BY DEF ImportsTypeOK, Done

LEMMA RevertKeeps ==
  ASSUME ImportsInv, NEW b \in Batches, RevertBatch(b)
  PROVE  ImportsInv'
<1> USE DEF ImportsInv, ImportsTypeOK
<1>1. /\ works' = [w \in NamedWorks |-> IF w \in GoneWorks(b) THEN None ELSE works[w]]
      /\ editions' = [e \in NamedEditions |->
                        IF e \in GoneEditions(b) THEN None ELSE editions[e]]
      /\ workOf' = [e \in NamedEditions |-> IF e \in GoneEditions(b) THEN None ELSE workOf[e]]
      /\ holdings' = [c \in NamedCopies |-> IF c \in GoneCopies(b) THEN None ELSE holdings[c]]
      /\ editionOf' = [c \in NamedCopies |->
                         IF c \in GoneCopies(b) THEN None ELSE editionOf[c]]
  BY RevertEffect
<1>2. /\ \A k \in links' : k \in links /\ k[1] \notin GoneWorks(b)
      /\ batchStatus' = [batchStatus EXCEPT ![b] = "rolled_back"]
      /\ reverting' \in [Batches -> SUBSET {"cancel", "reverse"}]
      /\ UNCHANGED <<validating, result, inUse>>
  BY RevertEffect, DoneType
<1>3. ImportsTypeOK'
  BY <1>1, <1>2 DEF Makers, CatalogImportStatus
<1>4. Placed'
  BY <1>1 DEF Placed
<1>5. CatalogueWhole'
  <2>1. \A c \in NamedCopies : holdings'[c] # None => editions'[editionOf'[c]] # None
    <3> SUFFICES ASSUME NEW c \in NamedCopies, holdings'[c] # None
                 PROVE  editions'[editionOf'[c]] # None
      OBVIOUS
    <3>1. c \notin GoneCopies(b) /\ holdings[c] # None /\ editionOf'[c] = editionOf[c]
      BY <1>1
    <3>2. editionOf[c] \in NamedEditions /\ editionOf[c] \notin GoneEditions(b)
      BY <3>1 DEF Placed, GoneEditions
    <3> QED BY <1>1, <3>1, <3>2 DEF CatalogueWhole
  <2>2. \A e \in NamedEditions : editions'[e] # None => works'[workOf'[e]] # None
    <3> SUFFICES ASSUME NEW e \in NamedEditions, editions'[e] # None
                 PROVE  works'[workOf'[e]] # None
      OBVIOUS
    <3>1. e \notin GoneEditions(b) /\ editions[e] # None /\ workOf'[e] = workOf[e]
      BY <1>1
    <3>2. workOf[e] \in NamedWorks /\ workOf[e] \notin GoneWorks(b)
      BY <3>1 DEF Placed, GoneWorks
    <3> QED BY <1>1, <3>1, <3>2 DEF CatalogueWhole
  <2>3. \A k \in links' : works'[k[1]] # None
    <3> SUFFICES ASSUME NEW k \in links' PROVE works'[k[1]] # None
      OBVIOUS
    <3>1. k \in links /\ k[1] \in NamedWorks /\ k[1] \notin GoneWorks(b)
      BY <1>2
    <3> QED BY <1>1, <3>1 DEF CatalogueWhole
  <2>4. \A c \in inUse' : holdings'[c] # None
    BY <1>1, <1>2 DEF CatalogueWhole, GoneCopies
  <2>5. \A w \in OldWorks : works'[w] = Old
    <3>1. \A w \in OldWorks : w \in NamedWorks /\ works[w] = Old
      BY DEF CatalogueWhole, NamedWorks
    <3>2. \A w \in OldWorks : w \notin GoneWorks(b)
      BY <3>1, RowsAreNumbers DEF GoneWorks, BatchRows
    <3> QED BY <1>1, <3>1, <3>2
  <2> QED BY <2>1, <2>2, <2>3, <2>4, <2>5 DEF CatalogueWhole
<1>6. ASSUME NEW r \in ImportRows
      PROVE  /\ MadeWork(r)' => MadeWork(r)
             /\ MadeEdition(r)' => MadeEdition(r)
             /\ MadeCopy(r)' => MadeCopy(r)
  <2>1. RowWork[r] \in NamedWorks /\ RowEdition[r] \in NamedEditions /\ r # None
        /\ (RowCopy[r] # None => RowCopy[r] \in NamedCopies)
    BY RowsAreNumbers DEF NamedWorks, NamedEditions, NamedCopies
  <2> QED BY <1>1, <2>1 DEF MadeWork, MadeEdition, MadeCopy
<1>7. Remembered'
  BY <1>2, <1>6 DEF Remembered
<1>8. CommittedOnce'
  <2>1. \A a \in Batches : BatchRows(a) \subseteq ImportRows
    BY DEF BatchRows
  <2>2. \A a \in Batches : batchStatus'[a] = IF a = b THEN "rolled_back" ELSE batchStatus[a]
    BY <1>2
  <2> QED BY <1>2, <1>6, <2>1, <2>2 DEF CommittedOnce
<1> QED BY <1>3, <1>4, <1>5, <1>7, <1>8

\* What is left of a batch after its rollback, somebody else needs.
LEMMA RevertReverses ==
  ASSUME ImportsInv, NEW b \in Batches, RevertBatch(b)
  PROVE  Reverted(b)'
<1> USE DEF ImportsInv, ImportsTypeOK
<1>1. /\ works' = [w \in NamedWorks |-> IF w \in GoneWorks(b) THEN None ELSE works[w]]
      /\ editions' = [e \in NamedEditions |->
                        IF e \in GoneEditions(b) THEN None ELSE editions[e]]
      /\ workOf' = [e \in NamedEditions |-> IF e \in GoneEditions(b) THEN None ELSE workOf[e]]
      /\ holdings' = [c \in NamedCopies |-> IF c \in GoneCopies(b) THEN None ELSE holdings[c]]
      /\ editionOf' = [c \in NamedCopies |->
                         IF c \in GoneCopies(b) THEN None ELSE editionOf[c]]
      /\ UNCHANGED inUse
  BY RevertEffect
<1> SUFFICES ASSUME NEW r \in BatchRows(b)
             PROVE  /\ MadeCopy(r)' => RowCopy[r] \in inUse'
                    /\ MadeEdition(r)' =>
                         \E c \in NamedCopies : holdings'[c] # None /\ editionOf'[c] = RowEdition[r]
                    /\ MadeWork(r)' =>
                         \E e \in NamedEditions : editions'[e] # None /\ workOf'[e] = RowWork[r]
  BY DEF Reverted, MadeCopy, MadeEdition, MadeWork
<1>2. /\ r \in ImportRows /\ r # None /\ RowWork[r] \in NamedWorks
      /\ RowEdition[r] \in NamedEditions
      /\ RowCopy[r] # None => RowCopy[r] \in NamedCopies
  BY RowsAreNumbers DEF BatchRows, NamedWorks, NamedEditions, NamedCopies
<1>3. ASSUME MadeCopy(r)'
      PROVE  RowCopy[r] \in inUse'
  <2>1. RowCopy[r] \notin GoneCopies(b) /\ MadeCopy(r)
    BY <1>1, <1>2, <1>3 DEF MadeCopy
  <2> QED BY <1>1, <1>2, <2>1 DEF Remembered, MadeCopy, GoneCopies
<1>4. ASSUME MadeEdition(r)'
      PROVE  \E c \in NamedCopies : holdings'[c] # None /\ editionOf'[c] = RowEdition[r]
  <2>1. RowEdition[r] \notin GoneEditions(b) /\ MadeEdition(r)
    BY <1>1, <1>2, <1>4 DEF MadeEdition
  <2>2. PICK c \in NamedCopies \ GoneCopies(b) : holdings[c] # None /\ editionOf[c] = RowEdition[r]
    BY <1>2, <2>1 DEF Remembered, MadeEdition, GoneEditions
  <2> QED BY <1>1, <2>2
<1>5. ASSUME MadeWork(r)'
      PROVE  \E e \in NamedEditions : editions'[e] # None /\ workOf'[e] = RowWork[r]
  <2>1. RowWork[r] \notin GoneWorks(b) /\ MadeWork(r)
    BY <1>1, <1>2, <1>5 DEF MadeWork
  <2>2. PICK e \in NamedEditions \ GoneEditions(b) : editions[e] # None /\ workOf[e] = RowWork[r]
    BY <1>2, <2>1 DEF Remembered, MadeWork, GoneWorks
  <2> QED BY <1>1, <2>2
<1> QED BY <1>3, <1>4, <1>5

----------------------------------------------------------------------------
(* The theorems.                                                           *)

\* The steps that change no record of the catalogue.
LEMMA StatusKeeps ==
  ASSUME ImportsInv, NEW b \in Batches,
         Stage(b) \/ ValidateBatch(b) \/ ReadBatch(b) \/ CancelBatch(b)
  PROVE  ImportsInv'
<1> USE DEF ImportsInv
<1>1. UNCHANGED <<result, works, editions, workOf, holdings, editionOf, links, inUse>>
  BY DEF Stage, ValidateBatch, ReadBatch, CancelBatch, catalogueVars
<1>2. ImportsTypeOK'
  <2>1. reverting' \in [Batches -> SUBSET {"cancel", "reverse"}]
    BY DoneType DEF ImportsTypeOK, Stage, ValidateBatch, ReadBatch, CancelBatch
  <2> QED BY <1>1, <2>1
          DEF ImportsTypeOK, CatalogImportStatus, Stage, ValidateBatch, ReadBatch, CancelBatch
<1>3. Placed' /\ CatalogueWhole' /\ Remembered'
  BY <1>1 DEF Placed, CatalogueWhole, Remembered, MadeWork, MadeEdition, MadeCopy
<1>4. \A a \in Batches :
        /\ batchStatus'[a] \in {"validated", "committed"} => ~validating'[a]
        /\ batchStatus'[a] \in {"absent", "staged", "validated"} \/ validating'[a] =>
             batchStatus[a] \in {"absent", "staged", "validated"} \/ validating[a]
  BY DEF ImportsTypeOK, CommittedOnce, Stage, ValidateBatch, ReadBatch, CancelBatch
<1>5. CommittedOnce'
  BY <1>1, <1>4 DEF CommittedOnce, MadeWork, MadeEdition, MadeCopy
<1> QED BY <1>2, <1>3, <1>5

LEMMA ImportsStep == ImportsInv /\ [ImportsNext]_importVars => ImportsInv'
<1> SUFFICES ASSUME ImportsInv, [ImportsNext]_importVars
             PROVE  ImportsInv'
  OBVIOUS
<1>1. ASSUME NEW c \in NamedCopies, UseCopy(c)
      PROVE  ImportsInv'
  BY <1>1 DEF UseCopy, batchVars, catalogueVars, ImportsInv, ImportsTypeOK, Placed,
              CatalogueWhole, Remembered, CommittedOnce, MadeWork, MadeEdition, MadeCopy
<1>2. CASE UNCHANGED importVars
  BY <1>2 DEF importVars, batchVars, catalogueVars, ImportsInv, ImportsTypeOK, Placed,
              CatalogueWhole, Remembered, CommittedOnce, MadeWork, MadeEdition, MadeCopy
<1> QED BY <1>1, <1>2, CommitKeeps, RevertKeeps, StatusKeeps DEF ImportsNext

\* The invariant that the two theorems below rest on.
THEOREM ImportsHold == ImportsSpec => []ImportsInv
<1> QED BY ImportsFirst, ImportsStep, PTL DEF ImportsSpec

\* Whatever batches imports.py commits and rolls back, in whatever order and
\* whichever of their rows fail, every copy has its edition, every edition and
\* link its work, no copy with a history is lost, and no old work.
THEOREM StaysWhole == ImportsSpec => []CatalogueWhole
<1>1. ImportsInv => CatalogueWhole
  BY DEF ImportsInv
<1> QED BY <1>1, ImportsHold, PTL

\* rollback_import of a batch that it found committed leaves nothing of it but
\* what somebody else needs by then.
THEOREM RollbackIsWhole == ImportsSpec => RollbackReverses
<1>1. ImportsInv /\ [ImportsNext]_importVars =>
        [\A b \in Batches : "reverse" \in reverting[b] \ reverting'[b]
                              => Reverted(b)']_importVars
  <2> SUFFICES ASSUME ImportsInv, ImportsNext, NEW b \in Batches,
                      "reverse" \in reverting[b] \ reverting'[b]
               PROVE  Reverted(b)'
    OBVIOUS
  <2>1. ASSUME NEW a \in Batches, Stage(a) \/ ValidateBatch(a) \/ ReadBatch(a)
                                  \/ \E failed \in SUBSET BatchRows(a) : CommitBatch(a, failed)
        PROVE  reverting[b] \subseteq reverting'[b]
    <3>1. CASE ReadBatch(a)
      BY <3>1 DEF ReadBatch, ImportsInv, ImportsTypeOK
    <3>2. CASE reverting' = reverting
      BY <3>2
    <3> QED BY <2>1, <3>1, <3>2 DEF Stage, ValidateBatch, CommitBatch
  <2>2. ASSUME NEW a \in Batches, CancelBatch(a)
        PROVE  "reverse" \notin reverting[b] \ reverting'[b]
    BY <2>2, DoneType DEF CancelBatch, ImportsInv
  <2>3. ASSUME NEW a \in Batches, RevertBatch(a)
        PROVE  a = b
    BY <2>3, DoneType DEF RevertBatch, ImportsInv
  <2>4. ASSUME NEW c \in NamedCopies, UseCopy(c)
        PROVE  reverting' = reverting
    BY <2>4 DEF UseCopy, batchVars
  <2>5. PICK a \in Batches : RevertBatch(a)
    BY <2>1, <2>2, <2>4 DEF ImportsNext
  <2> QED BY <2>3, <2>5, RevertReverses
<1> QED BY <1>1, ImportsHold, PTL DEF ImportsSpec, RollbackReverses
=============================================================================

-------------------------- MODULE Numbering_proofs --------------------------
(***************************************************************************)
(* Theorems about Numbering for every set of sites, names, invoiced        *)
(* subjects and requests, and every overlap of their handlers.             *)
(***************************************************************************)
EXTENDS Numbering, FiniteSetTheorems, TLAPS

-----------------------------------------------------------------------------
(* Type correctness *)

LEMMA NameType ==
    ASSUME NumberingTypeOK, NEW s \in Sites, NEW k \in Nat \ {0}
    PROVE  NumberOf(s, k) \in Number
BY NumberingAssumption DEF NumberingTypeOK, NumberOf, Number, Prefixes

LEMMA SlotKinds ==
    ASSUME NEW slot \in Request
    PROVE  /\ slot.kind = "checked" => slot \in CheckedReq
           /\ slot.kind = "numbered" => slot \in NumberedReq
           /\ slot.kind \in {"checked", "numbered"} =>
                slot.subject \in Subjects /\ SiteOf[slot.subject] \in Sites
BY NumberingAssumption DEF Request, Idle, CheckedReq, NumberedReq

\* TakeNumber gives the handler NumberOf of the next place in the series.
LEMMA TakenNumber ==
    ASSUME NumberingTypeOK, NEW q \in Requests, TakeNumber(q)
    PROVE  /\ requests[q] \in CheckedReq
           /\ \E k \in Nat \ {0} :
                Use(q, NumberOf(SiteOf[requests[q].subject], k))
<1> DEFINE s == SiteOf[requests[q].subject]
           series == Series(s, Prefix[siteName[s]], year)
<1>1. requests[q] \in CheckedReq
  BY SlotKinds DEF NumberingTypeOK, TakeNumber
<1>2. CASE series = {} /\ Use(q, NumberOf(s, 1))
  BY <1>1, <1>2
<1>3. ASSUME NEW i \in series, Use(q, NumberOf(s, i.number.sequence + 1))
      PROVE  \E k \in Nat \ {0} : Use(q, NumberOf(s, k))
  <2>1. i.number.sequence + 1 \in Nat \ {0}
    BY DEF Series, NumberingTypeOK, Invoice, Number
  <2> QED BY <1>3, <2>1
<1> QED BY <1>1, <1>2, <1>3 DEF TakeNumber

LEMMA NextType == NumberingTypeOK /\ [Next]_vars => NumberingTypeOK'
<1> SUFFICES ASSUME NumberingTypeOK, [Next]_vars PROVE NumberingTypeOK'
  OBVIOUS
<1>1. ASSUME NEW q \in Requests, NEW x \in Subjects, BeginGenerate(q, x)
      PROVE  NumberingTypeOK'
  BY <1>1 DEF BeginGenerate, NumberingTypeOK, Request, CheckedReq
<1>2. ASSUME NEW q \in Requests, TakeNumber(q) PROVE NumberingTypeOK'
  <2>1. PICK k \in Nat \ {0} : Use(q, NumberOf(SiteOf[requests[q].subject], k))
    BY <1>2, TakenNumber
  <2>2. requests[q] \in CheckedReq
    BY <1>2, TakenNumber
  <2>3. NumberOf(SiteOf[requests[q].subject], k) \in Number
    BY <2>2, NameType, NumberingAssumption DEF CheckedReq
  <2>4. requests' \in [Requests -> Request]
    BY <2>1, <2>2, <2>3 DEF Use, NumberingTypeOK, Request, CheckedReq, NumberedReq
  <2> QED BY <1>2, <2>4 DEF TakeNumber, NumberingTypeOK
<1>3. ASSUME NEW q \in Requests, CreateInvoice(q) PROVE NumberingTypeOK'
  <2>1. requests[q] \in NumberedReq
    BY <1>3, SlotKinds DEF CreateInvoice, NumberingTypeOK
  <2>2. invoices' \in SUBSET Invoice
    BY <1>3, <2>1, NumberingAssumption
    DEF CreateInvoice, NumberingTypeOK, Invoice, NumberedReq
  <2> QED BY <1>3, <2>2 DEF CreateInvoice, NumberingTypeOK, Request
<1>4. ASSUME NEW q \in Requests, RollBack(q) PROVE NumberingTypeOK'
  BY <1>4 DEF RollBack, NumberingTypeOK, Request
<1>5. ASSUME NEW s \in Sites, NEW n \in Names, Rename(s, n) PROVE NumberingTypeOK'
  BY <1>5 DEF Rename, NumberingTypeOK
<1>6. CASE NewYear
  BY <1>6, NumberingAssumption DEF NewYear, NumberingTypeOK, Years
<1>7. CASE UNCHANGED vars
  BY <1>7 DEF vars, NumberingTypeOK
<1> QED BY <1>1, <1>2, <1>3, <1>4, <1>5, <1>6, <1>7 DEF Next, Generate

LEMMA InitType == Init => NumberingTypeOK
BY NumberingAssumption DEF Init, NumberingTypeOK, Years, Request

\* Every reachable state is well typed: numbers count from 1, whatever is
\* renamed or rolled back (generateInvoiceNumberSafe, invoices.service.ts:437).
THEOREM TypeCorrect == Spec => []NumberingTypeOK
BY InitType, NextType, PTL DEF Spec

-----------------------------------------------------------------------------
(* The numbers of a prefix and a year                                      *)

\* Names of different sites never give the same prefix.
PrefixesApart ==
    \A s, t \in Sites : s # t =>
        \A m \in NamesOf[s], n \in NamesOf[t] : Prefix[m] # Prefix[n]

\* A prefix that a name of the site gives.
OfSite(s, prefix) == \E n \in NamesOf[s] : prefix = Prefix[n]

NamesKept ==
    /\ \A s \in Sites : siteName[s] \in NamesOf[s]
    /\ \A i \in invoices : i.createdAt <= clock /\ OfSite(i.site, i.number.prefix)

Family(n) == {i \in invoices : i.number.prefix = n.prefix /\ i.number.year = n.year}

Numbered(q) == requests[q].kind = "numbered"

\* A handler that has a number holds the row of its site and is about to
\* append to the numbers of the prefix.
SlotsAppend ==
    \A q \in Requests : Numbered(q) =>
        /\ OfSite(SiteOf[requests[q].subject], requests[q].number.prefix)
        /\ requests[q].number.sequence = Cardinality(Family(requests[q].number)) + 1
        /\ \A p \in Requests : Numbered(p) /\ p # q =>
              SiteOf[requests[p].subject] # SiteOf[requests[q].subject]

Inv ==
    /\ NumberingTypeOK
    /\ IsFiniteSet(invoices)
    /\ NamesKept
    /\ Consecutive
    /\ SlotsAppend

LEMMA InitInv == Init => Inv
BY InitType, FS_EmptySet DEF Init, Inv, NamesKept, Consecutive, SlotsAppend, Idle, Numbered

\* The number a handler holds is greater than the numbers of its prefix.
LEMMA NumberAbove ==
    ASSUME Inv, NEW q \in Requests, Numbered(q), NEW i \in Family(requests[q].number)
    PROVE  i.number.sequence < requests[q].number.sequence
<1> DEFINE F == Family(requests[q].number)
           U == {j \in invoices :
                    /\ j.number.prefix = i.number.prefix /\ j.number.year = i.number.year
                    /\ j.createdAt <= i.createdAt}
<1>1. IsFiniteSet(F) /\ IsFiniteSet(invoices)
  BY FS_Subset DEF Inv, Family
<1>2. U \in SUBSET F
  BY DEF Family
<1>3. Cardinality(U) <= Cardinality(F) /\ Cardinality(U) \in Nat /\ Cardinality(F) \in Nat
  BY <1>1, <1>2, FS_Subset, FS_CardinalityType
<1>4. i.number.sequence = Cardinality(U)
  BY DEF Family, Inv, Consecutive
<1>5. requests[q].number.sequence = Cardinality(F) + 1
  BY DEF Inv, SlotsAppend
<1> QED BY <1>3, <1>4, <1>5

LEMMA FreeNumber == Inv => NumberIsFree
<1> SUFFICES ASSUME Inv, NEW q \in Requests, requests[q].kind = "numbered",
                    NEW i \in invoices, i.number = requests[q].number
             PROVE  FALSE
  BY DEF NumberIsFree, Taken
<1>1. i \in Family(requests[q].number)
  BY DEF Family
<1>2. i.number.sequence < requests[q].number.sequence
  BY <1>1, NumberAbove DEF Numbered
<1>3. i.number.sequence \in Nat
  BY DEF Inv, NumberingTypeOK, Invoice, Number
<1> QED BY <1>2, <1>3

\* All invoices with a prefix of a site are invoices of the site, so what
\* TakeNumber finds is the whole family.
LEMMA SeriesIsFamily ==
    ASSUME PrefixesApart, Inv, NEW s \in Sites, NEW k
    PROVE  Series(s, Prefix[siteName[s]], year) = Family(NumberOf(s, k))
<1>1. ASSUME NEW i \in invoices, i.number.prefix = Prefix[siteName[s]]
      PROVE  i.site = s
  BY <1>1 DEF PrefixesApart, Inv, NamesKept, OfSite, NumberingTypeOK, Invoice
<1> QED BY <1>1 DEF Series, Family, NumberOf

\* The number that TakeNumber computes is the next of the family.
LEMMA TakesNext ==
    ASSUME PrefixesApart, Inv, NEW q \in Requests, TakeNumber(q)
    PROVE  LET s == SiteOf[requests[q].subject] IN
           \E k \in Nat : /\ Use(q, NumberOf(s, k))
                          /\ k = Cardinality(Family(NumberOf(s, k))) + 1
<1> DEFINE s == SiteOf[requests[q].subject]
           series == Series(s, Prefix[siteName[s]], year)
<1>1. s \in Sites
  BY SlotKinds DEF Inv, NumberingTypeOK, TakeNumber
<1>2. \A k : series = Family(NumberOf(s, k))
  BY <1>1, SeriesIsFamily
<1>3. CASE series = {} /\ Use(q, NumberOf(s, 1))
  <2>1. Cardinality(Family(NumberOf(s, 1))) = 0
    BY <1>2, <1>3, FS_EmptySet
  <2> QED BY <1>3, <2>1
<1>4. ASSUME NEW i \in series, IsLast(i, series), Use(q, NumberOf(s, i.number.sequence + 1))
      PROVE  \E k \in Nat : /\ Use(q, NumberOf(s, k))
                            /\ k = Cardinality(Family(NumberOf(s, k))) + 1
  <2> DEFINE U == {j \in invoices :
                      /\ j.number.prefix = i.number.prefix /\ j.number.year = i.number.year
                      /\ j.createdAt <= i.createdAt}
             k == i.number.sequence + 1
  <2>1. i \in invoices /\ i.number.prefix = Prefix[siteName[s]] /\ i.number.year = year
    BY DEF Series
  <2>2. U = Family(NumberOf(s, k))
    <3>1. \A j \in Family(NumberOf(s, k)) : j \in series
      BY <1>2
    <3>2. \A j \in Family(NumberOf(s, k)) : j.createdAt <= i.createdAt
      BY <1>4, <3>1 DEF IsLast
    <3> QED BY <2>1, <3>2 DEF Family, NumberOf
  <2>3. i.number.sequence = Cardinality(U)
    BY <2>1 DEF Inv, Consecutive
  <2>4. i.number.sequence \in Nat
    BY <2>1 DEF Inv, NumberingTypeOK, Invoice, Number
  <2>5. Cardinality(Family(NumberOf(s, k))) = i.number.sequence
    BY <2>2, <2>3
  <2>6. k \in Nat /\ k = Cardinality(Family(NumberOf(s, k))) + 1
    <3> HIDE DEF s
    <3> QED BY <2>4, <2>5
  <2> QED BY <1>4, <2>6
<1> QED BY <1>3, <1>4 DEF TakeNumber

\* A step that changes no invoice and no name, and gives nobody a number,
\* keeps the invariant.
LEMMA NothingNumbered ==
    ASSUME Inv, NumberingTypeOK', invoices' = invoices, clock' = clock,
           siteName' = siteName,
           \A p \in Requests : Numbered(p)' => requests'[p] = requests[p]
    PROVE  Inv'
<1>1. \A p \in Requests : Numbered(p)' => requests'[p] = requests[p] /\ Numbered(p)
  BY DEF Numbered
<1>2. ASSUME NEW p \in Requests, Numbered(p)'
      PROVE  /\ OfSite(SiteOf[requests'[p].subject], requests'[p].number.prefix)
             /\ requests'[p].number.sequence = Cardinality(Family(requests'[p].number)) + 1
             /\ \A o \in Requests : Numbered(o)' /\ o # p =>
                   SiteOf[requests'[o].subject] # SiteOf[requests'[p].subject]
  BY <1>1, <1>2 DEF Inv, SlotsAppend
<1>3. SlotsAppend'
  BY <1>2 DEF SlotsAppend, Family, OfSite
<1> QED BY <1>3 DEF Inv, NamesKept, Consecutive, OfSite

LEMMA TakeInv ==
    ASSUME PrefixesApart, Inv, NumberingTypeOK', NEW q \in Requests, TakeNumber(q)
    PROVE  Inv'
<1> DEFINE s == SiteOf[requests[q].subject]
<1>1. PICK k \in Nat : /\ Use(q, NumberOf(s, k))
                       /\ k = Cardinality(Family(NumberOf(s, k))) + 1
  BY TakesNext
<1>2. s \in Sites
  BY SlotKinds DEF Inv, NumberingTypeOK, TakeNumber
<1>3. UNCHANGED <<invoices, siteName, clock>>
  BY DEF TakeNumber
<1>4. /\ requests'[q].kind = "numbered"
      /\ requests'[q].subject = requests[q].subject
      /\ requests'[q].number = NumberOf(s, k)
  BY <1>1 DEF Use, Inv, NumberingTypeOK
<1>5. \A p \in Requests : p # q => requests'[p] = requests[p]
  BY <1>1 DEF Use, Inv, NumberingTypeOK
<1>6. \A p \in Requests : Numbered(p) => SiteOf[requests[p].subject] # s
  BY DEF TakeNumber, RowFree, Numbered
<1>7. OfSite(s, NumberOf(s, k).prefix)
  BY <1>2 DEF Inv, NamesKept, OfSite, NumberOf
<1>8. NumberOf(s, k).sequence = Cardinality(Family(NumberOf(s, k))) + 1
  BY <1>1 DEF NumberOf
<1> HIDE DEF s
<1>9. ASSUME NEW p \in Requests, Numbered(p)'
      PROVE  /\ OfSite(SiteOf[requests'[p].subject], requests'[p].number.prefix)
             /\ requests'[p].number.sequence = Cardinality(Family(requests'[p].number)) + 1
             /\ \A o \in Requests : Numbered(o)' /\ o # p =>
                   SiteOf[requests'[o].subject] # SiteOf[requests'[p].subject]
  <2>1. CASE p = q
    BY <1>4, <1>5, <1>6, <1>7, <1>8, <2>1 DEF Numbered, s
  <2>2. CASE p # q
    <3>1. requests'[p] = requests[p] /\ Numbered(p)
      BY <1>5, <1>9, <2>2 DEF Numbered
    <3>2. SiteOf[requests'[q].subject] # SiteOf[requests'[p].subject]
      BY <1>4, <1>6, <3>1 DEF s
    <3>3. \A o \in Requests : Numbered(o)' /\ o # p /\ o # q =>
              SiteOf[requests'[o].subject] # SiteOf[requests'[p].subject]
      BY <1>5, <3>1 DEF Inv, SlotsAppend, Numbered
    <3> QED BY <3>1, <3>2, <3>3 DEF Inv, SlotsAppend
  <2> QED BY <2>1, <2>2
<1>10. SlotsAppend'
  BY <1>3, <1>9 DEF SlotsAppend, Family, OfSite
<1> QED BY <1>3, <1>10 DEF Inv, NamesKept, Consecutive, OfSite

LEMMA CreateInv ==
    ASSUME PrefixesApart, Inv, NumberingTypeOK', NEW q \in Requests, CreateInvoice(q)
    PROVE  Inv'
<1> DEFINE n == requests[q].number
           new == [subject |-> requests[q].subject, site |-> SiteOf[requests[q].subject],
                   number |-> n, createdAt |-> clock + 1]
           UpTo(i, S) == {j \in S :
                /\ j.number.prefix = i.number.prefix /\ j.number.year = i.number.year
                /\ j.createdAt <= i.createdAt}
<1>1. requests[q] \in NumberedReq /\ Numbered(q) /\ SiteOf[requests[q].subject] \in Sites
  BY SlotKinds DEF CreateInvoice, Inv, NumberingTypeOK, Numbered
<1>2. invoices' = invoices \cup {new} /\ clock' = clock + 1 /\ siteName' = siteName
  BY DEF CreateInvoice
<1>3. clock \in Nat /\ \A i \in invoices : i.createdAt \in Nat /\ i.createdAt <= clock
  BY DEF Inv, NumberingTypeOK, NamesKept, Invoice
<1>4. new \notin invoices
  BY <1>3
<1>5. IsFiniteSet(invoices) /\ IsFiniteSet(invoices')
  BY <1>2, FS_AddElement DEF Inv
<1>6. NamesKept'
  BY <1>1, <1>2, <1>3 DEF NamesKept, OfSite, Inv, SlotsAppend
<1>7. Consecutive'
  <2>1. ASSUME NEW i \in invoices
        PROVE  UpTo(i, invoices') = UpTo(i, invoices)
    BY <1>2, <1>3
  <2>2. UpTo(new, invoices') = Family(n) \cup {new}
    BY <1>2, <1>3 DEF Family
  <2>3. Cardinality(Family(n) \cup {new}) = Cardinality(Family(n)) + 1
    BY <1>4, <1>5, FS_Subset, FS_AddElement DEF Family
  <2>4. n.sequence = Cardinality(UpTo(new, invoices'))
    BY <1>1, <2>2, <2>3 DEF Inv, SlotsAppend
  <2>5. \A i \in invoices : i.number.sequence = Cardinality(UpTo(i, invoices))
    BY DEF Inv, Consecutive
  <2>6. \A i \in invoices' : i.number.sequence = Cardinality(UpTo(i, invoices'))
    BY <1>2, <2>1, <2>4, <2>5
  <2> QED BY <2>6 DEF Consecutive
<1>8. SlotsAppend'
  <2>1. ~Numbered(q)' /\ \A p \in Requests : p # q => requests'[p] = requests[p]
    BY DEF CreateInvoice, Numbered, Idle, Inv, NumberingTypeOK
  <2>2. ASSUME NEW p \in Requests, p # q, Numbered(p)
        PROVE  Family(requests[p].number)' = Family(requests[p].number)
    <3>1. requests[p].number.prefix # n.prefix
      <4>1. SiteOf[requests[p].subject] # SiteOf[requests[q].subject]
        BY <1>1, <2>2 DEF Inv, SlotsAppend
      <4>2. SiteOf[requests[p].subject] \in Sites
        BY <2>2, SlotKinds DEF Inv, NumberingTypeOK, Numbered
      <4>3. /\ OfSite(SiteOf[requests[p].subject], requests[p].number.prefix)
            /\ OfSite(SiteOf[requests[q].subject], n.prefix)
        BY <1>1, <2>2 DEF Inv, SlotsAppend
      <4> QED BY <1>1, <4>1, <4>2, <4>3 DEF PrefixesApart, OfSite
    <3>2. requests'[p] = requests[p]
      BY <2>1, <2>2
    <3> QED BY <1>2, <3>1, <3>2 DEF Family
  <2>3. ASSUME NEW p \in Requests, Numbered(p)'
        PROVE  /\ OfSite(SiteOf[requests'[p].subject], requests'[p].number.prefix)
               /\ requests'[p].number.sequence = Cardinality(Family(requests[p].number)') + 1
               /\ requests'[p] = requests[p]
               /\ \A o \in Requests : Numbered(o)' /\ o # p =>
                     SiteOf[requests'[o].subject] # SiteOf[requests'[p].subject]
    <3>1. p # q /\ requests'[p] = requests[p] /\ Numbered(p)
      BY <2>1, <2>3 DEF Numbered
    <3>2. \A o \in Requests : Numbered(o)' => requests'[o] = requests[o] /\ Numbered(o)
      BY <2>1 DEF Numbered
    <3> QED BY <2>2, <3>1, <3>2 DEF Inv, SlotsAppend
  <2> QED BY <2>3 DEF SlotsAppend, Family, OfSite
<1> QED BY <1>5, <1>6, <1>7, <1>8 DEF Inv

LEMMA NextInv == PrefixesApart /\ Inv /\ [Next]_vars => Inv'
<1> SUFFICES ASSUME PrefixesApart, Inv, [Next]_vars PROVE Inv'
  OBVIOUS
<1>1. NumberingTypeOK' /\ NumberingTypeOK
  BY NextType DEF Inv
<1>2. ASSUME NEW q \in Requests, NEW x \in Subjects, BeginGenerate(q, x) PROVE Inv'
  BY <1>1, <1>2, NothingNumbered DEF BeginGenerate, Numbered, NumberingTypeOK
<1>3. ASSUME NEW q \in Requests, RollBack(q) PROVE Inv'
  BY <1>1, <1>3, NothingNumbered DEF RollBack, Numbered, Idle, NumberingTypeOK
<1>4. ASSUME NEW s \in Sites, NEW n \in Names, Rename(s, n) PROVE Inv'
  <2>1. NamesKept'
    BY <1>1, <1>4 DEF Rename, Inv, NamesKept, OfSite, NumberingTypeOK
  <2>2. SlotsAppend'
    BY <1>4 DEF Rename, Inv, SlotsAppend, Numbered, Family, OfSite
  <2> QED BY <1>1, <1>4, <2>1, <2>2 DEF Rename, Inv, Consecutive
<1>5. CASE NewYear
  BY <1>1, <1>5, NothingNumbered DEF NewYear, Numbered
<1>6. CASE UNCHANGED vars
  BY <1>1, <1>6, NothingNumbered DEF vars, Numbered
<1> QED BY <1>1, <1>2, <1>3, <1>4, <1>5, <1>6, TakeInv, CreateInv DEF Next, Generate

\* Whoever generates invoices, renames sites or rolls back, the number a
\* handler holds is taken by no invoice (the row lock of invoices.service.ts:447),
\* when the names of different sites never give the same prefix.
THEOREM NumbersAreFree ==
    ASSUME PrefixesApart
    PROVE  Spec => []NumberIsFree
BY InitInv, NextInv, FreeNumber, PTL DEF Spec

\* Under the same assumption the invoices with one prefix of a year are
\* numbered 1, 2, 3, ... in the order they were created
\* (invoices.service.ts:461-483).
THEOREM NumbersAreConsecutive ==
    ASSUME PrefixesApart
    PROVE  Spec => []Consecutive
<1>1. Inv => Consecutive
  BY DEF Inv
<1> QED BY <1>1, InitInv, NextInv, PTL DEF Spec

=============================================================================

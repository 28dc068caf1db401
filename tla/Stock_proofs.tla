---------------------------- MODULE Stock_proofs ----------------------------
(***************************************************************************)
(* Theorems about Inventory for every set of products, rooms and requests, *)
(* and about Orders on top of it: Orders implements Inventory, so that     *)
(* what is proved of the stock services alone holds under order handling   *)
(* as well.                                                                *)
(***************************************************************************)
EXTENDS Orders, Sums, TLAPS

\* The kind of a slot tells what the slot holds.
LEMMA SlotKinds ==
    ASSUME NEW q \in Request
    PROVE  /\ q.kind = "record" => q \in RecordReq
           /\ q.kind = "revert" => q \in RevertReq
           /\ q.kind = "adjust" => q \in AdjustReq
           /\ q.kind = "create" => q \in CreateReq
           /\ q.kind \in {"patch", "update"} => q \in UpdateReq
           /\ q.kind = "remove" => q \in RemoveReq
           /\ q.kind = "roomUpdate" => q \in RoomReq
           /\ q.kind = "roomRemove" => q \in CloseReq
BY DEF Request, Idle, RecordReq, RevertReq, AdjustReq, CreateReq, UpdateReq, RemoveReq,
       RoomReq, CloseReq

\* A step that only fills the slot of a handler.
Starts(r, slot) ==
    /\ requests' = [requests EXCEPT ![r] = slot]
    /\ UNCHANGED <<productVars, roomVars, movements, offLedger>>

LEMMA BeginStarts ==
    ASSUME NEW r, NEW slot, Begin(r, slot)
    PROVE  Starts(r, slot)
BY DEF Begin, Starts

\* What the check of a PATCH does to its slot.
Checked(q) == [q EXCEPT !.kind = "update"]

LEMMA CheckedSlot ==
    ASSUME TypeOK, NEW r \in Requests, CheckUpdate(r)
    PROVE  /\ requests[r] \in UpdateReq /\ requests[r].kind = "patch"
           /\ Checked(requests[r]) \in UpdateReq
           /\ Checked(requests[r]).kind = "update"
           /\ Checked(requests[r]).product = requests[r].product
           /\ Checked(requests[r]).toRoom = requests[r].toRoom
           /\ Checked(requests[r]).toSite = requests[r].toSite
           /\ Checked(requests[r]).toKg = requests[r].toKg
           /\ Checked(requests[r]).seenQty = requests[r].seenQty
           /\ Checked(requests[r]).seenRoom = requests[r].seenRoom
           /\ Checked(requests[r]).seenSite = requests[r].seenSite
           /\ Starts(r, Checked(requests[r]))
<1>1. requests[r] \in UpdateReq /\ requests[r].kind = "patch"
  BY SlotKinds DEF CheckUpdate, TypeOK
<1>2. requests' = [requests EXCEPT ![r] = Checked(requests[r])]
  BY DEF CheckUpdate, Checked, TypeOK
<1>3. Starts(r, Checked(requests[r]))
  BY <1>2 DEF CheckUpdate, Starts
<1> QED BY <1>1, <1>3 DEF Checked, UpdateReq

\* The signed weight of a movement is an integer.
LEMMA SignedType ==
    ASSUME NEW kg \in Nat, NEW type \in Types
    PROVE  Signed(kg, type) \in Int
BY DEF Signed, Types

\* Overwriting or shifting one weight leaves a table of integers.
LEMMA Overwritten ==
    ASSUME NEW S, NEW f \in [S -> Int], NEW x, NEW v \in Int
    PROVE  [f EXCEPT ![x] = v] \in [S -> Int]
OBVIOUS

LEMMA ShiftedEntry ==
    ASSUME NEW S, NEW f \in [S -> Int], NEW x \in S, NEW v \in Int
    PROVE  [f EXCEPT ![x] = @ + v] \in [S -> Int]
OBVIOUS

LEMMA RelievedEntry ==
    ASSUME NEW S, NEW f \in [S -> Int], NEW x \in S, NEW v \in Int
    PROVE  [f EXCEPT ![x] = @ - v] \in [S -> Int]
OBVIOUS

LEMMA OppositeType ==
    ASSUME NEW type \in Types
    PROVE  Opposite(type) \in Types
BY DEF Opposite, Types

\* A movement row booked with well-typed fields keeps the table well-typed.
LEMMA PostType ==
    ASSUME TypeOK, NEW p \in Products, NEW m \in Rooms, NEW kg \in Nat,
           NEW type \in Types, Post(p, m, kg, type)
    PROVE  movements' \in Seq(Movement)
<1>1. [product |-> p, room |-> m, kg |-> kg, type |-> type] \in Movement
  BY DEF Movement
<1> QED BY <1>1 DEF Post, TypeOK

\* A slot that receives a well-typed request changes nothing else.
LEMMA BeginType ==
    ASSUME TypeOK, NEW r \in Requests, NEW slot \in Request, Starts(r, slot)
    PROVE  TypeOK'
BY DEF Starts, TypeOK, productVars, roomVars

LEMMA FinishType ==
    ASSUME TypeOK, NEW r, Finish(r)
    PROVE  requests' \in [Requests -> Request]
BY DEF Finish, TypeOK, Request

-----------------------------------------------------------------------------
(* Type correctness *)

LEMMA InitType == Init => TypeOK
BY SetsAssumption, SeedAssumption DEF Init, TypeOK, Lives, Request, Movement

LEMMA BeginRecordType ==
    ASSUME TypeOK, NEW r \in Requests, BeginRecord(r)
    PROVE  TypeOK'
<1>1. PICK p \in Products, m \in Rooms, kg \in Kgs, type \in Types, u \in Callers :
        ReadForMovement(r, p, m, kg, type, u)
  BY DEF BeginRecord
<1> DEFINE slot == [kind |-> "record", product |-> p, room |-> m, kg |-> kg,
                    type |-> type, seenQty |-> qty[p]]
<1>2. slot \in Request
  BY WeightsAssumption DEF Request, RecordReq, TypeOK
<1>3. Begin(r, slot)
  BY <1>1 DEF ReadForMovement
<1> QED BY <1>2, <1>3, BeginStarts, BeginType

LEMMA BeginRevertType ==
    ASSUME TypeOK, NEW r \in Requests, BeginRevert(r)
    PROVE  TypeOK'
<1>1. PICK i \in DOMAIN movements : Begin(r, [kind |-> "revert", row |-> movements[i]])
  BY DEF BeginRevert
<1>2. movements[i] \in Movement
  BY DEF TypeOK
<1>3. [kind |-> "revert", row |-> movements[i]] \in Request
  BY <1>2 DEF Request, RevertReq
<1> QED BY <1>1, <1>3, BeginStarts, BeginType

LEMMA BeginAdjustType ==
    ASSUME TypeOK, NEW r \in Requests, BeginAdjust(r)
    PROVE  TypeOK'
<1>1. PICK p \in Products, kg \in Kgs, type \in Types :
        Begin(r, [kind |-> "adjust", product |-> p, kg |-> kg, type |-> type,
                  seenQty |-> qty[p], seenRoom |-> roomOf[p]])
  BY DEF BeginAdjust
<1> DEFINE slot == [kind |-> "adjust", product |-> p, kg |-> kg, type |-> type,
                    seenQty |-> qty[p], seenRoom |-> roomOf[p]]
<1>2. slot \in Request
  BY WeightsAssumption DEF Request, AdjustReq, TypeOK
<1> QED BY <1>1, <1>2, BeginStarts, BeginType

LEMMA BeginCreateType ==
    ASSUME TypeOK, NEW r \in Requests, BeginCreate(r)
    PROVE  TypeOK'
<1>1. PICK m \in Rooms, s \in Sites, kg \in Kgs :
        Begin(r, [kind |-> "create", room |-> m, site |-> s, kg |-> kg])
  BY DEF BeginCreate
<1>2. [kind |-> "create", room |-> m, site |-> s, kg |-> kg] \in Request
  BY WeightsAssumption DEF Request, CreateReq
<1> QED BY <1>1, <1>2, BeginStarts, BeginType

LEMMA BeginUpdateType ==
    ASSUME TypeOK, NEW r \in Requests, BeginUpdate(r)
    PROVE  TypeOK'
<1>1. PICK p \in Products, m \in Rooms \cup {NULL}, s \in Sites \cup {NULL},
           kg \in PatchKgs :
        Begin(r, [kind |-> "patch", product |-> p, toRoom |-> m, toSite |-> s, toKg |-> kg,
                  seenQty |-> qty[p], seenRoom |-> roomOf[p], seenSite |-> siteOf[p]])
  BY DEF BeginUpdate
<1> DEFINE slot == [kind |-> "patch", product |-> p, toRoom |-> m, toSite |-> s, toKg |-> kg,
                    seenQty |-> qty[p], seenRoom |-> roomOf[p], seenSite |-> siteOf[p]]
<1>2. slot \in Request
  BY WeightsAssumption DEF Request, UpdateReq, TypeOK
<1> QED BY <1>1, <1>2, BeginStarts, BeginType

LEMMA CheckUpdateType ==
    ASSUME TypeOK, NEW r \in Requests, CheckUpdate(r)
    PROVE  TypeOK'
<1>1. Checked(requests[r]) \in Request
  BY CheckedSlot DEF Request
<1> QED BY <1>1, CheckedSlot, BeginType

LEMMA BeginUpdateRoomType ==
    ASSUME TypeOK, NEW r \in Requests, BeginUpdateRoom(r)
    PROVE  TypeOK'
<1>1. PICK m \in Rooms, s \in Sites \cup {NULL}, c \in Capacities \cup {NULL} :
        Begin(r, [kind |-> "roomUpdate", room |-> m, toSite |-> s, toCapacity |-> c])
  BY DEF BeginUpdateRoom
<1>2. [kind |-> "roomUpdate", room |-> m, toSite |-> s, toCapacity |-> c] \in Request
  BY WeightsAssumption DEF Request, RoomReq
<1> QED BY <1>1, <1>2, BeginStarts, BeginType

LEMMA BeginRemoveRoomType ==
    ASSUME TypeOK, NEW r \in Requests, BeginRemoveRoom(r)
    PROVE  TypeOK'
<1>1. PICK m \in Rooms : Begin(r, [kind |-> "roomRemove", room |-> m])
  BY DEF BeginRemoveRoom
<1>2. [kind |-> "roomRemove", room |-> m] \in Request
  BY DEF Request, CloseReq
<1> QED BY <1>1, <1>2, BeginStarts, BeginType

LEMMA BeginRemoveType ==
    ASSUME TypeOK, NEW r \in Requests, BeginRemove(r)
    PROVE  TypeOK'
<1>1. PICK p \in Products :
        Begin(r, [kind |-> "remove", product |-> p, seenQty |-> qty[p],
                  seenRoom |-> roomOf[p]])
  BY DEF BeginRemove
<1>2. [kind |-> "remove", product |-> p, seenQty |-> qty[p],
       seenRoom |-> roomOf[p]] \in Request
  BY DEF Request, RemoveReq, TypeOK
<1> QED BY <1>1, <1>2, BeginStarts, BeginType

LEMMA CommitRecordType ==
    ASSUME TypeOK, NEW r \in Requests, CommitRecord(r)
    PROVE  TypeOK'
<1> DEFINE q == requests[r]
<1>1. q \in RecordReq
  BY SlotKinds DEF CommitRecord, TypeOK
<1>2. /\ q.product \in Products /\ q.room \in Rooms /\ q.kg \in Nat
      /\ q.type \in Types /\ q.seenQty \in Int
  BY <1>1 DEF RecordReq
<1>3. Signed(q.kg, q.type) \in Int
  BY <1>2, SignedType
<1>4. movements' \in Seq(Movement)
  BY <1>2, PostType DEF CommitRecord
<1>5. requests' \in [Requests -> Request]
  BY FinishType DEF CommitRecord
<1>6. qty' \in [Products -> Int]
  <2>1. qty' = [qty EXCEPT ![q.product] = q.seenQty + Signed(q.kg, q.type)]
    BY DEF CommitRecord
  <2>2. qty \in [Products -> Int]
    BY DEF TypeOK
  <2> HIDE DEF q
  <2>3. q.seenQty + Signed(q.kg, q.type) \in Int
    BY <1>2, <1>3
  <2> QED BY <2>1, <2>2, <2>3, Overwritten
<1>7. used' \in [Rooms -> Int]
  <2>1. used' = [used EXCEPT ![q.room] = @ + Signed(q.kg, q.type)]
    BY DEF CommitRecord
  <2>2. used \in [Rooms -> Int]
    BY DEF TypeOK
  <2> HIDE DEF q
  <2> QED BY <1>2, <1>3, <2>1, <2>2, ShiftedEntry
<1> QED BY <1>4, <1>5, <1>6, <1>7 DEF CommitRecord, TypeOK

LEMMA CommitRevertType ==
    ASSUME TypeOK, NEW r \in Requests, CommitRevert(r)
    PROVE  TypeOK'
<1> DEFINE row  == requests[r].row
           back == Opposite(row.type)
<1>1. row \in Movement
  BY SlotKinds DEF CommitRevert, TypeOK, RevertReq
<1>2. /\ row.product \in Products /\ row.room \in Rooms /\ row.kg \in Nat
      /\ back \in Types
  BY <1>1, OppositeType DEF Movement
<1>3. Signed(row.kg, back) \in Int
  BY <1>2, SignedType
<1>4. movements' \in Seq(Movement)
  BY <1>2, PostType DEF CommitRevert
<1>5. requests' \in [Requests -> Request]
  BY FinishType DEF CommitRevert
<1>6. qty' \in [Products -> Int]
  <2>1. qty' = [qty EXCEPT ![row.product] = @ + Signed(row.kg, back)]
    BY DEF CommitRevert
  <2>2. qty \in [Products -> Int]
    BY DEF TypeOK
  <2> HIDE DEF row, back
  <2> QED BY <1>2, <1>3, <2>1, <2>2, ShiftedEntry
<1>7. used' \in [Rooms -> Int]
  <2>1. used' = [used EXCEPT ![row.room] = @ + Signed(row.kg, back)]
    BY DEF CommitRevert
  <2>2. used \in [Rooms -> Int]
    BY DEF TypeOK
  <2> HIDE DEF row, back
  <2> QED BY <1>2, <1>3, <2>1, <2>2, ShiftedEntry
<1> QED BY <1>4, <1>5, <1>6, <1>7 DEF CommitRevert, TypeOK

LEMMA CommitAdjustType ==
    ASSUME TypeOK, NEW r \in Requests, CommitAdjust(r)
    PROVE  TypeOK'
<1> DEFINE q == requests[r]
<1>1. q \in AdjustReq
  BY SlotKinds DEF CommitAdjust, TypeOK
<1>2. /\ q.product \in Products /\ q.seenRoom \in Rooms /\ q.kg \in Nat
      /\ q.type \in Types /\ q.seenQty \in Int
  BY <1>1 DEF AdjustReq
<1>3. Signed(q.kg, q.type) \in Int
  BY <1>2, SignedType
<1>4. movements' \in Seq(Movement)
  BY <1>2, PostType DEF CommitAdjust
<1>5. requests' \in [Requests -> Request]
  BY FinishType DEF CommitAdjust
<1>6. qty' \in [Products -> Int]
  <2>1. qty' = [qty EXCEPT ![q.product] = q.seenQty + Signed(q.kg, q.type)]
    BY DEF CommitAdjust
  <2>2. qty \in [Products -> Int]
    BY DEF TypeOK
  <2> HIDE DEF q
  <2>3. q.seenQty + Signed(q.kg, q.type) \in Int
    BY <1>2, <1>3
  <2> QED BY <2>1, <2>2, <2>3, Overwritten
<1>7. used' \in [Rooms -> Int]
  <2>1. used' = [used EXCEPT ![q.seenRoom] = @ + Signed(q.kg, q.type)]
    BY DEF CommitAdjust, RoomToAdjust
  <2>2. used \in [Rooms -> Int]
    BY DEF TypeOK
  <2> HIDE DEF q
  <2> QED BY <1>2, <1>3, <2>1, <2>2, ShiftedEntry
<1>8. status' \in [Products -> {"IN_STOCK", "OUT_OF_STOCK"}]
  BY DEF CommitAdjust, TypeOK
<1> QED BY <1>4, <1>5, <1>6, <1>7, <1>8 DEF CommitAdjust, TypeOK

LEMMA CommitCreateType ==
    ASSUME TypeOK, NEW r \in Requests, CommitCreate(r)
    PROVE  TypeOK'
<1> DEFINE q == requests[r]
<1>1. q \in CreateReq
  BY SlotKinds DEF CommitCreate, TypeOK
<1>2. q.room \in Rooms /\ q.site \in Sites /\ q.kg \in Nat
  BY <1>1 DEF CreateReq
<1>3. PICK p \in Products :
        /\ qty' = [qty EXCEPT ![p] = q.kg]
        /\ status' = [status EXCEPT ![p] = "IN_STOCK"]
        /\ roomOf' = [roomOf EXCEPT ![p] = q.room]
        /\ siteOf' = [siteOf EXCEPT ![p] = q.site]
        /\ life' = [life EXCEPT ![p] = "live"]
        /\ Post(p, q.room, q.kg, "IN")
  BY DEF CommitCreate
<1>4. movements' \in Seq(Movement)
  BY <1>2, <1>3, PostType DEF Types
<1>5. requests' \in [Requests -> Request]
  BY FinishType DEF CommitCreate
<1>6. qty' \in [Products -> Int]
  <2>1. qty \in [Products -> Int]
    BY DEF TypeOK
  <2> HIDE DEF q
  <2> QED BY <1>2, <1>3, <2>1, Overwritten
<1>7. used' \in [Rooms -> Int]
  <2>1. used' = [used EXCEPT ![q.room] = @ + q.kg]
    BY DEF CommitCreate
  <2>2. used \in [Rooms -> Int]
    BY DEF TypeOK
  <2> HIDE DEF q
  <2> QED BY <1>2, <2>1, <2>2, ShiftedEntry
<1>8. /\ status' \in [Products -> {"IN_STOCK", "OUT_OF_STOCK"}]
      /\ roomOf' \in [Products -> Rooms] /\ siteOf' \in [Products -> Sites]
      /\ life' \in [Products -> Lives]
  BY <1>2, <1>3 DEF TypeOK, Lives
<1> QED BY <1>4, <1>5, <1>6, <1>7, <1>8 DEF CommitCreate, TypeOK

\* A transfer adds integers to integers.
LEMMA ShiftedType ==
    ASSUME NEW f \in [Rooms -> Int], NEW q \in UpdateReq
    PROVE  Shifted(f, q) \in [Rooms -> Int]
BY DEF Shifted, Moves, UpdateReq

LEMMA CommitUpdateType ==
    ASSUME TypeOK, NEW r \in Requests, CommitUpdate(r)
    PROVE  TypeOK'
<1> DEFINE q == requests[r]
<1>1. q \in UpdateReq
  BY SlotKinds DEF CommitUpdate, TypeOK
<1>2. used' \in [Rooms -> Int] /\ offLedger' \in [Rooms -> Int]
  BY <1>1, ShiftedType DEF CommitUpdate, TypeOK
<1>3. /\ q.product \in Products /\ q.toRoom \in Rooms \cup {NULL}
      /\ q.toSite \in Sites \cup {NULL} /\ q.toKg \in Nat \cup {NULL}
  BY <1>1 DEF UpdateReq
<1>4. /\ roomOf' \in [Products -> Rooms] /\ siteOf' \in [Products -> Sites]
      /\ qty' \in [Products -> Int]
  BY <1>3 DEF CommitUpdate, Target, TypeOK
<1>5. requests' \in [Requests -> Request]
  BY FinishType DEF CommitUpdate
<1> QED BY <1>2, <1>4, <1>5 DEF CommitUpdate, TypeOK

LEMMA CommitRemoveType ==
    ASSUME TypeOK, NEW r \in Requests, CommitRemove(r)
    PROVE  TypeOK'
<1> DEFINE q == requests[r]
<1>1. q \in RemoveReq
  BY SlotKinds DEF CommitRemove, TypeOK
<1>2. q.product \in Products /\ q.seenQty \in Int /\ q.seenRoom \in Rooms
  BY <1>1 DEF RemoveReq
<1>3. requests' \in [Requests -> Request]
  BY FinishType DEF CommitRemove
<1>4. /\ life' \in [Products -> Lives]
      /\ status' \in [Products -> {"IN_STOCK", "OUT_OF_STOCK"}]
  BY DEF CommitRemove, TypeOK, Lives
<1>5. used' \in [Rooms -> Int] /\ offLedger' \in [Rooms -> Int]
  <2>1. /\ used' = [used EXCEPT ![q.seenRoom] = @ - q.seenQty]
        /\ offLedger' = [offLedger EXCEPT ![q.seenRoom] = @ - q.seenQty]
    BY DEF CommitRemove
  <2>2. used \in [Rooms -> Int] /\ offLedger \in [Rooms -> Int]
    BY DEF TypeOK
  <2> HIDE DEF q
  <2> QED BY <1>2, <2>1, <2>2, RelievedEntry
<1> QED BY <1>3, <1>4, <1>5 DEF CommitRemove, TypeOK

LEMMA UpdateColdRoomType ==
    ASSUME TypeOK, NEW r \in Requests, UpdateColdRoom(r)
    PROVE  TypeOK'
<1> DEFINE q == requests[r]
<1>1. /\ q.toSite \in Sites \cup {NULL} /\ q.toCapacity \in Nat \cup {NULL}
  BY SlotKinds DEF UpdateColdRoom, TypeOK, RoomReq
<1>2. roomSite' \in [Rooms -> Sites] /\ capacity' \in [Rooms -> Nat]
  BY <1>1 DEF UpdateColdRoom, Target, TypeOK
<1>3. requests' \in [Requests -> Request]
  BY FinishType DEF UpdateColdRoom
<1> QED BY <1>2, <1>3 DEF UpdateColdRoom, TypeOK, productVars

LEMMA RemoveColdRoomType ==
    ASSUME TypeOK, NEW r \in Requests, RemoveColdRoom(r)
    PROVE  TypeOK'
<1>1. requests' \in [Requests -> Request]
  BY FinishType DEF RemoveColdRoom
<1> QED BY <1>1 DEF RemoveColdRoom, TypeOK, productVars, Lives

LEMMA CreateColdRoomType ==
    ASSUME TypeOK, CreateColdRoom
    PROVE  TypeOK'
BY WeightsAssumption DEF CreateColdRoom, TypeOK, productVars, Lives

LEMMA RollBackType ==
    ASSUME TypeOK, NEW r \in Requests, RollBack(r)
    PROVE  TypeOK'
BY FinishType DEF RollBack, TypeOK, productVars, roomVars

LEMMA NextType == TypeOK /\ [Next]_vars => TypeOK'
<1> SUFFICES ASSUME TypeOK, [Next]_vars PROVE TypeOK'
  OBVIOUS
<1>1. ASSUME NEW r \in Requests, Handle(r) PROVE TypeOK'
  BY <1>1, BeginRecordType, CommitRecordType, BeginRevertType, CommitRevertType,
     BeginAdjustType, CommitAdjustType, BeginCreateType, CommitCreateType,
     BeginUpdateType, CheckUpdateType, CommitUpdateType, BeginRemoveType, CommitRemoveType,
     BeginUpdateRoomType, UpdateColdRoomType, BeginRemoveRoomType, RemoveColdRoomType,
     RollBackType DEF Handle, Read, Commit
<1>2. CASE CreateColdRoom
  BY <1>2, CreateColdRoomType
<1>3. CASE UNCHANGED vars
  BY <1>3 DEF vars, TypeOK
<1> QED BY <1>1, <1>2, <1>3 DEF Next

\* Every state the stock services reach is well-typed: a transfer or a reversal
\* never leaves a product without a room, or a request with half of its fields.
THEOREM TypeCorrect == Spec => []TypeOK
BY InitType, NextType, PTL DEF Spec

-----------------------------------------------------------------------------
(* The movement rows and their sums *)

\* The rows are finitely many, and each has an integer for its signed weight.
LEMMA RowSums ==
    ASSUME NEW s \in Seq(Movement), NEW I \in SUBSET DOMAIN s, NEW f,
           f = [i \in DOMAIN s |-> Signed(s[i].kg, s[i].type)]
    PROVE  /\ IsFiniteSet(I)
           /\ \A i \in I : f[i] \in Int
           /\ SumFunctionOnSet(f, I) \in Int
<1>1. IsFiniteSet(I)
  <2>1. DOMAIN s = 1 .. Len(s) /\ Len(s) \in Nat
    OBVIOUS
  <2>2. IsFiniteSet(1 .. Len(s))
    BY <2>1, FS_Interval
  <2> QED BY <2>1, <2>2, FS_Subset
<1>2. ASSUME NEW i \in I PROVE f[i] \in Int
  <2>1. s[i] \in Movement
    OBVIOUS
  <2>2. Signed(s[i].kg, s[i].type) \in Int
    BY <2>1, SignedType DEF Movement
  <2> QED BY <2>2
<1>3. SumFunctionOnSet(f, I) \in Int
  BY <1>1, <1>2, SumType
<1> QED BY <1>1, <1>2, <1>3

LEMMA RowsType ==
    ASSUME TypeOK, NEW I \in SUBSET DOMAIN movements
    PROVE  /\ IsFiniteSet(I)
           /\ \A i \in I : Rows[i] \in Int
           /\ SumRows(I) \in Int
<1>1. movements \in Seq(Movement)
  BY DEF TypeOK
<1> QED BY <1>1, RowSums DEF Rows, SumRows

LEMMA NextRowsType ==
    ASSUME TypeOK'
    PROVE  /\ \A p : SumRows(RowsOf(p))' \in Int
           /\ \A m : SumRows(RowsIn(m))' \in Int
<1>1. movements' \in Seq(Movement)
  BY DEF TypeOK
<1>2. \A I \in SUBSET DOMAIN movements' : SumFunctionOnSet(Rows', I) \in Int
  BY <1>1, RowSums DEF Rows, Signed
<1>3. /\ \A p : RowsOf(p)' \in SUBSET DOMAIN movements'
      /\ \A m : RowsIn(m)' \in SUBSET DOMAIN movements'
  BY DEF RowsOf, RowsIn
<1> QED BY <1>2, <1>3 DEF SumRows

\* A new row adds its weight to the sums it is part of and leaves the others.
LEMMA AppendedRow ==
    ASSUME TypeOK, TypeOK', NEW p \in Products, NEW m \in Rooms, NEW kg \in Nat,
           NEW type \in Types, Atomic!Post(p, m, kg, type), NEW I \in SUBSET DOMAIN movements
    PROVE  /\ SumFunctionOnSet(Rows', I) = SumFunctionOnSet(Rows, I)
           /\ SumFunctionOnSet(Rows', I \cup {Len(movements) + 1}) =
                SumFunctionOnSet(Rows, I) + Signed(kg, type)
<1> DEFINE n   == Len(movements) + 1
           row == [product |-> p, room |-> m, kg |-> kg, type |-> type]
<1>1. movements \in Seq(Movement) /\ movements' = Append(movements, row)
  BY DEF TypeOK, Atomic!Post
<1>2. /\ DOMAIN movements' = DOMAIN movements \cup {n} /\ n \notin DOMAIN movements
      /\ \A i \in DOMAIN movements : movements'[i] = movements[i]
      /\ movements'[n] = row
  <2> HIDE DEF row
  <2> QED BY <1>1
<1> HIDE DEF n
<1>3. I \in SUBSET DOMAIN movements' /\ n \in DOMAIN movements' /\ n \notin I
  BY <1>2
<1>4. Rows'[n] = Signed(kg, type)
  BY <1>2 DEF Rows, Signed
<1>5. \A i \in I : Rows'[i] = Rows[i]
  BY <1>2 DEF Rows, Signed
<1>6. IsFiniteSet(I) /\ (\A i \in I : Rows[i] \in Int) /\ SumRows(I) \in Int
  BY RowsType
<1>7. SumFunctionOnSet(Rows', I) = SumFunctionOnSet(Rows, I)
  BY <1>5, <1>6, SumSame
<1>8. Signed(kg, type) \in Int
  BY SignedType
<1>9. SumFunctionOnSet(Rows', I \cup {n}) = Rows'[n] + SumFunctionOnSet(Rows', I)
  <2>1. \A i \in I : Rows'[i] \in Int
    BY <1>5, <1>6
  <2>2. Rows'[n] \in Int
    BY <1>4, <1>8
  <2> QED BY <1>3, <1>6, <2>1, <2>2, SumAdd
<1>10. SumFunctionOnSet(Rows', I \cup {n}) = SumFunctionOnSet(Rows, I) + Signed(kg, type)
  BY <1>4, <1>6, <1>7, <1>8, <1>9 DEF SumRows
<1> QED BY <1>7, <1>10 DEF n

\* So a booking counts for its product and for its room, and for no other.
LEMMA PostRows ==
    ASSUME TypeOK, TypeOK', NEW p \in Products, NEW m \in Rooms, NEW kg \in Nat,
           NEW type \in Types, Atomic!Post(p, m, kg, type)
    PROVE  /\ SumRows(RowsOf(p))' = SumRows(RowsOf(p)) + Signed(kg, type)
           /\ \A o \in Products \ {p} : SumRows(RowsOf(o))' = SumRows(RowsOf(o))
           /\ SumRows(RowsIn(m))' = SumRows(RowsIn(m)) + Signed(kg, type)
           /\ \A n \in Rooms \ {m} : SumRows(RowsIn(n))' = SumRows(RowsIn(n))
<1> DEFINE row == [product |-> p, room |-> m, kg |-> kg, type |-> type]
           i   == Len(movements) + 1
<1>1. movements \in Seq(Movement) /\ movements' = Append(movements, row)
  BY DEF TypeOK, Atomic!Post
<1>2. row.product = p /\ row.room = m
  OBVIOUS
<1>3. /\ RowsOf(p)' = RowsOf(p) \cup {i}
      /\ \A o \in Products \ {p} : RowsOf(o)' = RowsOf(o)
      /\ RowsIn(m)' = RowsIn(m) \cup {i}
      /\ \A n \in Rooms \ {m} : RowsIn(n)' = RowsIn(n)
  <2> HIDE DEF row
  <2>1. /\ DOMAIN movements' = DOMAIN movements \cup {i} /\ i \notin DOMAIN movements
        /\ \A j \in DOMAIN movements : movements'[j] = movements[j]
        /\ movements'[i] = row
    BY <1>1
  <2> HIDE DEF i
  <2> QED BY <1>2, <2>1 DEF RowsOf, RowsIn
<1>4. /\ \A o \in Products : RowsOf(o) \in SUBSET DOMAIN movements
      /\ \A n \in Rooms : RowsIn(n) \in SUBSET DOMAIN movements
  BY DEF RowsOf, RowsIn
<1>5. ASSUME NEW I \in SUBSET DOMAIN movements
      PROVE  /\ SumFunctionOnSet(Rows', I) = SumFunctionOnSet(Rows, I)
             /\ SumFunctionOnSet(Rows', I \cup {i}) =
                  SumFunctionOnSet(Rows, I) + Signed(kg, type)
  BY AppendedRow
<1>6. ASSUME NEW o \in Products \ {p} PROVE SumRows(RowsOf(o))' = SumRows(RowsOf(o))
  <2>1. SumFunctionOnSet(Rows', RowsOf(o)) = SumFunctionOnSet(Rows, RowsOf(o))
    BY <1>4, <1>5
  <2> QED BY <1>3, <2>1 DEF SumRows
<1>7. ASSUME NEW n \in Rooms \ {m} PROVE SumRows(RowsIn(n))' = SumRows(RowsIn(n))
  <2>1. SumFunctionOnSet(Rows', RowsIn(n)) = SumFunctionOnSet(Rows, RowsIn(n))
    BY <1>4, <1>5
  <2> QED BY <1>3, <2>1 DEF SumRows
<1>8. SumRows(RowsOf(p))' = SumRows(RowsOf(p)) + Signed(kg, type)
  <2>1. SumFunctionOnSet(Rows', RowsOf(p) \cup {i}) =
          SumFunctionOnSet(Rows, RowsOf(p)) + Signed(kg, type)
    BY <1>4, <1>5
  <2> QED BY <1>3, <2>1 DEF SumRows
<1>9. SumRows(RowsIn(m))' = SumRows(RowsIn(m)) + Signed(kg, type)
  <2>1. SumFunctionOnSet(Rows', RowsIn(m) \cup {i}) =
          SumFunctionOnSet(Rows, RowsIn(m)) + Signed(kg, type)
    BY <1>4, <1>5
  <2> QED BY <1>3, <2>1 DEF SumRows
<1> QED BY <1>6, <1>7, <1>8, <1>9

\* Without a new row the sums stay.
LEMMA SameRows ==
    ASSUME movements' = movements
    PROVE  /\ \A o : SumRows(RowsOf(o))' = SumRows(RowsOf(o))
           /\ \A n : SumRows(RowsIn(n))' = SumRows(RowsIn(n))
<1>1. Rows' = Rows
  BY DEF Rows, Signed
<1>2. (\A o : RowsOf(o)' = RowsOf(o)) /\ \A n : RowsIn(n)' = RowsIn(n)
  BY DEF RowsOf, RowsIn
<1> QED BY <1>1, <1>2 DEF SumRows

-----------------------------------------------------------------------------
(* Rows and handlers refer to rows that are there *)

\* What a handler is going to write, or to book a row for.
Refers(q) ==
    /\ q.kind \in {"record", "adjust", "patch", "update", "remove"} => Exists(q.product)
    /\ q.kind \in {"record", "create", "roomUpdate", "roomRemove"} => RoomExists(q.room)
    /\ q.kind \in {"adjust", "patch", "update", "remove"} => RoomExists(q.seenRoom)
    /\ q.kind = "update" => (q.toRoom # NULL => RoomExists(q.toRoom))
    /\ q.kind = "revert" => Exists(q.row.product) /\ RoomExists(q.row.room)

KeysHold ==
    /\ TypeOK
    /\ \A m \in SeededRooms : RoomExists(m)
    /\ \A p \in SeededProducts : Exists(p)
    /\ \A p \in Products : Exists(p) => RoomExists(roomOf[p])
    /\ \A i \in DOMAIN movements :
          Exists(movements[i].product) /\ RoomExists(movements[i].room)
    /\ \A r \in Requests : Refers(requests[r])

\* What Refers speaks of is a product or a room.
LEMMA SlotKeys ==
    ASSUME NEW q \in Request
    PROVE  /\ q.kind \in {"record", "adjust", "patch", "update", "remove"} => q.product \in Products
           /\ q.kind \in {"record", "create", "roomUpdate", "roomRemove"} => q.room \in Rooms
           /\ q.kind \in {"adjust", "patch", "update", "remove"} => q.seenRoom \in Rooms
           /\ q.kind = "update" => (q.toRoom # NULL => q.toRoom \in Rooms)
           /\ q.kind = "revert" => q.row.product \in Products /\ q.row.room \in Rooms
BY SlotKinds
DEF RecordReq, CreateReq, AdjustReq, UpdateReq, RemoveReq, RevertReq, RoomReq, CloseReq, Movement

\* A handler starts on rows that are there.
LEMMA BeginRefers ==
    ASSUME KeysHold, TypeOK', NEW r \in Requests, NEW slot, Starts(r, slot),
           Refers(slot)
    PROVE  KeysHold'
<1>1. /\ UNCHANGED <<life, roomOf, roomLife, movements>>
      /\ requests' = [requests EXCEPT ![r] = slot]
  BY DEF Starts, productVars, roomVars
<1>2. requests \in [Requests -> Request]
  BY DEF KeysHold, TypeOK
<1>3. ASSUME NEW s \in Requests PROVE Refers(requests[s])'
  <2>1. requests'[s] = slot \/ requests'[s] = requests[s]
    BY <1>1, <1>2
  <2>2. Refers(requests[s])
    BY DEF KeysHold
  <2> QED BY <1>1, <2>1, <2>2 DEF Refers, Exists, RoomExists
<1> QED BY <1>1, <1>3 DEF KeysHold, Exists, RoomExists

\* A handler ends: no row goes away, and what it wrote refers to rows.
LEMMA CommitRefers ==
    ASSUME KeysHold, TypeOK', NEW r \in Requests, Finish(r),
           \A m \in Rooms : RoomExists(m) => RoomExists(m)',
           \A p \in Products : Exists(p) => Exists(p)',
           \A p \in Products : Exists(p)' => RoomExists(roomOf[p])',
           \/ movements' = movements
           \/ \E row \in Movement : /\ movements' = Append(movements, row)
                                    /\ Exists(row.product)' /\ RoomExists(row.room)
    PROVE  KeysHold'
<1>1. TypeOK
  BY DEF KeysHold
<1>2. ASSUME NEW i \in DOMAIN movements'
      PROVE  Exists(movements[i].product)' /\ RoomExists(movements[i].room)'
  <2>1. ASSUME i \in DOMAIN movements, movements'[i] = movements[i]
        PROVE  Exists(movements[i].product)' /\ RoomExists(movements[i].room)'
    <3>1. movements[i] \in Movement
      BY <1>1, <2>1 DEF TypeOK
    <3>2. movements[i].product \in Products /\ movements[i].room \in Rooms
      BY <3>1 DEF Movement
    <3>3. Exists(movements[i].product) /\ RoomExists(movements[i].room)
      BY <2>1 DEF KeysHold
    <3> QED BY <2>1, <3>2, <3>3 DEF Exists, RoomExists
  <2>2. CASE movements' = movements
    BY <2>1, <2>2
  <2>3. ASSUME NEW row \in Movement, movements' = Append(movements, row),
               Exists(row.product)', RoomExists(row.room)
        PROVE  Exists(movements[i].product)' /\ RoomExists(movements[i].room)'
    <3>1. movements \in Seq(Movement)
      BY <1>1 DEF TypeOK
    <3>2. \/ i \in DOMAIN movements /\ movements'[i] = movements[i]
          \/ movements'[i] = row
      BY <2>3, <3>1
    <3>3. RoomExists(row.room)'
      BY <2>3 DEF Movement
    <3> QED BY <2>1, <2>3, <3>2, <3>3 DEF Exists, RoomExists
  <2> QED BY <2>2, <2>3
<1>3. ASSUME NEW s \in Requests PROVE Refers(requests[s])'
  <2>1. CASE s = r
    <3>1. requests'[s] = Idle
      BY <1>1, <2>1 DEF Finish, TypeOK
    <3> QED BY <3>1 DEF Refers, Idle
  <2>2. CASE s # r
    <3>1. requests'[s] = requests[s] /\ requests[s] \in Request
      BY <1>1, <2>2 DEF Finish, TypeOK
    <3>2. Refers(requests[s])
      BY DEF KeysHold
    <3> QED BY <3>1, <3>2, SlotKeys DEF Refers
  <2> QED BY <2>1, <2>2
<1>4. /\ \A m \in SeededRooms : RoomExists(m)'
      /\ \A p \in SeededProducts : Exists(p)'
  BY SetsAssumption DEF KeysHold
<1> QED BY <1>2, <1>3, <1>4 DEF KeysHold

LEMMA HandleRefers ==
    ASSUME KeysHold, TypeOK', NEW r \in Requests, Handle(r)
    PROVE  KeysHold'
<1> DEFINE q == requests[r]
<1>1. /\ TypeOK /\ Refers(q) /\ q \in Request
      /\ \A p \in Products : Exists(p) => RoomExists(roomOf[p])
  BY DEF KeysHold, TypeOK
<1>2. CASE BeginRecord(r)
  <2>1. PICK p \in Products, m \in Rooms, kg \in Kgs, type \in Types, u \in Callers :
          ReadForMovement(r, p, m, kg, type, u)
    BY <1>2 DEF BeginRecord
  <2> DEFINE slot == [kind |-> "record", product |-> p, room |-> m, kg |-> kg,
                      type |-> type, seenQty |-> qty[p]]
  <2>2. Begin(r, slot) /\ Refers(slot)
    BY <2>1 DEF ReadForMovement, Refers
  <2> HIDE DEF slot
  <2> QED BY <2>2, BeginStarts, BeginRefers
<1>3. CASE BeginRevert(r)
  <2>1. PICK i \in DOMAIN movements : Begin(r, [kind |-> "revert", row |-> movements[i]])
    BY <1>3 DEF BeginRevert
  <2> DEFINE slot == [kind |-> "revert", row |-> movements[i]]
  <2>2. Begin(r, slot) /\ Refers(slot)
    BY <2>1 DEF KeysHold, Refers
  <2> HIDE DEF slot
  <2> QED BY <2>2, BeginStarts, BeginRefers
<1>4. CASE BeginAdjust(r)
  <2>1. PICK p \in Products, kg \in Kgs, type \in Types :
          /\ Live(p)
          /\ Begin(r, [kind |-> "adjust", product |-> p, kg |-> kg, type |-> type,
                       seenQty |-> qty[p], seenRoom |-> roomOf[p]])
    BY <1>4 DEF BeginAdjust
  <2> DEFINE slot == [kind |-> "adjust", product |-> p, kg |-> kg, type |-> type,
                      seenQty |-> qty[p], seenRoom |-> roomOf[p]]
  <2>2. Begin(r, slot) /\ Refers(slot)
    BY <1>1, <2>1 DEF Live, Exists, Refers
  <2> HIDE DEF slot
  <2> QED BY <2>2, BeginStarts, BeginRefers
<1>5. CASE BeginCreate(r)
  <2>1. PICK m \in Rooms, s \in Sites, kg \in Kgs :
          /\ BelongsTo(m, s)
          /\ Begin(r, [kind |-> "create", room |-> m, site |-> s, kg |-> kg])
    BY <1>5 DEF BeginCreate
  <2> DEFINE slot == [kind |-> "create", room |-> m, site |-> s, kg |-> kg]
  <2>2. Begin(r, slot) /\ Refers(slot)
    BY <2>1 DEF BelongsTo, Refers
  <2> HIDE DEF slot
  <2> QED BY <2>2, BeginStarts, BeginRefers
<1>6. CASE BeginUpdate(r)
  <2>1. PICK p \in Products, m \in Rooms \cup {NULL}, s \in Sites \cup {NULL},
             kg \in PatchKgs :
          /\ Live(p)
          /\ Begin(r, [kind |-> "patch", product |-> p, toRoom |-> m, toSite |-> s, toKg |-> kg,
                       seenQty |-> qty[p], seenRoom |-> roomOf[p], seenSite |-> siteOf[p]])
    BY <1>6 DEF BeginUpdate
  <2> DEFINE slot == [kind |-> "patch", product |-> p, toRoom |-> m, toSite |-> s, toKg |-> kg,
                      seenQty |-> qty[p], seenRoom |-> roomOf[p], seenSite |-> siteOf[p]]
  <2>2. Begin(r, slot) /\ Refers(slot)
    BY <1>1, <2>1 DEF Live, Exists, Refers
  <2> HIDE DEF slot
  <2> QED BY <2>2, BeginStarts, BeginRefers
<1>7. CASE BeginRemove(r)
  <2>1. PICK p \in Products :
          /\ Live(p)
          /\ Begin(r, [kind |-> "remove", product |-> p, seenQty |-> qty[p],
                       seenRoom |-> roomOf[p]])
    BY <1>7 DEF BeginRemove
  <2> DEFINE slot == [kind |-> "remove", product |-> p, seenQty |-> qty[p],
                      seenRoom |-> roomOf[p]]
  <2>2. Begin(r, slot) /\ Refers(slot)
    BY <1>1, <2>1 DEF Live, Exists, Refers
  <2> HIDE DEF slot
  <2> QED BY <2>2, BeginStarts, BeginRefers
<1>8. ASSUME NEW p \in Products, NEW m \in Rooms, NEW kg \in Nat, NEW type \in Types,
             Post(p, m, kg, type), Exists(p), RoomExists(m), Finish(r),
             UNCHANGED <<life, roomOf, roomLife>>
      PROVE  KeysHold'
  <2> DEFINE row == [product |-> p, room |-> m, kg |-> kg, type |-> type]
  <2>1. /\ row \in Movement /\ movements' = Append(movements, row)
        /\ row.product = p /\ row.room = m
    BY <1>8 DEF Movement, Post
  <2> HIDE DEF row
  <2> QED BY <1>1, <1>8, <2>1, CommitRefers DEF Exists, RoomExists
<1>9. CASE CommitRecord(r)
  <2>1. q \in RecordReq /\ Exists(q.product) /\ RoomExists(q.room)
    BY <1>1, <1>9, SlotKinds DEF CommitRecord, Refers
  <2>2. q.product \in Products /\ q.room \in Rooms /\ q.kg \in Nat /\ q.type \in Types
    BY <2>1 DEF RecordReq
  <2> QED BY <1>8, <1>9, <2>1, <2>2 DEF CommitRecord
<1>10. CASE CommitRevert(r)
  <2> DEFINE row  == q.row
             back == Opposite(row.type)
  <2>1. q \in RevertReq /\ Exists(row.product) /\ RoomExists(row.room)
    BY <1>1, <1>10, SlotKinds DEF CommitRevert, Refers
  <2>2. /\ row.product \in Products /\ row.room \in Rooms /\ row.kg \in Nat
        /\ back \in Types
    BY <2>1, OppositeType DEF RevertReq, Movement
  <2> QED BY <1>8, <1>10, <2>1, <2>2 DEF CommitRevert
<1>11. CASE CommitAdjust(r)
  <2>1. q \in AdjustReq /\ Exists(q.product) /\ RoomExists(q.seenRoom)
    BY <1>1, <1>11, SlotKinds DEF CommitAdjust, Refers
  <2>2. q.product \in Products /\ q.seenRoom \in Rooms /\ q.kg \in Nat /\ q.type \in Types
    BY <2>1 DEF AdjustReq
  <2> QED BY <1>8, <1>11, <2>1, <2>2 DEF CommitAdjust
<1>12. CASE CommitCreate(r)
  <2>1. q \in CreateReq /\ RoomExists(q.room)
    BY <1>1, <1>12, SlotKinds DEF CommitCreate, Refers
  <2>2. q.room \in Rooms /\ q.kg \in Nat
    BY <2>1 DEF CreateReq
  <2>3. PICK p \in Products :
          /\ roomOf' = [roomOf EXCEPT ![p] = q.room]
          /\ life' = [life EXCEPT ![p] = "live"]
          /\ Post(p, q.room, q.kg, "IN")
    BY <1>12 DEF CommitCreate
  <2>4. roomLife' = roomLife /\ Finish(r)
    BY <1>12 DEF CommitCreate
  <2>5. /\ roomOf'[p] = q.room /\ Exists(p)'
        /\ \A o \in Products \ {p} : roomOf'[o] = roomOf[o] /\ life'[o] = life[o]
    BY <1>1, <2>3 DEF TypeOK, Exists
  <2>6. /\ \A o \in Products : Exists(o) => Exists(o)'
        /\ \A o \in Products : Exists(o)' => RoomExists(roomOf[o])'
    BY <1>1, <2>1, <2>4, <2>5 DEF Exists, RoomExists
  <2>7. PICK row \in Movement :
           row = [product |-> p, room |-> q.room, kg |-> q.kg, type |-> "IN"]
    BY <2>2 DEF Movement, Types
  <2>8. movements' = Append(movements, row) /\ row.product = p /\ row.room = q.room
    BY <2>3, <2>7 DEF Post
  <2>9. \A m \in Rooms : RoomExists(m) => RoomExists(m)'
    BY <2>4 DEF RoomExists
  <2> QED BY <2>1, <2>4, <2>5, <2>6, <2>8, <2>9, CommitRefers
<1>13. CASE CommitUpdate(r)
  <2>1. q \in UpdateReq /\ (q.toRoom # NULL => RoomExists(q.toRoom)) /\ Exists(q.product)
    BY <1>1, <1>13, SlotKinds DEF CommitUpdate, Refers
  <2>2. /\ roomOf' = [roomOf EXCEPT ![q.product] = Target(q.toRoom, roomOf[q.product])]
        /\ Finish(r)
        /\ UNCHANGED <<life, roomLife, movements>>
    BY <1>13 DEF CommitUpdate
  <2>3. /\ \A o \in Products : Exists(o) => Exists(o)'
        /\ \A o \in Products : Exists(o)' => RoomExists(roomOf[o])'
    BY <1>1, <2>1, <2>2 DEF Exists, RoomExists, Target, TypeOK
  <2> QED BY <2>2, <2>3, CommitRefers DEF RoomExists
<1>14. CASE CommitRemove(r)
  <2>1. /\ life' = [life EXCEPT ![q.product] = "deleted"]
        /\ Finish(r)
        /\ UNCHANGED <<roomOf, roomLife, movements>>
    BY <1>14 DEF CommitRemove
  <2>2. q.kind = "remove" /\ Exists(q.product)
    BY <1>1, <1>14 DEF CommitRemove, Refers
  <2>3. /\ \A o \in Products : Exists(o)' <=> Exists(o)
        /\ \A o \in Products : Exists(o)' => RoomExists(roomOf[o])'
    BY <1>1, <2>1, <2>2 DEF Exists, RoomExists, TypeOK
  <2> QED BY <2>1, <2>3, CommitRefers DEF RoomExists
<1>15. CASE RollBack(r)
  <2>1. Finish(r) /\ UNCHANGED <<life, roomOf, roomLife, movements>>
    BY <1>15 DEF RollBack, productVars, roomVars
  <2> QED BY <1>1, <2>1, CommitRefers DEF Exists, RoomExists
<1>16. CASE CheckUpdate(r)
  <2> DEFINE slot == Checked(q)
  <2>1. /\ q \in UpdateReq /\ q.kind = "patch" /\ slot.kind = "update"
        /\ slot.product = q.product /\ slot.seenRoom = q.seenRoom /\ slot.toRoom = q.toRoom
    BY <1>1, <1>16, CheckedSlot
  <2>2. q.toRoom # NULL => RoomExists(q.toRoom)
    BY <1>16 DEF CheckUpdate, BelongsTo, Target
  <2>3. Refers(slot)
    BY <1>1, <2>1, <2>2 DEF Refers
  <2> QED BY <1>1, <1>16, <2>3, CheckedSlot, BeginRefers
<1>17. CASE BeginUpdateRoom(r)
  <2>1. PICK m \in Rooms, s \in Sites \cup {NULL}, c \in Capacities \cup {NULL} :
          /\ roomLife[m] = "live"
          /\ Begin(r, [kind |-> "roomUpdate", room |-> m, toSite |-> s, toCapacity |-> c])
    BY <1>17 DEF BeginUpdateRoom
  <2> DEFINE slot == [kind |-> "roomUpdate", room |-> m, toSite |-> s, toCapacity |-> c]
  <2>2. Begin(r, slot) /\ Refers(slot)
    BY <2>1 DEF Refers, RoomExists
  <2> HIDE DEF slot
  <2> QED BY <2>2, BeginStarts, BeginRefers
<1>18. CASE BeginRemoveRoom(r)
  <2>1. PICK m \in Rooms : /\ roomLife[m] = "live"
                           /\ Begin(r, [kind |-> "roomRemove", room |-> m])
    BY <1>18 DEF BeginRemoveRoom
  <2> DEFINE slot == [kind |-> "roomRemove", room |-> m]
  <2>2. Begin(r, slot) /\ Refers(slot)
    BY <2>1 DEF Refers, RoomExists
  <2> HIDE DEF slot
  <2> QED BY <2>2, BeginStarts, BeginRefers
<1>19. CASE UpdateColdRoom(r)
  <2>1. Finish(r) /\ UNCHANGED <<life, roomOf, roomLife, movements>>
    BY <1>19 DEF UpdateColdRoom, productVars
  <2> QED BY <1>1, <2>1, CommitRefers DEF Exists, RoomExists
<1>20. CASE RemoveColdRoom(r)
  <2>1. /\ Finish(r) /\ UNCHANGED <<life, roomOf, movements>>
        /\ \A m \in Rooms : RoomExists(m) => RoomExists(m)'
    BY <1>1, <1>20 DEF RemoveColdRoom, productVars, RoomExists, TypeOK
  <2>2. /\ \A o \in Products : Exists(o) => Exists(o)'
        /\ \A o \in Products : Exists(o)' => RoomExists(roomOf[o])'
    BY <1>1, <2>1 DEF Exists, TypeOK
  <2> QED BY <2>1, <2>2, CommitRefers
<1> QED BY <1>2, <1>3, <1>4, <1>5, <1>6, <1>7, <1>9, <1>10, <1>11, <1>12, <1>13, <1>14,
           <1>15, <1>16, <1>17, <1>18, <1>19, <1>20 DEF Handle, Read, Commit

\* A room that is created is a new one.
LEMMA RoomsStay ==
    ASSUME TypeOK, CreateColdRoom \/ UNCHANGED vars
    PROVE  /\ UNCHANGED <<qty, status, life, roomOf, siteOf, movements, requests>>
           /\ \A m \in Rooms : RoomExists(m) =>
                /\ RoomExists(m)' /\ roomLife'[m] = roomLife[m]
                /\ used'[m] = used[m] /\ capacity'[m] = capacity[m]
                /\ roomSite'[m] = roomSite[m]
BY DEF CreateColdRoom, productVars, vars, RoomExists, TypeOK

LEMMA InitKeys == Init => KeysHold
<1> SUFFICES ASSUME Init PROVE KeysHold
  OBVIOUS
<1>1. TypeOK
  BY InitType
<1>2. /\ \A m \in SeededRooms : RoomExists(m)
      /\ \A p \in SeededProducts : Exists(p)
  BY SetsAssumption DEF Init, RoomExists, Exists
<1>3. \A p \in Products : Exists(p) => RoomExists(roomOf[p])
  BY SeedAssumption DEF Init, RoomExists, Exists
<1>4. \A r \in Requests : Refers(requests[r])
  BY DEF Init, Refers, Idle
<1> QED BY <1>1, <1>2, <1>3, <1>4 DEF Init, KeysHold

LEMMA NextKeys == KeysHold /\ [Next]_vars => KeysHold'
<1> SUFFICES ASSUME KeysHold, [Next]_vars PROVE KeysHold'
  OBVIOUS
<1>1. TypeOK /\ TypeOK'
  BY NextType DEF KeysHold
<1>2. ASSUME NEW r \in Requests, Handle(r) PROVE KeysHold'
  BY <1>1, <1>2, HandleRefers
<1>3. CASE CreateColdRoom \/ UNCHANGED vars
  <2>1. /\ UNCHANGED <<life, roomOf, movements, requests>>
        /\ \A m \in Rooms : RoomExists(m) => RoomExists(m)'
    BY <1>1, <1>3, RoomsStay
  <2>2. ASSUME NEW s \in Requests PROVE Refers(requests[s])'
    <3>1. Refers(requests[s]) /\ requests[s] \in Request
      BY <1>1 DEF KeysHold, TypeOK
    <3> QED BY <2>1, <3>1, SlotKeys DEF Refers, Exists
  <2>3. ASSUME NEW i \in DOMAIN movements'
        PROVE  Exists(movements[i].product)' /\ RoomExists(movements[i].room)'
    <3>1. movements[i] \in Movement
      BY <1>1, <2>1 DEF TypeOK
    <3>2. Exists(movements[i].product) /\ RoomExists(movements[i].room)
      BY <2>1 DEF KeysHold
    <3> QED BY <2>1, <3>1, <3>2 DEF Movement, Exists
  <2>4. /\ \A m \in SeededRooms : RoomExists(m)'
        /\ \A p \in SeededProducts : Exists(p)'
        /\ \A p \in Products : Exists(p)' => RoomExists(roomOf[p])'
    BY <1>1, <2>1, SetsAssumption DEF KeysHold, Exists, TypeOK
  <2> QED BY <1>1, <2>2, <2>3, <2>4 DEF KeysHold
<1> QED BY <1>2, <1>3 DEF Next

-----------------------------------------------------------------------------
(* The ledger of the cold rooms *)

\* RoomLedger is not inductive alone: a room created over a seeded one would
\* start from nothing, so the rooms of the seed data have to be there, and so
\* would one that has movement rows already, so the keys of the rows have to hold.
LedgerInv == KeysHold /\ RoomLedger

\* What is neither booked nor moved without a row is the opening weight.
Unexplained(m) == used[m] - SumRows(RowsIn(m)) - offLedger[m]

LEMMA OpeningRoomType == \A m \in Rooms : OpeningRoom(m) \in Int
BY SeedAssumption DEF OpeningRoom

\* A step that adds and drops no room and explains what it moves keeps the ledger.
LEMMA Explained ==
    ASSUME TypeOK, TypeOK', RoomLedger, \A m \in Rooms : RoomExists(m)' <=> RoomExists(m),
           \A m \in Rooms : Unexplained(m)' = Unexplained(m)
    PROVE  RoomLedger'
<1>1. ASSUME NEW m \in Rooms, RoomExists(m)'
      PROVE  (used[m] = OpeningRoom(m) + SumRows(RowsIn(m)) + offLedger[m])'
  <2> DEFINE net == SumRows(RowsIn(m))
  <2>1. used[m] = OpeningRoom(m) + net + offLedger[m]
    BY <1>1 DEF RoomLedger
  <2>2. /\ used[m] \in Int /\ offLedger[m] \in Int
        /\ used'[m] \in Int /\ offLedger'[m] \in Int
        /\ OpeningRoom(m) \in Int
    BY OpeningRoomType DEF TypeOK
  <2>3. net \in Int /\ net' \in Int
    <3>1. RowsIn(m) \in SUBSET DOMAIN movements
      BY DEF RowsIn
    <3> QED BY <3>1, RowsType, NextRowsType
  <2>4. used'[m] - net' - offLedger'[m] = used[m] - net - offLedger[m]
    BY DEF Unexplained
  <2> HIDE DEF net
  <2>5. used'[m] = OpeningRoom(m) + net' + offLedger'[m]
    BY <2>1, <2>2, <2>3, <2>4
  <2> QED BY <2>5 DEF OpeningRoom, net
<1> QED BY <1>1 DEF RoomLedger

\* The movement row and the update of the room carry the same weight.
LEMMA BookedIsExplained ==
    ASSUME TypeOK, TypeOK', NEW p \in Products, NEW x \in Rooms, NEW kg \in Nat,
           NEW type \in Types, Post(p, x, kg, type),
           used' = [used EXCEPT ![x] = @ + Signed(kg, type)], UNCHANGED offLedger
    PROVE  \A m \in Rooms : Unexplained(m)' = Unexplained(m)
<1>1. /\ SumRows(RowsIn(x))' = SumRows(RowsIn(x)) + Signed(kg, type)
      /\ \A m \in Rooms \ {x} : SumRows(RowsIn(m))' = SumRows(RowsIn(m))
  BY PostRows DEF Post, Atomic!Post
<1>2. used \in [Rooms -> Int] /\ offLedger \in [Rooms -> Int] /\ Signed(kg, type) \in Int
  BY SignedType DEF TypeOK
<1>3. SumRows(RowsIn(x)) \in Int
  BY RowsType DEF RowsIn
<1>4. Unexplained(x)' = Unexplained(x)
  <2>1. used'[x] = used[x] + Signed(kg, type)
    BY <1>2
  <2> DEFINE net == SumRows(RowsIn(x))
             d   == Signed(kg, type)
  <2>2. /\ net' = net + d /\ used'[x] = used[x] + d
        /\ net \in Int /\ d \in Int /\ used[x] \in Int /\ offLedger[x] \in Int
    BY <1>1, <1>2, <1>3, <2>1
  <2> HIDE DEF net, d
  <2>3. used'[x] - net' - offLedger[x] = used[x] - net - offLedger[x]
    BY <2>2
  <2> QED BY <2>3 DEF Unexplained, net
<1>5. ASSUME NEW m \in Rooms \ {x} PROVE Unexplained(m)' = Unexplained(m)
  <2>1. used'[m] = used[m]
    BY <1>2
  <2> QED BY <1>1, <2>1 DEF Unexplained
<1> QED BY <1>4, <1>5

\* A step of a handler that leaves rooms, movements and history alone.
LEMMA QuietIsExplained ==
    ASSUME UNCHANGED <<used, movements, offLedger>>
    PROVE  \A m \in Rooms : Unexplained(m)' = Unexplained(m)
BY SameRows DEF Unexplained

\* So does one that moves as much in the history as in the rooms.
LEMMA BothMoved ==
    ASSUME TypeOK, TypeOK', UNCHANGED movements,
           \A m \in Rooms : used'[m] - offLedger'[m] = used[m] - offLedger[m]
    PROVE  \A m \in Rooms : Unexplained(m)' = Unexplained(m)
<1> SUFFICES ASSUME NEW m \in Rooms PROVE Unexplained(m)' = Unexplained(m)
  OBVIOUS
<1> DEFINE net == SumRows(RowsIn(m))
<1>1. net' = net
  BY SameRows
<1>2. net \in Int
  BY RowsType DEF RowsIn
<1>3. used[m] \in Int /\ used'[m] \in Int /\ offLedger[m] \in Int /\ offLedger'[m] \in Int
  BY DEF TypeOK
<1> HIDE DEF net
<1>4. used'[m] - net - offLedger'[m] = used[m] - net - offLedger[m]
  BY <1>2, <1>3
<1> QED BY <1>1, <1>4 DEF Unexplained, net

LEMMA HandleExplained ==
    ASSUME TypeOK, TypeOK', NEW r \in Requests, Handle(r)
    PROVE  \A m \in Rooms : Unexplained(m)' = Unexplained(m)
<1> DEFINE q == requests[r]
<1>1. ASSUME NEW slot, Begin(r, slot) PROVE UNCHANGED <<used, movements, offLedger>>
  BY <1>1 DEF Begin, roomVars
<1>2. CASE BeginRecord(r)
  BY <1>1, <1>2, QuietIsExplained DEF BeginRecord, ReadForMovement
<1>3. CASE BeginRevert(r)
  BY <1>1, <1>3, QuietIsExplained DEF BeginRevert
<1>4. CASE BeginAdjust(r)
  BY <1>1, <1>4, QuietIsExplained DEF BeginAdjust
<1>5. CASE BeginCreate(r)
  BY <1>1, <1>5, QuietIsExplained DEF BeginCreate
<1>6. CASE BeginUpdate(r)
  BY <1>1, <1>6, QuietIsExplained DEF BeginUpdate
<1>7. CASE BeginRemove(r)
  BY <1>1, <1>7, QuietIsExplained DEF BeginRemove
<1>8. CASE RollBack(r)
  BY <1>8, QuietIsExplained DEF RollBack, roomVars
<1>9. CASE CommitRecord(r)
  <2>1. q.product \in Products /\ q.room \in Rooms /\ q.kg \in Nat /\ q.type \in Types
    BY <1>9, SlotKinds DEF CommitRecord, TypeOK, RecordReq
  <2> QED BY <1>9, <2>1, BookedIsExplained DEF CommitRecord
<1>10. CASE CommitRevert(r)
  <2> DEFINE row == q.row
             back == Opposite(row.type)
  <2>1. row \in Movement
    BY <1>10, SlotKinds DEF CommitRevert, TypeOK, RevertReq
  <2>2. row.product \in Products /\ row.room \in Rooms /\ row.kg \in Nat /\ back \in Types
    BY <2>1, OppositeType DEF Movement
  <2> QED BY <1>10, <2>2, BookedIsExplained DEF CommitRevert
<1>11. CASE CommitAdjust(r)
  <2>1. q.product \in Products /\ q.seenRoom \in Rooms /\ q.kg \in Nat /\ q.type \in Types
    BY <1>11, SlotKinds DEF CommitAdjust, TypeOK, AdjustReq
  <2> QED BY <1>11, <2>1, BookedIsExplained DEF CommitAdjust, RoomToAdjust
<1>12. CASE CommitCreate(r)
  <2>1. q.room \in Rooms /\ q.kg \in Nat /\ Signed(q.kg, "IN") = q.kg
    BY <1>12, SlotKinds DEF CommitCreate, TypeOK, CreateReq, Signed
  <2>2. PICK p \in Products : Post(p, q.room, q.kg, "IN")
    BY <1>12 DEF CommitCreate
  <2>3. used' = [used EXCEPT ![q.room] = @ + Signed(q.kg, "IN")] /\ UNCHANGED offLedger
    BY <1>12, <2>1 DEF CommitCreate
  <2> QED BY <2>1, <2>2, <2>3, BookedIsExplained DEF Types
<1>13. CASE CommitUpdate(r)
  <2>1. /\ q \in UpdateReq
        /\ used' = Shifted(used, q) /\ offLedger' = Shifted(offLedger, q)
        /\ movements' = movements
    BY <1>13, SlotKinds DEF CommitUpdate, TypeOK
  <2>2. used \in [Rooms -> Int] /\ offLedger \in [Rooms -> Int]
    BY DEF TypeOK
  <2>3. q.seenRoom \in Rooms /\ q.seenQty \in Int
    BY <2>1 DEF UpdateReq
  <2>4. CASE Moves(q)
    <3>1. q.toRoom \in Rooms /\ q.toRoom # q.seenRoom
      BY <2>1, <2>4 DEF Moves, UpdateReq
    <3>2. /\ used' = [used EXCEPT ![q.seenRoom] = @ - q.seenQty, ![q.toRoom] = @ + q.seenQty]
          /\ offLedger' = [offLedger EXCEPT ![q.seenRoom] = @ - q.seenQty,
                                            ![q.toRoom] = @ + q.seenQty]
      BY <2>1, <2>4 DEF Shifted
    <3> HIDE DEF q
    <3>3. \A m \in Rooms : used'[m] - offLedger'[m] = used[m] - offLedger[m]
      BY <2>2, <2>3, <3>1, <3>2
    <3> QED BY <2>1, <3>3, BothMoved
  <2>5. CASE ~Moves(q)
    BY <2>1, <2>5, QuietIsExplained DEF Shifted
  <2> QED BY <2>4, <2>5
<1>14. CASE CommitRemove(r)
  <2>1. /\ q.seenRoom \in Rooms /\ q.seenQty \in Int
        /\ used' = [used EXCEPT ![q.seenRoom] = @ - q.seenQty]
        /\ offLedger' = [offLedger EXCEPT ![q.seenRoom] = @ - q.seenQty]
        /\ movements' = movements
    BY <1>14, SlotKinds DEF CommitRemove, TypeOK, RemoveReq
  <2>2. \A m \in Rooms : used'[m] - offLedger'[m] = used[m] - offLedger[m]
    <3>1. used \in [Rooms -> Int] /\ offLedger \in [Rooms -> Int]
      BY DEF TypeOK
    <3> HIDE DEF q
    <3> QED BY <2>1, <3>1
  <2> QED BY <2>1, <2>2, BothMoved
<1>15. CASE CheckUpdate(r)
  BY <1>15, QuietIsExplained DEF CheckUpdate, roomVars
<1>16. CASE BeginUpdateRoom(r) \/ BeginRemoveRoom(r)
  BY <1>1, <1>16, QuietIsExplained DEF BeginUpdateRoom, BeginRemoveRoom
<1>17. CASE UpdateColdRoom(r) \/ RemoveColdRoom(r)
  BY <1>17, QuietIsExplained DEF UpdateColdRoom, RemoveColdRoom
<1> QED BY <1>2, <1>3, <1>4, <1>5, <1>6, <1>7, <1>8, <1>9, <1>10, <1>11, <1>12,
           <1>13, <1>14, <1>15, <1>16, <1>17 DEF Handle, Read, Commit

\* A handler neither adds nor drops a room, and only the handlers of the room
\* endpoints write what is not its weight.
LEMMA HandleKeepsRooms ==
    ASSUME KeysHold, NEW r \in Requests, Handle(r)
    PROVE  /\ \A m \in Rooms : RoomExists(m)' <=> RoomExists(m)
           /\ requests[r].kind \notin {"roomUpdate", "roomRemove"} =>
                UNCHANGED <<capacity, roomSite, roomLife>>
<1>1. ASSUME NEW slot, Begin(r, slot) PROVE UNCHANGED <<capacity, roomSite, roomLife>>
  BY <1>1 DEF Begin, roomVars
<1>2. ASSUME Read(r) PROVE UNCHANGED <<capacity, roomSite, roomLife>>
  <2>1. CASE BeginRecord(r) \/ BeginRevert(r) \/ BeginAdjust(r)
    BY <1>1, <2>1 DEF BeginRecord, ReadForMovement, BeginRevert, BeginAdjust
  <2>2. CASE BeginCreate(r) \/ BeginRemove(r)
    BY <1>1, <2>2 DEF BeginCreate, BeginRemove
  <2>3. CASE BeginUpdate(r)
    BY <1>1, <2>3 DEF BeginUpdate
  <2>4. CASE CheckUpdate(r)
    BY <2>4 DEF CheckUpdate, roomVars
  <2>5. CASE BeginUpdateRoom(r) \/ BeginRemoveRoom(r)
    BY <1>1, <2>5 DEF BeginUpdateRoom, BeginRemoveRoom
  <2> QED BY <1>2, <2>1, <2>2, <2>3, <2>4, <2>5 DEF Read
<1>3. CASE CommitRecord(r) \/ CommitRevert(r) \/ CommitAdjust(r)
  BY <1>3 DEF CommitRecord, CommitRevert, CommitAdjust, RoomExists
<1>4. CASE CommitCreate(r) \/ CommitUpdate(r) \/ CommitRemove(r) \/ RollBack(r)
  BY <1>4 DEF CommitCreate, CommitUpdate, CommitRemove, RollBack, roomVars, RoomExists
<1>5. CASE UpdateColdRoom(r)
  BY <1>5 DEF UpdateColdRoom, RoomExists
<1>6. CASE RemoveColdRoom(r)
  <2>1. RoomExists(requests[r].room)
    BY <1>6 DEF RemoveColdRoom, KeysHold, Refers
  <2> QED BY <1>6, <2>1 DEF RemoveColdRoom, RoomExists, KeysHold, TypeOK
<1> QED BY <1>2, <1>3, <1>4, <1>5, <1>6 DEF Handle, Commit, RoomExists

LEMMA InitLedger == Init => LedgerInv
<1> SUFFICES ASSUME Init PROVE LedgerInv
  OBVIOUS
<1>1. KeysHold
  BY InitKeys
<1>2. ASSUME NEW m \in Rooms PROVE SumRows(RowsIn(m)) = 0
  <2>1. RowsIn(m) = {}
    BY DEF Init, RowsIn
  <2> QED BY <2>1, SumEmpty DEF SumRows
<1>3. RoomLedger
  BY <1>2, SeedAssumption DEF Init, RoomLedger, RoomExists, OpeningRoom
<1> QED BY <1>1, <1>3 DEF LedgerInv

LEMMA NextLedger == LedgerInv /\ [Next]_vars => LedgerInv'
<1> SUFFICES ASSUME LedgerInv, [Next]_vars PROVE LedgerInv'
  OBVIOUS
<1>1. /\ KeysHold /\ KeysHold' /\ RoomLedger
      /\ TypeOK /\ TypeOK'
  BY NextKeys DEF LedgerInv, KeysHold
<1> SUFFICES RoomLedger'
  BY <1>1 DEF LedgerInv
<1>2. ASSUME NEW r \in Requests, Handle(r) PROVE RoomLedger'
  BY <1>1, <1>2, HandleExplained, HandleKeepsRooms, Explained
<1>3. CASE CreateColdRoom
  <2>1. PICK m \in Rooms :
          /\ ~RoomExists(m)
          /\ roomLife' = [roomLife EXCEPT ![m] = "live"]
          /\ used' = [used EXCEPT ![m] = 0]
          /\ offLedger' = [offLedger EXCEPT ![m] = 0]
          /\ movements' = movements
    BY <1>3 DEF CreateColdRoom
  <2>2. OpeningRoom(m) = 0 /\ RowsIn(m) = {}
    BY <1>1, <2>1 DEF KeysHold, OpeningRoom, RowsIn
  <2>3. \A n \in Rooms : SumRows(RowsIn(n))' = SumRows(RowsIn(n))
    BY <2>1, SameRows
  <2>4. ASSUME NEW n \in Rooms, RoomExists(n)'
        PROVE  used'[n] = OpeningRoom(n) + SumRows(RowsIn(n))' + offLedger'[n]
    <3>1. CASE n = m
      <4>1. SumRows(RowsIn(n)) = 0
        BY <2>2, <3>1, SumEmpty DEF SumRows
      <4>2. used'[n] = 0 /\ offLedger'[n] = 0 /\ OpeningRoom(n) = 0
        BY <1>1, <2>1, <2>2, <3>1 DEF TypeOK
      <4> QED BY <2>3, <4>1, <4>2
    <3>2. CASE n # m
      <4>1. used[n] = OpeningRoom(n) + SumRows(RowsIn(n)) + offLedger[n]
        BY <1>1, <2>1, <2>4, <3>2 DEF RoomLedger, RoomExists, TypeOK
      <4>2. used'[n] = used[n] /\ offLedger'[n] = offLedger[n]
        BY <1>1, <2>1, <3>2 DEF TypeOK
      <4> QED BY <2>3, <4>1, <4>2
    <3> QED BY <3>1, <3>2
  <2> QED BY <2>4 DEF RoomLedger, OpeningRoom
<1>4. CASE UNCHANGED vars
  BY <1>1, <1>4, QuietIsExplained, Explained DEF vars, RoomExists
<1> QED BY <1>2, <1>3, <1>4 DEF Next

\* Under every overlap of every number of handlers, the used weight of a cold
\* room is explained by its opening weight, its movement rows, and the transfers
\* and removals that book none: usedCapacityKg loses no update.
THEOREM RoomLedgerHolds == Spec => []RoomLedger
<1>1. LedgerInv => RoomLedger
  BY DEF LedgerInv
<1> QED BY <1>1, InitLedger, NextLedger, PTL DEF Spec

-----------------------------------------------------------------------------
(* Stock without reversals *)

\* StockNonNegative is not inductive alone: a handler in flight overwrites the
\* weight, so what it is about to write has to be checked already, against the
\* value it read.  A reversal is checked against a value that it then does not
\* use, which is why it breaks the invariant.
PendingWritesFit ==
    \A r \in Requests :
        /\ requests[r].kind # "revert"
        /\ requests[r].kind \in {"record", "adjust"} =>
             requests[r].seenQty + Signed(requests[r].kg, requests[r].type) >= 0

StockInv == TypeOK /\ StockNonNegative /\ PendingWritesFit

\* A handler that begins with a write that fits.
LEMMA BeginKeepsStock ==
    ASSUME StockInv, TypeOK', NEW r \in Requests, NEW slot,
           Starts(r, slot), slot.kind # "revert",
           slot.kind \in {"record", "adjust"} =>
               slot.seenQty + Signed(slot.kg, slot.type) >= 0
    PROVE  StockInv'
<1>1. StockNonNegative'
  BY DEF Starts, productVars, StockInv, StockNonNegative
<1>2. requests' = [requests EXCEPT ![r] = slot]
  BY DEF Starts
<1>3. PendingWritesFit'
  <2> SUFFICES ASSUME NEW s \in Requests
      PROVE /\ requests'[s].kind # "revert"
            /\ requests'[s].kind \in {"record", "adjust"} =>
                 requests'[s].seenQty + Signed(requests'[s].kg, requests'[s].type) >= 0
    BY DEF PendingWritesFit, Signed
  <2>1. CASE s = r
    <3>1. requests'[s] = slot
      BY <1>2, <2>1 DEF StockInv, TypeOK
    <3> QED BY <3>1
  <2>2. CASE s # r
    <3>1. requests'[s] = requests[s]
      BY <1>2, <2>2 DEF StockInv, TypeOK
    <3> QED BY <3>1 DEF StockInv, PendingWritesFit
  <2> QED BY <2>1, <2>2
<1> QED BY <1>1, <1>3 DEF StockInv

\* A handler that ends and leaves no weight negative.
LEMMA FinishKeepsStock ==
    ASSUME StockInv, TypeOK', NEW r \in Requests, Finish(r),
           \A p \in Products : qty'[p] >= 0
    PROVE  StockInv'
<1>1. PendingWritesFit'
  <2> SUFFICES ASSUME NEW s \in Requests
      PROVE /\ requests'[s].kind # "revert"
            /\ requests'[s].kind \in {"record", "adjust"} =>
                 requests'[s].seenQty + Signed(requests'[s].kg, requests'[s].type) >= 0
    BY DEF PendingWritesFit, Signed
  <2>1. CASE s = r
    <3>1. requests'[s] = Idle
      BY <2>1 DEF Finish, StockInv, TypeOK
    <3> QED BY <3>1 DEF Idle
  <2>2. CASE s # r
    <3>1. requests'[s] = requests[s]
      BY <2>2 DEF Finish, StockInv, TypeOK
    <3> QED BY <3>1 DEF StockInv, PendingWritesFit
  <2> QED BY <2>1, <2>2
<1>2. StockNonNegative'
  BY DEF StockNonNegative
<1> QED BY <1>1, <1>2 DEF StockInv

\* Writing one weight that fits leaves every weight at or above zero.
LEMMA OneWeightWritten ==
    ASSUME StockInv, NEW p, NEW v \in Int, v >= 0, qty' = [qty EXCEPT ![p] = v]
    PROVE  \A n \in Products : qty'[n] >= 0
BY DEF StockInv, TypeOK, StockNonNegative

LEMMA HandleKeepsStock ==
    ASSUME "revert" \notin Kinds, StockInv, TypeOK', NEW r \in Requests, Handle(r)
    PROVE  StockInv'
<1> DEFINE q == requests[r]
<1>1. TypeOK /\ StockNonNegative
  BY DEF StockInv
<1>2. CASE BeginRecord(r)
  <2>1. PICK p \in Products, m \in Rooms, kg \in Kgs, type \in Types, u \in Callers :
          ReadForMovement(r, p, m, kg, type, u)
    BY <1>2 DEF BeginRecord
  <2>2. kg \in Nat /\ qty[p] \in Int /\ qty[p] >= 0
    BY <1>1, WeightsAssumption DEF TypeOK, StockNonNegative
  <2>3. qty[p] + Signed(kg, type) >= 0
    BY <2>1, <2>2 DEF ReadForMovement, Covers, Signed, Types
  <2> QED BY <2>1, <2>3, BeginStarts, BeginKeepsStock DEF ReadForMovement
<1>3. CASE BeginRevert(r)
  BY <1>3 DEF BeginRevert
<1>4. CASE BeginAdjust(r)
  <2>1. PICK p \in Products, kg \in Kgs, type \in Types :
          /\ qty[p] + Signed(kg, type) >= 0
          /\ Begin(r, [kind |-> "adjust", product |-> p, kg |-> kg, type |-> type,
                       seenQty |-> qty[p], seenRoom |-> roomOf[p]])
    BY <1>4 DEF BeginAdjust
  <2> QED BY <2>1, BeginStarts, BeginKeepsStock
<1>5. CASE BeginCreate(r)
  <2>1. PICK m \in Rooms, s \in Sites, kg \in Kgs :
          Begin(r, [kind |-> "create", room |-> m, site |-> s, kg |-> kg])
    BY <1>5 DEF BeginCreate
  <2> QED BY <2>1, BeginStarts, BeginKeepsStock
<1>6. CASE BeginUpdate(r)
  <2>1. PICK p \in Products, m \in Rooms \cup {NULL}, s \in Sites \cup {NULL},
             kg \in PatchKgs :
          Begin(r, [kind |-> "patch", product |-> p, toRoom |-> m, toSite |-> s, toKg |-> kg,
                    seenQty |-> qty[p], seenRoom |-> roomOf[p], seenSite |-> siteOf[p]])
    BY <1>6 DEF BeginUpdate
  <2> QED BY <2>1, BeginStarts, BeginKeepsStock
<1>7. CASE BeginRemove(r)
  <2>1. PICK p \in Products :
          Begin(r, [kind |-> "remove", product |-> p, seenQty |-> qty[p],
                    seenRoom |-> roomOf[p]])
    BY <1>7 DEF BeginRemove
  <2> QED BY <2>1, BeginStarts, BeginKeepsStock
<1>8. CASE CommitRecord(r)
  <2>1. q \in RecordReq
    BY <1>1, <1>8, SlotKinds DEF CommitRecord, TypeOK
  <2>2. q.kg \in Nat /\ q.type \in Types /\ q.seenQty \in Int
    BY <2>1 DEF RecordReq
  <2>3. q.seenQty + Signed(q.kg, q.type) \in Int
    BY <2>2, SignedType
  <2>4. q.seenQty + Signed(q.kg, q.type) >= 0
    BY <1>8 DEF CommitRecord, StockInv, PendingWritesFit
  <2>5. \A n \in Products : qty'[n] >= 0
    BY <1>8, <2>3, <2>4, OneWeightWritten DEF CommitRecord
  <2> QED BY <1>8, <2>5, FinishKeepsStock DEF CommitRecord
<1>9. CASE CommitRevert(r)
  BY <1>9 DEF CommitRevert, StockInv, PendingWritesFit
<1>10. CASE CommitAdjust(r)
  <2>1. q \in AdjustReq
    BY <1>1, <1>10, SlotKinds DEF CommitAdjust, TypeOK
  <2>2. q.kg \in Nat /\ q.type \in Types /\ q.seenQty \in Int
    BY <2>1 DEF AdjustReq
  <2>3. q.seenQty + Signed(q.kg, q.type) \in Int
    BY <2>2, SignedType
  <2>4. q.seenQty + Signed(q.kg, q.type) >= 0
    BY <1>10 DEF CommitAdjust, StockInv, PendingWritesFit
  <2>5. \A n \in Products : qty'[n] >= 0
    BY <1>10, <2>3, <2>4, OneWeightWritten DEF CommitAdjust
  <2> QED BY <1>10, <2>5, FinishKeepsStock DEF CommitAdjust
<1>11. CASE CommitCreate(r)
  <2>1. q.kg \in Nat
    BY <1>1, <1>11, SlotKinds DEF CommitCreate, TypeOK, CreateReq
  <2>2. PICK p \in Products : qty' = [qty EXCEPT ![p] = q.kg]
    BY <1>11 DEF CommitCreate
  <2>3. q.kg \in Int /\ q.kg >= 0
    BY <2>1
  <2>4. \A n \in Products : qty'[n] >= 0
    BY <2>2, <2>3, OneWeightWritten
  <2> QED BY <1>11, <2>4, FinishKeepsStock DEF CommitCreate
<1>12. CASE CommitUpdate(r)
  <2>1. q.toKg \in Nat \cup {NULL} /\ q.product \in Products
    <3>1. q \in UpdateReq
      BY <1>1, <1>12, SlotKinds DEF CommitUpdate, TypeOK
    <3> QED BY <3>1 DEF UpdateReq
  <2>2. qty' = [qty EXCEPT ![q.product] = Target(q.toKg, qty[q.product])]
    BY <1>12 DEF CommitUpdate
  <2>3. /\ Target(q.toKg, qty[q.product]) \in Int
        /\ Target(q.toKg, qty[q.product]) >= 0
    <3>1. qty[q.product] \in Int /\ qty[q.product] >= 0
      BY <1>1, <2>1 DEF TypeOK, StockNonNegative
    <3> HIDE DEF q
    <3>2. CASE q.toKg = NULL
      BY <3>1, <3>2 DEF Target
    <3>3. CASE q.toKg # NULL
      BY <2>1, <3>3 DEF Target
    <3> QED BY <3>2, <3>3
  <2>4. \A n \in Products : qty'[n] >= 0
    BY <2>2, <2>3, OneWeightWritten
  <2> QED BY <1>12, <2>4, FinishKeepsStock DEF CommitUpdate
<1>13. CASE CommitRemove(r) \/ RollBack(r) \/ UpdateColdRoom(r) \/ RemoveColdRoom(r)
  <2>1. qty' = qty /\ Finish(r)
    BY <1>13 DEF CommitRemove, RollBack, UpdateColdRoom, RemoveColdRoom, productVars
  <2> QED BY <1>1, <2>1, FinishKeepsStock DEF StockNonNegative
<1>14. CASE CheckUpdate(r)
  <2>1. Checked(q).kind = "update" /\ Starts(r, Checked(q))
    BY <1>1, <1>14, CheckedSlot
  <2> QED BY <2>1, BeginStarts, BeginKeepsStock
<1>15. CASE BeginUpdateRoom(r)
  <2>1. PICK m \in Rooms, s \in Sites \cup {NULL}, c \in Capacities \cup {NULL} :
          Begin(r, [kind |-> "roomUpdate", room |-> m, toSite |-> s, toCapacity |-> c])
    BY <1>15 DEF BeginUpdateRoom
  <2> QED BY <2>1, BeginStarts, BeginKeepsStock
<1>16. CASE BeginRemoveRoom(r)
  <2>1. PICK m \in Rooms : Begin(r, [kind |-> "roomRemove", room |-> m])
    BY <1>16 DEF BeginRemoveRoom
  <2> QED BY <2>1, BeginStarts, BeginKeepsStock
<1> QED BY <1>2, <1>3, <1>4, <1>5, <1>6, <1>7, <1>8, <1>9, <1>10, <1>11, <1>12,
           <1>13, <1>14, <1>15, <1>16 DEF Handle, Read, Commit

LEMMA InitStock == Init => StockInv
BY InitType, SeedAssumption DEF Init, StockInv, StockNonNegative, PendingWritesFit, Idle

LEMMA NextStock ==
    ASSUME "revert" \notin Kinds
    PROVE  StockInv /\ [Next]_vars => StockInv'
<1> SUFFICES ASSUME StockInv, [Next]_vars PROVE StockInv'
  OBVIOUS
<1>1. TypeOK'
  BY NextType DEF StockInv
<1>2. ASSUME NEW r \in Requests, Handle(r) PROVE StockInv'
  BY <1>1, <1>2, HandleKeepsStock
<1>3. CASE CreateColdRoom \/ UNCHANGED vars
  <2>1. UNCHANGED <<qty, requests>>
    BY <1>3 DEF CreateColdRoom, productVars, vars
  <2>2. StockNonNegative'
    BY <2>1 DEF StockInv, StockNonNegative
  <2>3. PendingWritesFit'
    BY <2>1 DEF StockInv, PendingWritesFit, Signed
  <2> QED BY <1>1, <2>2, <2>3 DEF StockInv
<1> QED BY <1>2, <1>3 DEF Next

\* As long as no movement is reverted, no overlap of any number of handlers
\* takes stock below zero, stale reads included: a stale write is still a write
\* that was checked against the value it was computed from.
THEOREM StockStaysNonNegative ==
    ASSUME "revert" \notin Kinds
    PROVE  Spec => []StockNonNegative
<1>1. StockInv => StockNonNegative
  BY DEF StockInv
<1> QED BY <1>1, InitStock, NextStock, PTL DEF Spec

-----------------------------------------------------------------------------
(* Sites *)

OwnProduct(p) == Exists(p) /\ siteOf[p] \in Callers
OwnRoom(m)    == roomSite[m] \in Callers

\* What a handler is going to write belonged to a caller when it was read.
OwnSlot(q) ==
    /\ q.kind \in {"record", "adjust", "patch", "update", "remove"} => OwnProduct(q.product)
    /\ q.kind \in {"record", "create", "roomUpdate", "roomRemove"} => OwnRoom(q.room)
    /\ q.kind \in {"adjust", "patch", "update", "remove"} => OwnRoom(q.seenRoom)
    /\ q.kind = "create" => q.site \in Callers
    /\ q.kind \in {"patch", "update", "roomUpdate"} => (q.toSite # NULL => q.toSite \in Callers)
    /\ q.kind = "patch" => q.seenSite \in Callers
    /\ q.kind = "update" => (q.toRoom # NULL => OwnRoom(q.toRoom))
    /\ q.kind = "revert" => OwnProduct(q.row.product) /\ OwnRoom(q.row.room)

\* It still does when it is written, since nobody but a SUPER_ADMIN hands a
\* product or a room to a site that is no caller's.  Products have to stand in
\* rooms of the callers, and movements to be theirs, for adjustments and
\* reversals, which do not look at the site of the room.
ApartInv ==
    /\ TypeOK
    /\ \A p \in Products : OwnProduct(p) => OwnRoom(roomOf[p])
    /\ \A i \in DOMAIN movements :
          OwnProduct(movements[i].product) /\ OwnRoom(movements[i].room)
    /\ \A r \in Requests : OwnSlot(requests[r])

\* A manager who may act on the rows of a site is of that site.
LEMMA MayIsOwn ==
    ASSUME Admin \notin Callers, NEW u \in Callers, NEW site, May(u, site)
    PROVE  site = u /\ site \in Callers
BY DEF May

\* A handler starts on what belongs to a caller.
LEMMA BeginOwn ==
    ASSUME Admin \notin Callers, ApartInv, TypeOK', NEW r \in Requests, NEW slot,
           Starts(r, slot), OwnSlot(slot)
    PROVE  ApartInv'
<1>1. UNCHANGED <<productVars, roomVars, movements>> /\ requests' = [requests EXCEPT ![r] = slot]
  BY DEF Starts
<1>2. UNCHANGED <<life, siteOf, roomOf, roomSite, movements>>
  BY <1>1 DEF productVars, roomVars
<1>3. requests \in [Requests -> Request]
  BY DEF ApartInv, TypeOK
<1>4. ASSUME NEW s \in Requests PROVE OwnSlot(requests[s])'
  <2>1. requests'[s] = slot \/ requests'[s] = requests[s]
    BY <1>1, <1>3
  <2>2. OwnSlot(requests[s])
    BY DEF ApartInv
  <2> QED BY <1>2, <2>1, <2>2 DEF OwnSlot, OwnProduct, OwnRoom, Exists
<1> QED BY <1>2, <1>4 DEF ApartInv, OwnProduct, OwnRoom, Exists

\* A handler ends, what was the callers' stays theirs, what it wrote stands in
\* their rooms, and the row it booked is theirs.
LEMMA EndOwn ==
    ASSUME ApartInv, TypeOK', NEW r \in Requests, Finish(r),
           \A m \in Rooms : OwnRoom(m) => OwnRoom(m)',
           \A p \in Products : OwnProduct(p) => OwnProduct(p)',
           \A p \in Products : OwnProduct(p)' => OwnRoom(roomOf[p])',
           \/ movements' = movements
           \/ \E row \in Movement : /\ movements' = Append(movements, row)
                                    /\ OwnProduct(row.product)' /\ OwnRoom(row.room)
    PROVE  ApartInv'
<1>1. TypeOK
  BY DEF ApartInv
<1>2. ASSUME NEW i \in DOMAIN movements'
      PROVE  OwnProduct(movements[i].product)' /\ OwnRoom(movements[i].room)'
  <2>1. ASSUME i \in DOMAIN movements, movements'[i] = movements[i]
        PROVE  OwnProduct(movements[i].product)' /\ OwnRoom(movements[i].room)'
    <3>1. movements[i] \in Movement
      BY <1>1, <2>1 DEF TypeOK
    <3>2. movements[i].product \in Products /\ movements[i].room \in Rooms
      BY <3>1 DEF Movement
    <3>3. OwnProduct(movements[i].product) /\ OwnRoom(movements[i].room)
      BY <2>1 DEF ApartInv
    <3>4. OwnProduct(movements[i].product)' /\ OwnRoom(movements[i].room)'
      BY <2>1, <3>2, <3>3
    <3> QED BY <3>4
  <2>2. CASE movements' = movements
    BY <2>1, <2>2
  <2>3. ASSUME NEW row \in Movement, movements' = Append(movements, row),
               OwnProduct(row.product)', OwnRoom(row.room)
        PROVE  OwnProduct(movements[i].product)' /\ OwnRoom(movements[i].room)'
    <3>1. movements \in Seq(Movement)
      BY <1>1 DEF TypeOK
    <3>2. \/ i \in DOMAIN movements /\ movements'[i] = movements[i]
          \/ movements'[i] = row
      BY <2>3, <3>1
    <3>3. OwnRoom(row.room)'
      BY <2>3 DEF Movement
    <3> QED BY <2>1, <2>3, <3>2, <3>3 DEF OwnProduct, OwnRoom, Exists
  <2> QED BY <2>2, <2>3
<1>3. ASSUME NEW s \in Requests PROVE OwnSlot(requests[s])'
  <2>1. CASE s = r
    <3>1. requests'[s] = Idle
      BY <1>1, <2>1 DEF Finish, TypeOK
    <3> QED BY <3>1 DEF OwnSlot, Idle
  <2>2. CASE s # r
    <3>1. requests'[s] = requests[s] /\ requests[s] \in Request
      BY <1>1, <2>2 DEF Finish, TypeOK
    <3>2. OwnSlot(requests[s])
      BY DEF ApartInv
    <3>3. /\ OwnProduct(requests[s].product) /\ requests[s].product \in Products =>
               OwnProduct(requests[s].product)'
          /\ OwnRoom(requests[s].room) /\ requests[s].room \in Rooms => OwnRoom(requests[s].room)'
          /\ OwnRoom(requests[s].seenRoom) /\ requests[s].seenRoom \in Rooms =>
               OwnRoom(requests[s].seenRoom)'
          /\ OwnRoom(requests[s].toRoom) /\ requests[s].toRoom \in Rooms =>
               OwnRoom(requests[s].toRoom)'
          /\ OwnProduct(requests[s].row.product) /\ requests[s].row.product \in Products =>
               OwnProduct(requests[s].row.product)'
          /\ OwnRoom(requests[s].row.room) /\ requests[s].row.room \in Rooms =>
               OwnRoom(requests[s].row.room)'
      BY <3>1 DEF OwnProduct, OwnRoom, Exists
    <3> QED BY <3>1, <3>2, <3>3, SlotKeys DEF OwnSlot
  <2> QED BY <2>1, <2>2
<1> QED BY <1>2, <1>3 DEF ApartInv

LEMMA CommitOwn ==
    ASSUME ApartInv, TypeOK', NEW r \in Requests, Finish(r), roomSite' = roomSite,
           \A p \in Products : OwnProduct(p) => OwnProduct(p)',
           \A p \in Products : OwnProduct(p)' => OwnRoom(roomOf[p])',
           \/ movements' = movements
           \/ \E row \in Movement : /\ movements' = Append(movements, row)
                                    /\ OwnProduct(row.product)' /\ OwnRoom(row.room)
    PROVE  ApartInv'
<1>1. \A m \in Rooms : OwnRoom(m) => OwnRoom(m)'
  BY DEF OwnRoom
<1> QED BY <1>1, EndOwn

\* A step that leaves the products and rooms of the other sites alone.
TouchesOwn ==
    /\ \A p \in Products : Exists(p) /\ siteOf[p] \notin Callers =>
         /\ qty'[p] = qty[p] /\ status'[p] = status[p] /\ life'[p] = life[p]
         /\ roomOf'[p] = roomOf[p] /\ siteOf'[p] = siteOf[p]
    /\ \A m \in Rooms : RoomExists(m) /\ roomSite[m] \notin Callers =>
         /\ used'[m] = used[m] /\ capacity'[m] = capacity[m]
         /\ roomSite'[m] = roomSite[m] /\ roomLife'[m] = roomLife[m]

LEMMA UntouchedIsOwn ==
    ASSUME UNCHANGED <<productVars, roomVars>>
    PROVE  TouchesOwn
BY DEF TouchesOwn, productVars, roomVars

LEMMA BeginsOwn ==
    ASSUME Admin \notin Callers, ApartInv, TypeOK', NEW r \in Requests,
           Read(r)
    PROVE  ApartInv' /\ TouchesOwn
<1>0. ASSUME NEW slot, Starts(r, slot), OwnSlot(slot) PROVE ApartInv' /\ TouchesOwn
  <2>1. UNCHANGED <<productVars, roomVars>>
    BY <1>0 DEF Starts
  <2> QED BY <1>0, <2>1, BeginOwn, UntouchedIsOwn
<1>1. ASSUME NEW slot, Begin(r, slot), OwnSlot(slot) PROVE ApartInv' /\ TouchesOwn
  BY <1>0, <1>1, BeginStarts
<1>2. TypeOK /\ \A p \in Products : OwnProduct(p) => OwnRoom(roomOf[p])
  BY DEF ApartInv
<1>3. CASE BeginRecord(r)
  <2>1. PICK p \in Products, m \in Rooms, kg \in Kgs, type \in Types, u \in Callers :
          ReadForMovement(r, p, m, kg, type, u)
    BY <1>3 DEF BeginRecord
  <2> DEFINE slot == [kind |-> "record", product |-> p, room |-> m, kg |-> kg,
                      type |-> type, seenQty |-> qty[p]]
  <2>2. OwnProduct(p) /\ OwnRoom(m)
    BY <2>1, MayIsOwn DEF ReadForMovement, OwnsBoth, OwnProduct, OwnRoom
  <2>3. OwnSlot(slot)
    BY <2>2 DEF OwnSlot
  <2> HIDE DEF slot
  <2> QED BY <1>1, <2>1, <2>3 DEF ReadForMovement, slot
<1>4. CASE BeginRevert(r)
  <2>1. PICK i \in DOMAIN movements : Begin(r, [kind |-> "revert", row |-> movements[i]])
    BY <1>4 DEF BeginRevert
  <2> DEFINE slot == [kind |-> "revert", row |-> movements[i]]
  <2>2. OwnProduct(movements[i].product) /\ OwnRoom(movements[i].room)
    BY DEF ApartInv
  <2>3. OwnSlot(slot)
    BY <2>2 DEF OwnSlot
  <2> HIDE DEF slot
  <2> QED BY <1>1, <2>1, <2>3 DEF slot
<1>5. CASE BeginAdjust(r)
  <2>1. PICK p \in Products, kg \in Kgs, type \in Types, u \in Callers :
          /\ Live(p) /\ May(u, siteOf[p])
          /\ Begin(r, [kind |-> "adjust", product |-> p, kg |-> kg, type |-> type,
                       seenQty |-> qty[p], seenRoom |-> roomOf[p]])
    BY <1>5 DEF BeginAdjust
  <2> DEFINE slot == [kind |-> "adjust", product |-> p, kg |-> kg, type |-> type,
                      seenQty |-> qty[p], seenRoom |-> roomOf[p]]
  <2>2. OwnProduct(p) /\ OwnRoom(roomOf[p])
    BY <1>2, <2>1, MayIsOwn DEF Live, OwnProduct, Exists
  <2>3. OwnSlot(slot)
    BY <2>2 DEF OwnSlot
  <2> HIDE DEF slot
  <2> QED BY <1>1, <2>1, <2>3 DEF slot
<1>6. CASE BeginCreate(r)
  <2>1. PICK m \in Rooms, s \in Sites, kg \in Kgs, u \in Callers :
          /\ May(u, s) /\ BelongsTo(m, s)
          /\ Begin(r, [kind |-> "create", room |-> m, site |-> s, kg |-> kg])
    BY <1>6 DEF BeginCreate
  <2> DEFINE slot == [kind |-> "create", room |-> m, site |-> s, kg |-> kg]
  <2>2. s \in Callers /\ OwnRoom(m)
    BY <2>1, MayIsOwn DEF BelongsTo, OwnRoom
  <2>3. OwnSlot(slot)
    BY <2>2 DEF OwnSlot
  <2> HIDE DEF slot
  <2> QED BY <1>1, <2>1, <2>3 DEF slot
<1>7. CASE BeginUpdate(r)
  <2>1. PICK p \in Products, m \in Rooms \cup {NULL}, s \in Sites \cup {NULL},
             kg \in PatchKgs, u \in Callers :
          /\ Live(p) /\ May(u, siteOf[p])
          /\ u # Admin => s \in {NULL, siteOf[p]}
          /\ Begin(r, [kind |-> "patch", product |-> p, toRoom |-> m, toSite |-> s, toKg |-> kg,
                       seenQty |-> qty[p], seenRoom |-> roomOf[p], seenSite |-> siteOf[p]])
    BY <1>7 DEF BeginUpdate
  <2> DEFINE slot == [kind |-> "patch", product |-> p, toRoom |-> m, toSite |-> s, toKg |-> kg,
                      seenQty |-> qty[p], seenRoom |-> roomOf[p], seenSite |-> siteOf[p]]
  <2>2. siteOf[p] \in Callers /\ OwnProduct(p) /\ OwnRoom(roomOf[p])
    BY <1>2, <2>1, MayIsOwn DEF Live, OwnProduct, Exists
  <2>3. s # NULL => s \in Callers
    BY <2>1, <2>2
  <2>5. OwnSlot(slot)
    BY <2>2, <2>3 DEF OwnSlot
  <2> HIDE DEF slot
  <2> QED BY <1>1, <2>1, <2>5 DEF slot
<1>8. CASE BeginRemove(r)
  <2>1. PICK p \in Products, u \in Callers :
          /\ Live(p) /\ May(u, siteOf[p])
          /\ Begin(r, [kind |-> "remove", product |-> p, seenQty |-> qty[p],
                       seenRoom |-> roomOf[p]])
    BY <1>8 DEF BeginRemove
  <2> DEFINE slot == [kind |-> "remove", product |-> p, seenQty |-> qty[p],
                      seenRoom |-> roomOf[p]]
  <2>2. OwnProduct(p) /\ OwnRoom(roomOf[p])
    BY <1>2, <2>1, MayIsOwn DEF Live, OwnProduct, Exists
  <2>3. OwnSlot(slot)
    BY <2>2 DEF OwnSlot
  <2> HIDE DEF slot
  <2> QED BY <1>1, <2>1, <2>3 DEF slot
<1>9. CASE CheckUpdate(r)
  <2> DEFINE q == requests[r]
  <2>1. /\ q.kind = "patch" /\ OwnProduct(q.product) /\ OwnRoom(q.seenRoom)
        /\ (q.toSite # NULL => q.toSite \in Callers) /\ q.seenSite \in Callers
    BY <1>9 DEF CheckUpdate, ApartInv, OwnSlot
  <2>2. q.toRoom # NULL => OwnRoom(q.toRoom)
    BY <1>9, <2>1 DEF CheckUpdate, BelongsTo, OwnRoom, Target
  <2>3. /\ Checked(q).kind = "update" /\ Checked(q).product = q.product
        /\ Checked(q).toRoom = q.toRoom /\ Checked(q).toSite = q.toSite
        /\ Checked(q).seenRoom = q.seenRoom /\ Starts(r, Checked(q))
    BY <1>2, <1>9, CheckedSlot
  <2>4. OwnSlot(Checked(q))
    BY <2>1, <2>2, <2>3 DEF OwnSlot
  <2> QED BY <1>0, <2>3, <2>4
<1>10. CASE BeginUpdateRoom(r)
  <2>1. PICK m \in Rooms, s \in Sites \cup {NULL}, c \in Capacities \cup {NULL}, u \in Callers :
          /\ May(u, roomSite[m])
          /\ u # Admin => s \in {NULL, u}
          /\ Begin(r, [kind |-> "roomUpdate", room |-> m, toSite |-> s, toCapacity |-> c])
    BY <1>10 DEF BeginUpdateRoom
  <2> DEFINE slot == [kind |-> "roomUpdate", room |-> m, toSite |-> s, toCapacity |-> c]
  <2>2. OwnRoom(m) /\ (s # NULL => s \in Callers)
    BY <2>1, MayIsOwn DEF OwnRoom
  <2>3. OwnSlot(slot)
    BY <2>2 DEF OwnSlot
  <2> HIDE DEF slot
  <2> QED BY <1>1, <2>1, <2>3 DEF slot
<1>11. CASE BeginRemoveRoom(r)
  <2>1. PICK m \in Rooms, u \in Callers :
          /\ May(u, roomSite[m])
          /\ Begin(r, [kind |-> "roomRemove", room |-> m])
    BY <1>11 DEF BeginRemoveRoom
  <2> DEFINE slot == [kind |-> "roomRemove", room |-> m]
  <2>2. OwnRoom(m)
    BY <2>1, MayIsOwn DEF OwnRoom
  <2>3. OwnSlot(slot)
    BY <2>2 DEF OwnSlot
  <2> HIDE DEF slot
  <2> QED BY <1>1, <2>1, <2>3 DEF slot
<1> QED BY <1>3, <1>4, <1>5, <1>6, <1>7, <1>8, <1>9, <1>10, <1>11 DEF Read

\* A commit that writes the weight of an own product and of an own room, and
\* books a row for the two, as those of movements, reversals and adjustments.
LEMMA BookOwn ==
    ASSUME ApartInv, TypeOK', NEW r \in Requests, NEW p \in Products, NEW m \in Rooms,
           NEW v, NEW w, NEW kg \in Nat, NEW type \in Types,
           OwnProduct(p), OwnRoom(m),
           qty' = [qty EXCEPT ![p] = v], used' = [used EXCEPT ![m] = w],
           \A o \in Products \ {p} : status'[o] = status[o],
           Post(p, m, kg, type), Finish(r),
           UNCHANGED <<roomOf, siteOf, life, capacity, roomSite, roomLife>>
    PROVE  ApartInv' /\ TouchesOwn
<1>1. TypeOK
  BY DEF ApartInv
<1>2. TouchesOwn
  BY <1>1 DEF TouchesOwn, OwnProduct, OwnRoom, TypeOK
<1>3. \A o \in Products : OwnProduct(o)' <=> OwnProduct(o)
  BY DEF OwnProduct, Exists
<1>4. \A o \in Products : OwnProduct(o)' => OwnRoom(roomOf[o])'
  BY <1>3 DEF ApartInv, OwnRoom
<1> DEFINE row == [product |-> p, room |-> m, kg |-> kg, type |-> type]
<1>5. row \in Movement /\ movements' = Append(movements, row)
  BY DEF Movement, Post
<1>6. OwnProduct(row.product)' /\ OwnRoom(row.room)
  BY <1>3
<1> HIDE DEF row
<1>7. ApartInv'
  BY <1>3, <1>4, <1>5, <1>6, CommitOwn
<1> QED BY <1>2, <1>7

LEMMA CommitsOwn ==
    ASSUME ApartInv, TypeOK', NEW r \in Requests,
           Commit(r) \/ RollBack(r)
    PROVE  ApartInv' /\ TouchesOwn
<1> DEFINE q == requests[r]
<1>1. /\ TypeOK /\ OwnSlot(q) /\ q \in Request
      /\ \A p \in Products : OwnProduct(p) => OwnRoom(roomOf[p])
  BY DEF ApartInv, TypeOK
<1>2. CASE CommitRecord(r)
  <2>1. q \in RecordReq /\ OwnProduct(q.product) /\ OwnRoom(q.room)
    BY <1>1, <1>2, SlotKinds DEF CommitRecord, OwnSlot
  <2>2. q.product \in Products /\ q.room \in Rooms /\ q.kg \in Nat /\ q.type \in Types
    BY <2>1 DEF RecordReq
  <2>3. /\ qty' = [qty EXCEPT ![q.product] = q.seenQty + Signed(q.kg, q.type)]
        /\ used' = [used EXCEPT ![q.room] = used[q.room] + Signed(q.kg, q.type)]
        /\ Post(q.product, q.room, q.kg, q.type) /\ Finish(r)
        /\ \A o \in Products \ {q.product} : status'[o] = status[o]
        /\ UNCHANGED <<roomOf, siteOf, life, capacity, roomSite, roomLife>>
    BY <1>2 DEF CommitRecord
  <2> QED BY <2>1, <2>2, <2>3, BookOwn
<1>3. CASE CommitRevert(r)
  <2> DEFINE row  == q.row
             back == Opposite(row.type)
  <2>1. q \in RevertReq /\ OwnProduct(row.product) /\ OwnRoom(row.room)
    BY <1>1, <1>3, SlotKinds DEF CommitRevert, OwnSlot
  <2>2. /\ row.product \in Products /\ row.room \in Rooms /\ row.kg \in Nat
        /\ back \in Types
    BY <2>1, OppositeType DEF RevertReq, Movement
  <2>3. /\ qty' = [qty EXCEPT ![row.product] = qty[row.product] + Signed(row.kg, back)]
        /\ used' = [used EXCEPT ![row.room] = used[row.room] + Signed(row.kg, back)]
        /\ Post(row.product, row.room, row.kg, back) /\ Finish(r)
        /\ \A o \in Products \ {row.product} : status'[o] = status[o]
        /\ UNCHANGED <<roomOf, siteOf, life, capacity, roomSite, roomLife>>
    BY <1>3 DEF CommitRevert
  <2> HIDE DEF row, back
  <2> QED BY <2>1, <2>2, <2>3, BookOwn
<1>4. CASE CommitAdjust(r)
  <2>1. q \in AdjustReq /\ OwnProduct(q.product) /\ OwnRoom(q.seenRoom)
    BY <1>1, <1>4, SlotKinds DEF CommitAdjust, OwnSlot
  <2>2. q.product \in Products /\ q.seenRoom \in Rooms /\ q.kg \in Nat /\ q.type \in Types
    BY <2>1 DEF AdjustReq
  <2>3. /\ qty' = [qty EXCEPT ![q.product] = q.seenQty + Signed(q.kg, q.type)]
        /\ used' = [used EXCEPT ![q.seenRoom] = used[q.seenRoom] + Signed(q.kg, q.type)]
        /\ Post(q.product, q.seenRoom, q.kg, q.type) /\ Finish(r)
        /\ \A o \in Products \ {q.product} : status'[o] = status[o]
        /\ UNCHANGED <<roomOf, siteOf, life, capacity, roomSite, roomLife>>
    BY <1>1, <1>4 DEF CommitAdjust, RoomToAdjust, TypeOK
  <2> QED BY <2>1, <2>2, <2>3, BookOwn
<1>5. CASE CommitCreate(r)
  <2>1. q \in CreateReq /\ q.site \in Callers /\ OwnRoom(q.room)
    BY <1>1, <1>5, SlotKinds DEF CommitCreate, OwnSlot
  <2>2. q.room \in Rooms /\ q.site \in Sites /\ q.kg \in Nat
    BY <2>1 DEF CreateReq
  <2>3. PICK p \in Products :
          /\ ~Exists(p)
          /\ qty' = [qty EXCEPT ![p] = q.kg]
          /\ status' = [status EXCEPT ![p] = "IN_STOCK"]
          /\ roomOf' = [roomOf EXCEPT ![p] = q.room]
          /\ siteOf' = [siteOf EXCEPT ![p] = q.site]
          /\ life' = [life EXCEPT ![p] = "live"]
          /\ Post(p, q.room, q.kg, "IN")
    BY <1>5 DEF CommitCreate
  <2>4. /\ used' = [used EXCEPT ![q.room] = used[q.room] + q.kg]
        /\ Finish(r) /\ UNCHANGED <<capacity, roomSite, roomLife>>
    BY <1>5 DEF CommitCreate
  <2>5. TouchesOwn
    BY <1>1, <2>1, <2>2, <2>3, <2>4 DEF TouchesOwn, OwnRoom, TypeOK
  <2>6. OwnProduct(p)' /\ roomOf'[p] = q.room
    <3>1. siteOf'[p] = q.site /\ life'[p] = "live" /\ roomOf'[p] = q.room
      BY <1>1, <2>3 DEF TypeOK
    <3> QED BY <2>1, <3>1 DEF OwnProduct, Exists
  <2>7. \A o \in Products : o # p => (OwnProduct(o)' <=> OwnProduct(o)) /\ roomOf'[o] = roomOf[o]
    BY <1>1, <2>3 DEF OwnProduct, Exists, TypeOK
  <2>8. \A o \in Products : OwnProduct(o) => OwnProduct(o)'
    BY <2>6, <2>7
  <2>9. \A o \in Products : OwnProduct(o)' => OwnRoom(roomOf[o])'
    BY <1>1, <2>1, <2>4, <2>6, <2>7 DEF OwnRoom
  <2>10. PICK row \in Movement :
           row = [product |-> p, room |-> q.room, kg |-> q.kg, type |-> "IN"]
    BY <2>2 DEF Movement, Types
  <2>11. movements' = Append(movements, row) /\ row.product = p /\ row.room = q.room
    BY <2>3, <2>10 DEF Post
  <2>12. ApartInv'
    BY <2>1, <2>4, <2>6, <2>8, <2>9, <2>11, CommitOwn
  <2> QED BY <2>5, <2>12
<1>6. CASE CommitUpdate(r)
  <2>1. /\ q \in UpdateReq /\ OwnProduct(q.product) /\ OwnRoom(q.seenRoom)
        /\ q.toSite # NULL => q.toSite \in Callers
        /\ q.toRoom # NULL => OwnRoom(q.toRoom)
    BY <1>1, <1>6, SlotKinds DEF CommitUpdate, OwnSlot
  <2>2. q.product \in Products /\ q.seenRoom \in Rooms
    BY <2>1 DEF UpdateReq
  <2>3. /\ used' = Shifted(used, q)
        /\ roomOf' = [roomOf EXCEPT ![q.product] = Target(q.toRoom, roomOf[q.product])]
        /\ siteOf' = [siteOf EXCEPT ![q.product] = Target(q.toSite, siteOf[q.product])]
        /\ qty' = [qty EXCEPT ![q.product] = Target(q.toKg, qty[q.product])]
        /\ Finish(r)
        /\ UNCHANGED <<status, life, capacity, roomSite, roomLife, movements>>
    BY <1>6 DEF CommitUpdate
  <2>4. ASSUME NEW m \in Rooms, ~OwnRoom(m) PROVE used'[m] = used[m]
    <3>1. CASE Moves(q)
      <4>1. m # q.seenRoom /\ m # q.toRoom
        BY <2>1, <2>4, <3>1 DEF Moves
      <4> QED BY <1>1, <2>3, <3>1, <4>1 DEF Shifted, TypeOK
    <3>2. CASE ~Moves(q)
      BY <2>3, <3>2 DEF Shifted
    <3> QED BY <3>1, <3>2
  <2>5. TouchesOwn
    BY <1>1, <2>1, <2>2, <2>3, <2>4 DEF TouchesOwn, OwnProduct, OwnRoom, TypeOK
  <2>6. siteOf'[q.product] \in Callers /\ OwnRoom(roomOf'[q.product])
    <3>1. siteOf'[q.product] = Target(q.toSite, siteOf[q.product])
      BY <1>1, <2>2, <2>3 DEF TypeOK
    <3>2. roomOf'[q.product] = Target(q.toRoom, roomOf[q.product])
      BY <1>1, <2>2, <2>3 DEF TypeOK
    <3>3. Target(q.toSite, siteOf[q.product]) \in Callers
      BY <2>1 DEF Target, OwnProduct
    <3>4. OwnRoom(Target(q.toRoom, roomOf[q.product]))
      BY <1>1, <2>1, <2>2 DEF Target
    <3> QED BY <3>1, <3>2, <3>3, <3>4
  <2>7. \A o \in Products : o # q.product => siteOf'[o] = siteOf[o] /\ roomOf'[o] = roomOf[o]
    BY <1>1, <2>3 DEF TypeOK
  <2>8. \A o \in Products : OwnProduct(o) => OwnProduct(o)'
    BY <2>1, <2>3, <2>6, <2>7 DEF OwnProduct, Exists
  <2>9. \A o \in Products : OwnProduct(o)' => OwnRoom(roomOf[o])'
    BY <1>1, <2>3, <2>6, <2>7 DEF OwnProduct, OwnRoom, Exists
  <2> QED BY <2>3, <2>5, <2>8, <2>9, CommitOwn
<1>7. CASE CommitRemove(r)
  <2>1. q \in RemoveReq /\ OwnProduct(q.product) /\ OwnRoom(q.seenRoom)
    BY <1>1, <1>7, SlotKinds DEF CommitRemove, OwnSlot
  <2>2. /\ life' = [life EXCEPT ![q.product] = "deleted"]
        /\ status' = [status EXCEPT ![q.product] = "OUT_OF_STOCK"]
        /\ used' = [used EXCEPT ![q.seenRoom] = used[q.seenRoom] - q.seenQty]
        /\ Finish(r)
        /\ UNCHANGED <<qty, roomOf, siteOf, capacity, roomSite, roomLife, movements>>
    BY <1>7 DEF CommitRemove
  <2>3. TouchesOwn
    BY <1>1, <2>1, <2>2 DEF TouchesOwn, OwnProduct, OwnRoom, TypeOK
  <2>4. \A o \in Products : OwnProduct(o)' <=> OwnProduct(o)
    BY <1>1, <2>1, <2>2 DEF OwnProduct, Exists, TypeOK
  <2>5. \A o \in Products : OwnProduct(o)' => OwnRoom(roomOf[o])'
    BY <1>1, <2>2, <2>4 DEF OwnRoom
  <2> QED BY <2>2, <2>3, <2>4, <2>5, CommitOwn
<1>8. CASE RollBack(r)
  <2>1. /\ Finish(r)
        /\ UNCHANGED <<roomOf, siteOf, life, roomSite, movements>>
        /\ UNCHANGED <<productVars, roomVars>>
    BY <1>8 DEF RollBack, productVars, roomVars
  <2>2. /\ \A o \in Products : OwnProduct(o)' <=> OwnProduct(o)
        /\ \A o \in Products : OwnProduct(o)' => OwnRoom(roomOf[o])'
    BY <1>1, <2>1 DEF OwnProduct, OwnRoom, Exists
  <2> QED BY <2>1, <2>2, CommitOwn, UntouchedIsOwn
<1>9. CASE UpdateColdRoom(r)
  <2>1. q \in RoomReq /\ OwnRoom(q.room) /\ (q.toSite # NULL => q.toSite \in Callers)
    BY <1>1, <1>9, SlotKinds DEF UpdateColdRoom, OwnSlot
  <2>2. /\ roomSite' = [roomSite EXCEPT ![q.room] = Target(q.toSite, roomSite[q.room])]
        /\ capacity' = [capacity EXCEPT ![q.room] = Target(q.toCapacity, capacity[q.room])]
        /\ Finish(r)
        /\ UNCHANGED <<qty, status, roomOf, siteOf, life, used, roomLife, movements>>
    BY <1>9 DEF UpdateColdRoom, productVars
  <2>3. Target(q.toSite, roomSite[q.room]) \in Callers
    BY <2>1 DEF Target, OwnRoom
  <2>4. \A m \in Rooms : OwnRoom(m) => OwnRoom(m)'
    BY <1>1, <2>2, <2>3 DEF OwnRoom, TypeOK
  <2>5. TouchesOwn
    BY <1>1, <2>1, <2>2 DEF TouchesOwn, OwnRoom, TypeOK
  <2>6. \A o \in Products : OwnProduct(o)' <=> OwnProduct(o)
    BY <2>2 DEF OwnProduct, Exists
  <2>7. \A o \in Products : OwnProduct(o)' => OwnRoom(roomOf[o])'
    <3>1. \A o \in Products : roomOf[o] \in Rooms /\ roomOf'[o] = roomOf[o]
      BY <1>1, <2>2 DEF TypeOK
    <3>2. ASSUME NEW o \in Products, OwnProduct(o)' PROVE OwnRoom(roomOf[o])'
      <4>1. OwnRoom(roomOf[o]) /\ roomOf[o] \in Rooms
        BY <1>1, <2>6, <3>1, <3>2
      <4>2. roomSite'[roomOf[o]] \in Callers
        BY <2>4, <4>1 DEF OwnRoom
      <4> QED BY <2>2, <4>2 DEF OwnRoom
    <3> QED BY <3>2
  <2> QED BY <2>2, <2>4, <2>5, <2>6, <2>7, EndOwn
<1>10. CASE RemoveColdRoom(r)
  <2>1. q \in CloseReq /\ OwnRoom(q.room)
    BY <1>1, <1>10, SlotKinds DEF RemoveColdRoom, OwnSlot
  <2>2. /\ roomLife' = [roomLife EXCEPT ![q.room] = "deleted"]
        /\ Finish(r)
        /\ UNCHANGED <<qty, status, roomOf, siteOf, life, used, capacity, roomSite, movements>>
    BY <1>10 DEF RemoveColdRoom, productVars
  <2>3. TouchesOwn
    BY <1>1, <2>1, <2>2 DEF TouchesOwn, OwnRoom, TypeOK
  <2>4. /\ \A o \in Products : OwnProduct(o)' <=> OwnProduct(o)
        /\ \A o \in Products : OwnProduct(o)' => OwnRoom(roomOf[o])'
    BY <1>1, <2>2 DEF OwnProduct, OwnRoom, Exists
  <2> QED BY <2>2, <2>3, <2>4, CommitOwn
<1> QED BY <1>2, <1>3, <1>4, <1>5, <1>6, <1>7, <1>8, <1>9, <1>10 DEF Commit

\* A room that is created belongs to a caller.
LEMMA RoomsOwn ==
    ASSUME Admin \notin Callers, ApartInv, TypeOK', CreateColdRoom \/ UNCHANGED vars
    PROVE  ApartInv' /\ TouchesOwn
<1>1. TypeOK
  BY DEF ApartInv
<1>2. /\ UNCHANGED <<qty, status, roomOf, siteOf, life, movements, requests>>
      /\ \A m \in Rooms : RoomExists(m) =>
           /\ roomLife'[m] = roomLife[m] /\ used'[m] = used[m]
           /\ capacity'[m] = capacity[m] /\ roomSite'[m] = roomSite[m]
  BY <1>1, RoomsStay
<1>3. \A m \in Rooms : OwnRoom(m) => OwnRoom(m)'
  <2>1. CASE CreateColdRoom
    BY <1>1, <2>1, MayIsOwn DEF CreateColdRoom, OwnRoom, TypeOK
  <2>2. CASE UNCHANGED vars
    BY <2>2 DEF vars, OwnRoom
  <2> QED BY <2>1, <2>2
<1>5. TouchesOwn
  BY <1>2 DEF TouchesOwn
<1>6. \A p \in Products : OwnProduct(p)' => OwnRoom(roomOf[p])'
  <2>1. \A p \in Products : OwnProduct(p) => OwnRoom(roomOf[p]) /\ roomOf[p] \in Rooms
    BY <1>1 DEF ApartInv, TypeOK
  <2> QED BY <1>2, <1>3, <2>1 DEF OwnProduct, OwnRoom, Exists
<1>7. ASSUME NEW i \in DOMAIN movements'
      PROVE  OwnProduct(movements[i].product)' /\ OwnRoom(movements[i].room)'
  <2>1. movements[i] \in Movement
    BY <1>1, <1>2 DEF TypeOK
  <2>2. OwnProduct(movements[i].product) /\ OwnRoom(movements[i].room)
    BY <1>2 DEF ApartInv
  <2> QED BY <1>2, <1>3, <2>1, <2>2 DEF Movement, OwnProduct, OwnRoom, Exists
<1>8. ASSUME NEW s \in Requests PROVE OwnSlot(requests[s])'
  <2>1. OwnSlot(requests[s]) /\ requests[s] \in Request
    BY <1>1 DEF ApartInv, TypeOK
  <2> QED BY <1>2, <1>3, <2>1, SlotKeys DEF OwnSlot, OwnProduct, Exists
<1> QED BY <1>5, <1>6, <1>7, <1>8 DEF ApartInv

LEMMA InitApart == Init => ApartInv
<1> SUFFICES ASSUME Init PROVE ApartInv
  OBVIOUS
<1>1. TypeOK
  BY InitType
<1>2. \A p \in Products : OwnProduct(p) => OwnRoom(roomOf[p])
  BY SeedAssumption DEF Init, OwnProduct, OwnRoom
<1>3. \A r \in Requests : OwnSlot(requests[r])
  BY DEF Init, OwnSlot, Idle
<1> QED BY <1>1, <1>2, <1>3 DEF Init, ApartInv

LEMMA NextApart ==
    ASSUME Admin \notin Callers
    PROVE  ApartInv /\ [Next]_vars => ApartInv' /\ TouchesOwn
<1> SUFFICES ASSUME ApartInv, [Next]_vars PROVE ApartInv' /\ TouchesOwn
  OBVIOUS
<1>1. TypeOK'
  BY NextType DEF ApartInv
<1>2. ASSUME NEW r \in Requests, Handle(r) PROVE ApartInv' /\ TouchesOwn
  BY <1>1, <1>2, BeginsOwn, CommitsOwn DEF Handle
<1> QED BY <1>1, <1>2, RoomsOwn DEF Next

\* Whatever the managers of some sites do, in any order and overlap, the products
\* and cold rooms of the other sites keep their weights, capacities, status and
\* life, and the site they belong to: checks that were made on an earlier read
\* are as good as checks at the commit.
THEOREM SitesStayApart ==
    ASSUME Admin \notin Callers
    PROVE  Spec => SitesApart
<1>1. ApartInv /\ [Next]_vars =>
        [/\ \A p \in Products : Exists(p) /\ siteOf[p] \notin Callers =>
              /\ qty'[p] = qty[p] /\ status'[p] = status[p] /\ life'[p] = life[p]
              /\ roomOf'[p] = roomOf[p] /\ siteOf'[p] = siteOf[p]
         /\ \A m \in Rooms : RoomExists(m) /\ roomSite[m] \notin Callers =>
              /\ used'[m] = used[m] /\ capacity'[m] = capacity[m]
              /\ roomSite'[m] = roomSite[m] /\ roomLife'[m] = roomLife[m]]_vars
  BY NextApart DEF TouchesOwn
<1>2. ApartInv /\ [Next]_vars => ApartInv'
  BY NextApart
<1> QED BY <1>1, <1>2, InitApart, PTL DEF Spec, SitesApart

-----------------------------------------------------------------------------
(* One request at a time: products and the sites of their rooms *)

OneRequest == \E r : Requests = {r}

\* The room and the site a handler is going to write fit each other.
RoomFits(q) ==
    /\ q.kind # "roomUpdate"
    /\ q.kind = "create" => RoomExists(q.room) /\ roomSite[q.room] = q.site
    /\ q.kind = "patch" => /\ Live(q.product) /\ q.seenRoom = roomOf[q.product]
                           /\ q.seenSite = siteOf[q.product]
    /\ q.kind = "update" =>
         LET room == Target(q.toRoom, roomOf[q.product]) IN
         /\ RoomExists(room) /\ roomSite[room] = Target(q.toSite, siteOf[q.product])

HousedInv ==
    /\ TypeOK
    /\ \A p \in Products : Live(p) =>
          RoomExists(roomOf[p]) /\ roomSite[roomOf[p]] = siteOf[p]
    /\ \A r \in Requests : RoomFits(requests[r])

LEMMA BeginHoused ==
    ASSUME OneRequest, HousedInv, TypeOK', NEW r \in Requests, NEW slot,
           Starts(r, slot), RoomFits(slot)
    PROVE  HousedInv'
<1>1. UNCHANGED <<life, siteOf, roomOf, roomSite, roomLife>>
  BY DEF Starts, productVars, roomVars
<1>2. \A s \in Requests : requests'[s] = slot
  BY DEF OneRequest, HousedInv, TypeOK, Starts
<1>3. ASSUME NEW s \in Requests PROVE RoomFits(requests[s])'
  BY <1>1, <1>2 DEF RoomFits, RoomExists, Live
<1> QED BY <1>1, <1>3 DEF HousedInv, Live, RoomExists

LEMMA FinishHoused ==
    ASSUME OneRequest, HousedInv, TypeOK', NEW r \in Requests, Finish(r),
           \A p \in Products : Live(p)' =>
               RoomExists(roomOf[p])' /\ roomSite'[roomOf'[p]] = siteOf'[p]
    PROVE  HousedInv'
<1>1. \A s \in Requests : requests'[s] = Idle
  BY DEF OneRequest, HousedInv, TypeOK, Finish
<1>2. ASSUME NEW s \in Requests PROVE RoomFits(requests[s])'
  BY <1>1 DEF RoomFits, Idle
<1> QED BY <1>2 DEF HousedInv

LEMMA HandleHoused ==
    ASSUME OneRequest, "roomUpdate" \notin Kinds, HousedInv, TypeOK', NEW r \in Requests, Handle(r)
    PROVE  HousedInv'
<1> DEFINE q == requests[r]
<1>1. /\ TypeOK /\ RoomFits(q) /\ q \in Request
      /\ \A p \in Products : Live(p) => RoomExists(roomOf[p]) /\ roomSite[roomOf[p]] = siteOf[p]
  BY DEF HousedInv, TypeOK
<1>2. ASSUME NEW slot, Begin(r, slot), slot.kind \notin {"create", "patch", "update", "roomUpdate"}
      PROVE  HousedInv'
  BY <1>2, BeginStarts, BeginHoused DEF RoomFits
<1>3. CASE BeginRecord(r) \/ BeginRevert(r)
  BY <1>2, <1>3 DEF BeginRecord, ReadForMovement, BeginRevert
<1>4. CASE BeginAdjust(r)
  BY <1>2, <1>4 DEF BeginAdjust
<1>5. CASE BeginRemove(r)
  BY <1>2, <1>5 DEF BeginRemove
<1>6. CASE BeginCreate(r)
  <2>1. PICK m \in Rooms, s \in Sites, kg \in Kgs :
          /\ BelongsTo(m, s)
          /\ Begin(r, [kind |-> "create", room |-> m, site |-> s, kg |-> kg])
    BY <1>6 DEF BeginCreate
  <2> DEFINE slot == [kind |-> "create", room |-> m, site |-> s, kg |-> kg]
  <2>2. RoomFits(slot)
    BY <2>1 DEF BelongsTo, RoomFits
  <2> HIDE DEF slot
  <2> QED BY <2>1, <2>2, BeginStarts, BeginHoused DEF slot
<1>7. CASE BeginUpdate(r)
  <2>1. PICK p \in Products, m \in Rooms \cup {NULL}, s \in Sites \cup {NULL},
             kg \in PatchKgs :
          /\ Live(p)
          /\ Begin(r, [kind |-> "patch", product |-> p, toRoom |-> m, toSite |-> s, toKg |-> kg,
                       seenQty |-> qty[p], seenRoom |-> roomOf[p], seenSite |-> siteOf[p]])
    BY <1>7 DEF BeginUpdate
  <2> DEFINE slot == [kind |-> "patch", product |-> p, toRoom |-> m, toSite |-> s, toKg |-> kg,
                      seenQty |-> qty[p], seenRoom |-> roomOf[p], seenSite |-> siteOf[p]]
  <2>2. RoomFits(slot)
    BY <2>1 DEF RoomFits
  <2> HIDE DEF slot
  <2> QED BY <2>1, <2>2, BeginStarts, BeginHoused DEF slot
<1>8. ASSUME Finish(r), UNCHANGED <<roomOf, siteOf, roomSite, roomLife>>,
             \A p \in Products : life'[p] = "live" => life[p] = "live"
      PROVE  HousedInv'
  BY <1>1, <1>8, FinishHoused DEF Live, RoomExists
<1>9. CASE CommitRecord(r) \/ CommitRevert(r) \/ CommitAdjust(r)
  BY <1>8, <1>9 DEF CommitRecord, CommitRevert, CommitAdjust
<1>10. CASE CommitRemove(r) \/ RollBack(r)
  BY <1>1, <1>8, <1>10 DEF CommitRemove, RollBack, productVars, roomVars, TypeOK
<1>11. CASE CommitCreate(r)
  <2>1. RoomExists(q.room) /\ roomSite[q.room] = q.site
    BY <1>1, <1>11 DEF CommitCreate, RoomFits
  <2>2. PICK p \in Products :
          /\ roomOf' = [roomOf EXCEPT ![p] = q.room]
          /\ siteOf' = [siteOf EXCEPT ![p] = q.site]
          /\ life' = [life EXCEPT ![p] = "live"]
    BY <1>11 DEF CommitCreate
  <2>3. roomSite' = roomSite /\ roomLife' = roomLife /\ Finish(r)
    BY <1>11 DEF CommitCreate
  <2>4. ASSUME NEW o \in Products, Live(o)'
        PROVE  RoomExists(roomOf[o])' /\ roomSite'[roomOf'[o]] = siteOf'[o]
    <3>1. CASE o = p
      <4>1. roomOf'[o] = q.room /\ siteOf'[o] = q.site
        BY <1>1, <2>2, <3>1 DEF TypeOK
      <4> QED BY <2>1, <2>3, <4>1 DEF RoomExists
    <3>2. CASE o # p
      <4>1. roomOf'[o] = roomOf[o] /\ siteOf'[o] = siteOf[o] /\ Live(o)
        BY <1>1, <2>2, <2>4, <3>2 DEF TypeOK, Live
      <4> QED BY <1>1, <2>3, <4>1 DEF RoomExists
    <3> QED BY <3>1, <3>2
  <2> QED BY <2>3, <2>4, FinishHoused
<1>12. CASE CommitUpdate(r)
  <2> DEFINE room == Target(q.toRoom, roomOf[q.product])
             site == Target(q.toSite, siteOf[q.product])
  <2>1. RoomExists(room) /\ roomSite[room] = site
    BY <1>1, <1>12 DEF CommitUpdate, RoomFits
  <2>2. /\ roomOf' = [roomOf EXCEPT ![q.product] = room]
        /\ siteOf' = [siteOf EXCEPT ![q.product] = site]
        /\ UNCHANGED <<life, roomSite, roomLife>> /\ Finish(r)
    BY <1>12 DEF CommitUpdate
  <2> HIDE DEF room, site
  <2>3. ASSUME NEW o \in Products, Live(o)'
        PROVE  RoomExists(roomOf[o])' /\ roomSite'[roomOf'[o]] = siteOf'[o]
    <3>1. CASE o = q.product
      <4>1. roomOf'[o] = room /\ siteOf'[o] = site
        BY <1>1, <2>2, <3>1 DEF TypeOK
      <4> QED BY <2>1, <2>2, <4>1 DEF RoomExists
    <3>2. CASE o # q.product
      <4>1. roomOf'[o] = roomOf[o] /\ siteOf'[o] = siteOf[o] /\ Live(o)
        BY <1>1, <2>2, <2>3, <3>2 DEF TypeOK, Live
      <4> QED BY <1>1, <2>2, <4>1 DEF RoomExists
    <3> QED BY <3>1, <3>2
  <2> QED BY <2>2, <2>3, FinishHoused
<1>13. CASE CheckUpdate(r)
  <2> DEFINE room == Target(q.toRoom, roomOf[q.product])
             site == Target(q.toSite, siteOf[q.product])
  <2>1. /\ q.kind = "patch" /\ q.product \in Products /\ Live(q.product)
        /\ q.seenRoom = roomOf[q.product] /\ q.seenSite = siteOf[q.product]
    BY <1>1, <1>13, CheckedSlot DEF RoomFits, UpdateReq
  <2>2. RoomExists(room) /\ roomSite[room] = site
    <3>1. CASE q.toRoom = NULL /\ q.toSite = NULL
      BY <1>1, <2>1, <3>1 DEF Target
    <3>2. CASE q.toRoom # NULL \/ q.toSite # NULL
      BY <1>13, <2>1, <3>2 DEF CheckUpdate, BelongsTo
    <3> QED BY <3>1, <3>2
  <2>3. /\ Checked(q).kind = "update" /\ Checked(q).product = q.product
        /\ Checked(q).toRoom = q.toRoom /\ Checked(q).toSite = q.toSite /\ Starts(r, Checked(q))
    BY <1>1, <1>13, CheckedSlot
  <2>4. RoomFits(Checked(q))
    BY <2>2, <2>3 DEF RoomFits
  <2> QED BY <2>3, <2>4, BeginHoused
<1>14. CASE BeginUpdateRoom(r) \/ BeginRemoveRoom(r)
  BY <1>2, <1>14 DEF BeginUpdateRoom, BeginRemoveRoom
<1>15. CASE UpdateColdRoom(r)
  BY <1>1, <1>15 DEF UpdateColdRoom, RoomFits
<1>16. CASE RemoveColdRoom(r)
  <2>1. /\ Finish(r) /\ UNCHANGED <<life, roomOf, siteOf, roomSite>>
        /\ \A m \in Rooms : RoomExists(m) => RoomExists(m)'
    BY <1>1, <1>16 DEF RemoveColdRoom, productVars, RoomExists, TypeOK
  <2>2. \A p \in Products : Live(p)' =>
          RoomExists(roomOf[p])' /\ roomSite'[roomOf'[p]] = siteOf'[p]
    BY <1>1, <2>1 DEF Live, RoomExists, TypeOK
  <2> QED BY <2>1, <2>2, FinishHoused
<1> QED BY <1>3, <1>4, <1>5, <1>6, <1>7, <1>9, <1>10, <1>11, <1>12, <1>13, <1>14, <1>15,
           <1>16 DEF Handle, Read, Commit

LEMMA InitHoused == Init => HousedInv
<1> SUFFICES ASSUME Init PROVE HousedInv
  OBVIOUS
<1>1. TypeOK
  BY InitType
<1>2. \A p \in Products : Live(p) => RoomExists(roomOf[p]) /\ roomSite[roomOf[p]] = siteOf[p]
  BY SeedAssumption DEF Init, Live, RoomExists
<1>3. \A r \in Requests : RoomFits(requests[r])
  BY DEF Init, RoomFits, Idle
<1> QED BY <1>1, <1>2, <1>3 DEF HousedInv

LEMMA NextHoused ==
    ASSUME OneRequest, "roomUpdate" \notin Kinds
    PROVE  HousedInv /\ [Next]_vars => HousedInv'
<1> SUFFICES ASSUME HousedInv, [Next]_vars PROVE HousedInv'
  OBVIOUS
<1>1. TypeOK /\ TypeOK'
  BY NextType DEF HousedInv
<1>2. ASSUME NEW r \in Requests, Handle(r) PROVE HousedInv'
  BY <1>1, <1>2, HandleHoused
<1>3. CASE CreateColdRoom \/ UNCHANGED vars
  <2>1. UNCHANGED <<life, roomOf, siteOf, requests>>
    BY <1>1, <1>3, RoomsStay
  <2>2. \A m \in Rooms : RoomExists(m) => RoomExists(m)' /\ roomSite'[m] = roomSite[m]
    BY <1>1, <1>3, RoomsStay
  <2>3. \A p \in Products : Live(p)' =>
          RoomExists(roomOf[p])' /\ roomSite'[roomOf'[p]] = siteOf'[p]
    BY <1>1, <2>1, <2>2 DEF HousedInv, Live, RoomExists, TypeOK
  <2>4. ASSUME NEW s \in Requests PROVE RoomFits(requests[s])'
    <3>1. RoomFits(requests[s]) /\ requests[s] \in Request
      BY <1>1 DEF HousedInv, TypeOK
    <3>2. /\ requests[s].kind = "create" => requests[s].room \in Rooms
          /\ requests[s].kind = "update" =>
               Target(requests[s].toRoom, roomOf[requests[s].product]) \in Rooms
      BY <1>1, <3>1, SlotKinds DEF CreateReq, UpdateReq, Target, TypeOK
    <3> QED BY <2>1, <2>2, <3>1, <3>2 DEF RoomFits, RoomExists, Target, Live
  <2> QED BY <1>1, <2>3, <2>4 DEF HousedInv
<1> QED BY <1>2, <1>3 DEF Next

\* One request at a time, and as long as no cold room is handed to another site
\* with the products in it, every live product stands in a room of its site.
THEOREM ProductsStayAtHome ==
    ASSUME OneRequest, "roomUpdate" \notin Kinds
    PROVE  Spec => []RoomOfOwnSite
<1>1. HousedInv => RoomOfOwnSite
  BY DEF HousedInv, RoomOfOwnSite
<1> QED BY <1>1, InitHoused, NextHoused, PTL DEF Spec

-----------------------------------------------------------------------------
(* One request at a time: what was read still holds *)

\* What a handler in flight has read and checked is so still.
Fresh(q) ==
    /\ q.kind \in Kinds \cup {"idle", "patch"}
    /\ q.kind = "patch" => "update" \in Kinds
    /\ q.kind \in {"record", "adjust", "create"} => q.kg \in Kgs
    /\ q.kind \in {"record", "adjust", "patch", "update", "remove"} => q.seenQty = qty[q.product]
    /\ q.kind \in {"adjust", "patch", "update", "remove"} =>
         Live(q.product) /\ q.seenRoom = roomOf[q.product]
    /\ q.kind \in {"record", "adjust"} => q.seenQty + Signed(q.kg, q.type) >= 0
    /\ q.kind = "revert" => TakesBack(q.row) /\ q.row.kg \in Kgs
    /\ q.kind \in {"patch", "update"} => q.toKg \in PatchKgs
    /\ q.kind \in {"roomUpdate", "roomRemove"} => roomLife[q.room] = "live"

SpaceLeft(q) ==
    /\ q.kind = "adjust" => (q.type = "IN" => HasSpace(q.seenRoom, q.kg))
    /\ q.kind = "create" => HasSpace(q.room, q.kg)
    /\ q.kind = "update" => (Moves(q) => HasSpace(q.toRoom, q.seenQty))

FreshInv ==
    /\ KeysHold
    /\ StockNonNegative
    /\ \A i \in DOMAIN movements : movements[i].kg \in Kgs
    /\ \A r \in Requests : Fresh(requests[r]) /\ SpaceLeft(requests[r])

\* A handler begins with what it has just read and checked.
LEMMA BegunFresh ==
    ASSUME FreshInv, NEW r \in Requests, Read(r)
    PROVE  \E slot : Starts(r, slot) /\ Fresh(slot) /\ SpaceLeft(slot)
<1>1. /\ \A p \in Products : qty[p] \in Int /\ qty[p] >= 0
      /\ \A kg \in Kgs : kg \in Nat
  BY WeightsAssumption DEF FreshInv, KeysHold, TypeOK, StockNonNegative
<1>2. CASE BeginRecord(r)
  <2>1. PICK p \in Products, m \in Rooms, kg \in Kgs, type \in Types, u \in Callers :
          "record" \in Kinds /\ ReadForMovement(r, p, m, kg, type, u)
    BY <1>2 DEF BeginRecord
  <2> DEFINE slot == [kind |-> "record", product |-> p, room |-> m, kg |-> kg,
                      type |-> type, seenQty |-> qty[p]]
  <2>2. qty[p] + Signed(kg, type) >= 0
    BY <1>1, <2>1 DEF ReadForMovement, Covers, Signed, Types
  <2>3. Begin(r, slot) /\ Fresh(slot) /\ SpaceLeft(slot)
    BY <2>1, <2>2 DEF ReadForMovement, Fresh, SpaceLeft
  <2> QED BY <2>3, BeginStarts
<1>3. CASE BeginRevert(r)
  <2>1. PICK i \in DOMAIN movements :
          /\ "revert" \in Kinds /\ TakesBack(movements[i])
          /\ Begin(r, [kind |-> "revert", row |-> movements[i]])
    BY <1>3 DEF BeginRevert
  <2> DEFINE slot == [kind |-> "revert", row |-> movements[i]]
  <2>2. Begin(r, slot) /\ Fresh(slot) /\ SpaceLeft(slot)
    BY <2>1 DEF FreshInv, Fresh, SpaceLeft
  <2> QED BY <2>2, BeginStarts
<1>4. CASE BeginAdjust(r)
  <2>1. PICK p \in Products, kg \in Kgs, type \in Types :
          /\ "adjust" \in Kinds /\ Live(p)
          /\ qty[p] + Signed(kg, type) >= 0
          /\ type = "IN" => HasSpace(roomOf[p], kg)
          /\ Begin(r, [kind |-> "adjust", product |-> p, kg |-> kg, type |-> type,
                       seenQty |-> qty[p], seenRoom |-> roomOf[p]])
    BY <1>4 DEF BeginAdjust
  <2> DEFINE slot == [kind |-> "adjust", product |-> p, kg |-> kg, type |-> type,
                      seenQty |-> qty[p], seenRoom |-> roomOf[p]]
  <2>2. Begin(r, slot) /\ Fresh(slot) /\ SpaceLeft(slot)
    BY <2>1 DEF Fresh, SpaceLeft
  <2> QED BY <2>2, BeginStarts
<1>5. CASE BeginCreate(r)
  <2>1. PICK m \in Rooms, s \in Sites, kg \in Kgs :
          /\ "create" \in Kinds /\ HasSpace(m, kg)
          /\ Begin(r, [kind |-> "create", room |-> m, site |-> s, kg |-> kg])
    BY <1>5 DEF BeginCreate
  <2> DEFINE slot == [kind |-> "create", room |-> m, site |-> s, kg |-> kg]
  <2>2. Begin(r, slot) /\ Fresh(slot) /\ SpaceLeft(slot)
    BY <2>1 DEF Fresh, SpaceLeft
  <2> QED BY <2>2, BeginStarts
<1>6. CASE BeginUpdate(r)
  <2>1. PICK p \in Products, m \in Rooms \cup {NULL}, s \in Sites \cup {NULL},
             kg \in PatchKgs :
          /\ "update" \in Kinds /\ Live(p)
          /\ Begin(r, [kind |-> "patch", product |-> p, toRoom |-> m, toSite |-> s, toKg |-> kg,
                       seenQty |-> qty[p], seenRoom |-> roomOf[p], seenSite |-> siteOf[p]])
    BY <1>6 DEF BeginUpdate
  <2> DEFINE slot == [kind |-> "patch", product |-> p, toRoom |-> m, toSite |-> s, toKg |-> kg,
                      seenQty |-> qty[p], seenRoom |-> roomOf[p], seenSite |-> siteOf[p]]
  <2>2. Begin(r, slot) /\ Fresh(slot) /\ SpaceLeft(slot)
    BY <2>1 DEF Fresh, SpaceLeft
  <2> QED BY <2>2, BeginStarts
<1>7. CASE BeginRemove(r)
  <2>1. PICK p \in Products :
          /\ "remove" \in Kinds /\ Live(p)
          /\ Begin(r, [kind |-> "remove", product |-> p, seenQty |-> qty[p],
                       seenRoom |-> roomOf[p]])
    BY <1>7 DEF BeginRemove
  <2> DEFINE slot == [kind |-> "remove", product |-> p, seenQty |-> qty[p],
                      seenRoom |-> roomOf[p]]
  <2>2. Begin(r, slot) /\ Fresh(slot) /\ SpaceLeft(slot)
    BY <2>1 DEF Fresh, SpaceLeft
  <2> QED BY <2>2, BeginStarts
<1>8. CASE CheckUpdate(r)
  <2> DEFINE q == requests[r]
  <2>1. /\ q.kind = "patch" /\ Checked(q).kind = "update" /\ Checked(q).product = q.product
        /\ Checked(q).toRoom = q.toRoom /\ Checked(q).toKg = q.toKg
        /\ Checked(q).seenQty = q.seenQty /\ Checked(q).seenRoom = q.seenRoom
        /\ Starts(r, Checked(q))
    BY <1>8, CheckedSlot DEF FreshInv, KeysHold
  <2>2. Fresh(q)
    BY DEF FreshInv
  <2>3. Fresh(Checked(q))
    BY <2>1, <2>2 DEF Fresh
  <2>4. Moves(q) => HasSpace(q.toRoom, q.seenQty)
    BY <1>8 DEF CheckUpdate, Moves, Target
  <2>5. SpaceLeft(Checked(q))
    BY <2>1, <2>4 DEF SpaceLeft, Moves
  <2> QED BY <2>1, <2>3, <2>5
<1>9. CASE BeginUpdateRoom(r)
  <2>1. PICK m \in Rooms, s \in Sites \cup {NULL}, c \in Capacities \cup {NULL} :
          /\ "roomUpdate" \in Kinds /\ roomLife[m] = "live"
          /\ Begin(r, [kind |-> "roomUpdate", room |-> m, toSite |-> s, toCapacity |-> c])
    BY <1>9 DEF BeginUpdateRoom
  <2> DEFINE slot == [kind |-> "roomUpdate", room |-> m, toSite |-> s, toCapacity |-> c]
  <2>2. Begin(r, slot) /\ Fresh(slot) /\ SpaceLeft(slot)
    BY <2>1 DEF Fresh, SpaceLeft
  <2> QED BY <2>2, BeginStarts
<1>10. CASE BeginRemoveRoom(r)
  <2>1. PICK m \in Rooms : /\ "roomRemove" \in Kinds /\ roomLife[m] = "live"
                           /\ Begin(r, [kind |-> "roomRemove", room |-> m])
    BY <1>10 DEF BeginRemoveRoom
  <2> DEFINE slot == [kind |-> "roomRemove", room |-> m]
  <2>2. Begin(r, slot) /\ Fresh(slot) /\ SpaceLeft(slot)
    BY <2>1 DEF Fresh, SpaceLeft
  <2> QED BY <2>2, BeginStarts
<1> QED BY <1>2, <1>3, <1>4, <1>5, <1>6, <1>7, <1>8, <1>9, <1>10 DEF Read

-----------------------------------------------------------------------------
(* Each commit is an operation of the ledger *)

LEMMA RecordIsAtomic ==
    ASSUME FreshInv, NEW r \in Requests, CommitRecord(r)
    PROVE  /\ "record" \in Kinds
           /\ \E p \in Products, m \in Rooms, kg \in Kgs, type \in Types :
                 Atomic!Record(p, m, kg, type)
<1> DEFINE q == requests[r]
<1>1. /\ q \in RecordReq /\ Fresh(q) /\ Refers(q) /\ q.kind = "record"
  BY SlotKinds DEF FreshInv, KeysHold, TypeOK, CommitRecord
<1>2. /\ q.product \in Products /\ q.room \in Rooms /\ q.type \in Types
      /\ Exists(q.product) /\ RoomExists(q.room)
  BY <1>1 DEF RecordReq, Refers
<1>3. /\ q.kg \in Kgs /\ "record" \in Kinds
      /\ q.seenQty = qty[q.product] /\ q.seenQty + Signed(q.kg, q.type) >= 0
  BY <1>1 DEF Fresh
<1>4. /\ qty' = [qty EXCEPT ![q.product] = q.seenQty + Signed(q.kg, q.type)]
      /\ used' = [used EXCEPT ![q.room] = @ + Signed(q.kg, q.type)]
      /\ Post(q.product, q.room, q.kg, q.type)
      /\ UNCHANGED <<roomOf, life, capacity, roomLife>>
  BY DEF CommitRecord
<1> HIDE DEF q
<1>5. Atomic!Record(q.product, q.room, q.kg, q.type)
  BY <1>2, <1>3, <1>4
  DEF Atomic!Record, Atomic!Post, Atomic!Signed, Post, Signed, Exists, RoomExists
<1> QED BY <1>2, <1>3, <1>5

LEMMA RevertIsAtomic ==
    ASSUME FreshInv, NEW r \in Requests, CommitRevert(r)
    PROVE  /\ "revert" \in Kinds
           /\ \E p \in Products, m \in Rooms, kg \in Kgs, type \in Types :
                 Atomic!Record(p, m, kg, type)
<1> DEFINE q    == requests[r]
           row  == q.row
           back == Opposite(row.type)
<1>1. /\ q \in RevertReq /\ Fresh(q) /\ Refers(q) /\ q.kind = "revert"
  BY SlotKinds DEF FreshInv, KeysHold, TypeOK, CommitRevert
<1>2. /\ row.product \in Products /\ row.room \in Rooms /\ row.type \in Types
      /\ row.kg \in Nat /\ Exists(row.product) /\ RoomExists(row.room)
  BY <1>1 DEF RevertReq, Refers, Movement
<1>3. row.kg \in Kgs /\ "revert" \in Kinds /\ TakesBack(row)
  BY <1>1 DEF Fresh
<1>4. /\ qty' = [qty EXCEPT ![row.product] = @ + Signed(row.kg, back)]
      /\ used' = [used EXCEPT ![row.room] = @ + Signed(row.kg, back)]
      /\ Post(row.product, row.room, row.kg, back)
      /\ UNCHANGED <<roomOf, life, capacity, roomLife>>
  BY DEF CommitRevert
<1>5. back \in Types
  BY <1>2, OppositeType
<1>6. qty[row.product] + Signed(row.kg, back) >= 0
  <2>1. qty[row.product] \in Int /\ qty[row.product] >= 0
    BY <1>2 DEF FreshInv, KeysHold, TypeOK, StockNonNegative
  <2> HIDE DEF row
  <2> QED BY <1>2, <1>3, <2>1 DEF TakesBack, Opposite, Signed, Types
<1> HIDE DEF q, row, back
<1>7. Atomic!Record(row.product, row.room, row.kg, back)
  BY <1>2, <1>4, <1>6
  DEF Atomic!Record, Atomic!Post, Atomic!Signed, Post, Signed, Exists, RoomExists
<1> QED BY <1>2, <1>3, <1>5, <1>7

LEMMA AdjustIsAtomic ==
    ASSUME FreshInv, NEW r \in Requests, CommitAdjust(r)
    PROVE  \E p \in Products, kg \in Kgs, type \in Types :
              /\ Atomic!Adjust(p, kg, type)
              /\ (type = "IN" => HasSpace(roomOf[p], kg))
<1> DEFINE q == requests[r]
<1>1. /\ q \in AdjustReq /\ Fresh(q) /\ Refers(q) /\ q.kind = "adjust"
      /\ SpaceLeft(q)
  BY SlotKinds DEF FreshInv, KeysHold, TypeOK, CommitAdjust
<1>2. /\ q.product \in Products /\ q.seenRoom \in Rooms /\ q.type \in Types
      /\ Exists(q.product) /\ RoomExists(q.seenRoom)
  BY <1>1 DEF AdjustReq, Refers
<1>3. /\ q.kg \in Kgs /\ Live(q.product) /\ q.seenRoom = roomOf[q.product]
      /\ q.seenQty = qty[q.product] /\ q.seenQty + Signed(q.kg, q.type) >= 0
      /\ (q.type = "IN" => HasSpace(roomOf[q.product], q.kg))
  BY <1>1 DEF Fresh, SpaceLeft
<1>4. /\ qty' = [qty EXCEPT ![q.product] = q.seenQty + Signed(q.kg, q.type)]
      /\ used' = [used EXCEPT ![q.seenRoom] = @ + Signed(q.kg, q.type)]
      /\ Post(q.product, q.seenRoom, q.kg, q.type)
      /\ UNCHANGED <<roomOf, life, capacity, roomLife>>
  BY DEF CommitAdjust, RoomToAdjust
<1> HIDE DEF q
<1>5. Atomic!Adjust(q.product, q.kg, q.type)
  BY <1>2, <1>3, <1>4
  DEF Atomic!Adjust, Atomic!Record, Atomic!Post, Atomic!Signed, Post, Signed, Exists,
      RoomExists, Live
<1> QED BY <1>2, <1>3, <1>5

LEMMA CreateIsAtomic ==
    ASSUME FreshInv, NEW r \in Requests, CommitCreate(r)
    PROVE  \E p \in Products, m \in Rooms, kg \in Kgs :
              Atomic!Create(p, m, kg) /\ HasSpace(m, kg)
<1> DEFINE q == requests[r]
<1>1. /\ q \in CreateReq /\ Fresh(q) /\ Refers(q) /\ q.kind = "create"
      /\ SpaceLeft(q)
  BY SlotKinds DEF FreshInv, KeysHold, TypeOK, CommitCreate
<1>2. q.room \in Rooms /\ RoomExists(q.room) /\ q.kg \in Kgs
  BY <1>1 DEF CreateReq, Refers, Fresh
<1>3. HasSpace(q.room, q.kg)
  BY <1>1 DEF SpaceLeft
<1>4. PICK p \in Products :
        /\ ~Exists(p)
        /\ qty' = [qty EXCEPT ![p] = q.kg]
        /\ roomOf' = [roomOf EXCEPT ![p] = q.room]
        /\ life' = [life EXCEPT ![p] = "live"]
        /\ Post(p, q.room, q.kg, "IN")
  BY DEF CommitCreate
<1>5. /\ used' = [used EXCEPT ![q.room] = @ + q.kg]
      /\ UNCHANGED <<capacity, roomLife>>
  BY DEF CommitCreate
<1> HIDE DEF q
<1>6. Atomic!Create(p, q.room, q.kg)
  BY <1>2, <1>4, <1>5 DEF Atomic!Create, Atomic!Post, Post, Exists, RoomExists
<1> QED BY <1>2, <1>3, <1>6

LEMMA UpdateIsAtomic ==
    ASSUME FreshInv, NEW r \in Requests, CommitUpdate(r)
    PROVE  \E p \in Products, m \in Rooms : \E kg \in (PatchKgs \ {NULL}) \cup {qty[p]} :
              /\ Atomic!Update(p, m, kg)
              /\ (m # roomOf[p] => HasSpace(m, qty[p]))
<1> DEFINE q == requests[r]
           p == q.product
           m == Target(q.toRoom, roomOf[p])
           kg == Target(q.toKg, qty[p])
<1>1. /\ q \in UpdateReq /\ Fresh(q) /\ Refers(q) /\ q.kind = "update"
      /\ SpaceLeft(q)
  BY SlotKinds DEF FreshInv, KeysHold, TypeOK, CommitUpdate
<1>2. /\ p \in Products /\ q.toRoom \in Rooms \cup {NULL}
      /\ Live(p) /\ q.seenRoom = roomOf[p] /\ q.seenQty = qty[p] /\ q.toKg \in PatchKgs
      /\ RoomExists(roomOf[p]) /\ roomOf[p] \in Rooms
      /\ q.toRoom # NULL => RoomExists(q.toRoom)
      /\ (Moves(q) => HasSpace(q.toRoom, qty[p]))
  BY <1>1 DEF UpdateReq, Fresh, Refers, SpaceLeft
<1>3. /\ used' = Shifted(used, q)
      /\ roomOf' = [roomOf EXCEPT ![p] = m]
      /\ qty' = [qty EXCEPT ![p] = kg]
      /\ UNCHANGED <<life, capacity, roomLife, movements>>
  BY DEF CommitUpdate
<1> HIDE DEF q, p
<1>4. m \in Rooms /\ RoomExists(m) /\ kg \in (PatchKgs \ {NULL}) \cup {qty[p]}
  BY <1>2 DEF Target
<1>5. Moves(q) <=> m # roomOf[p]
  BY <1>2 DEF Moves, Target
<1>6. m # roomOf[p] => m = q.toRoom
  BY DEF Target
<1>7. used' = IF m = roomOf[p] THEN used
              ELSE [used EXCEPT ![roomOf[p]] = @ - qty[p], ![m] = @ + qty[p]]
  BY <1>2, <1>3, <1>5, <1>6 DEF Shifted
<1> HIDE DEF m, kg
<1>8. Atomic!Update(p, m, kg)
  BY <1>2, <1>3, <1>4, <1>7 DEF Atomic!Update, Live, RoomExists
<1> QED BY <1>2, <1>4, <1>5, <1>6, <1>8

LEMMA RemoveIsAtomic ==
    ASSUME FreshInv, NEW r \in Requests, CommitRemove(r)
    PROVE  \E p \in Products : Atomic!Remove(p)
<1> DEFINE q == requests[r]
<1>1. q \in RemoveReq /\ Fresh(q) /\ q.kind = "remove"
  BY SlotKinds DEF FreshInv, KeysHold, TypeOK, CommitRemove
<1>2. /\ q.product \in Products /\ Live(q.product)
      /\ q.seenRoom = roomOf[q.product] /\ q.seenQty = qty[q.product]
  BY <1>1 DEF RemoveReq, Fresh
<1>3. /\ life' = [life EXCEPT ![q.product] = "deleted"]
      /\ used' = [used EXCEPT ![q.seenRoom] = @ - q.seenQty]
      /\ UNCHANGED <<qty, roomOf, capacity, roomLife, movements>>
  BY DEF CommitRemove
<1> HIDE DEF q
<1>4. Atomic!Remove(q.product)
  BY <1>2, <1>3 DEF Atomic!Remove, Live
<1> QED BY <1>2, <1>4

LEMMA RoomIsManaged ==
    ASSUME FreshInv, NEW r \in Requests, UpdateColdRoom(r) \/ RemoveColdRoom(r)
    PROVE  /\ \E m \in Rooms : Atomic!ManageRoom(m)
           /\ UNCHANGED <<qty, roomOf, life, used, movements>>
           /\ \A m \in Rooms : RoomExists(m)' <=> RoomExists(m)
<1> DEFINE m == requests[r].room
<1>1. /\ TypeOK /\ Fresh(requests[r]) /\ requests[r].kind \in {"roomUpdate", "roomRemove"}
      /\ requests[r] \in Request
  BY DEF FreshInv, KeysHold, TypeOK, UpdateColdRoom, RemoveColdRoom
<1>2. m \in Rooms /\ roomLife[m] = "live"
  BY <1>1, SlotKeys DEF Fresh
<1>3. UNCHANGED <<qty, roomOf, life, used, movements>>
  BY DEF UpdateColdRoom, RemoveColdRoom, productVars
<1>4. /\ \A n \in Rooms \ {m} : capacity'[n] = capacity[n] /\ roomLife'[n] = roomLife[n]
      /\ roomLife'[m] \in {"live", "deleted"}
  <2>1. CASE UpdateColdRoom(r)
    BY <1>1, <1>2, <2>1 DEF UpdateColdRoom, TypeOK
  <2>2. CASE RemoveColdRoom(r)
    BY <1>1, <1>2, <2>2 DEF RemoveColdRoom, TypeOK
  <2> QED BY <2>1, <2>2
<1> HIDE DEF m
<1>5. Atomic!ManageRoom(m)
  BY <1>2, <1>3, <1>4 DEF Atomic!ManageRoom, Atomic!products
<1>6. \A n \in Rooms : RoomExists(n)' <=> RoomExists(n)
  BY <1>2, <1>4 DEF RoomExists
<1> QED BY <1>2, <1>3, <1>5, <1>6

\* What a handler does to the stock, one request at a time.
StockStep ==
    \/ UNCHANGED <<qty, roomOf, life, used, capacity, roomLife, movements>>
    \/ /\ "record" \in Kinds \/ "revert" \in Kinds
       /\ \E p \in Products, m \in Rooms, kg \in Kgs, type \in Types :
             Atomic!Record(p, m, kg, type)
    \/ \E p \in Products, kg \in Kgs, type \in Types :
          Atomic!Adjust(p, kg, type) /\ (type = "IN" => HasSpace(roomOf[p], kg))
    \/ \E p \in Products, m \in Rooms, kg \in Kgs :
          Atomic!Create(p, m, kg) /\ HasSpace(m, kg)
    \/ \E p \in Products, m \in Rooms : \E kg \in (PatchKgs \ {NULL}) \cup {qty[p]} :
          Atomic!Update(p, m, kg) /\ (m # roomOf[p] => HasSpace(m, qty[p]))
    \/ \E p \in Products : Atomic!Remove(p)
    \/ /\ \E m \in Rooms : Atomic!ManageRoom(m)
       /\ UNCHANGED <<qty, roomOf, life, used, movements>>
       /\ \A m \in Rooms : RoomExists(m)' <=> RoomExists(m)

LEMMA HandleIsStockStep ==
    ASSUME FreshInv, NEW r \in Requests, Handle(r)
    PROVE  StockStep
<1>1. CASE Read(r)
  BY <1>1, BegunFresh DEF Starts, productVars, roomVars, StockStep
<1>2. CASE CommitRecord(r)
  BY <1>2, RecordIsAtomic DEF StockStep
<1>3. CASE CommitRevert(r)
  BY <1>3, RevertIsAtomic DEF StockStep
<1>4. CASE CommitAdjust(r)
  BY <1>4, AdjustIsAtomic DEF StockStep
<1>5. CASE CommitCreate(r)
  BY <1>5, CreateIsAtomic DEF StockStep
<1>6. CASE CommitUpdate(r)
  BY <1>6, UpdateIsAtomic DEF StockStep
<1>7. CASE CommitRemove(r)
  BY <1>7, RemoveIsAtomic DEF StockStep
<1>8. CASE RollBack(r)
  BY <1>8 DEF RollBack, productVars, roomVars, StockStep
<1>9. CASE UpdateColdRoom(r) \/ RemoveColdRoom(r)
  BY <1>9, RoomIsManaged DEF StockStep
<1> QED BY <1>1, <1>2, <1>3, <1>4, <1>5, <1>6, <1>7, <1>8, <1>9 DEF Handle, Commit

-----------------------------------------------------------------------------
(* ... and it stays so *)

\* The row of a booking is a new last row.
LEMMA BookedRow ==
    ASSUME TypeOK, NEW p, NEW m, NEW kg, NEW type, Atomic!Post(p, m, kg, type),
           NEW i \in DOMAIN movements'
    PROVE  \/ i \in DOMAIN movements /\ movements'[i] = movements[i]
           \/ movements'[i].kg = kg
<1> DEFINE row == [product |-> p, room |-> m, kg |-> kg, type |-> type]
<1>1. movements \in Seq(Movement) /\ movements' = Append(movements, row) /\ row.kg = kg
  BY DEF TypeOK, Atomic!Post
<1> HIDE DEF row
<1> QED BY <1>1

\* Every operation of the ledger leaves weights that are not negative, and books
\* weights that clients have named.
LEMMA StockStepKeeps ==
    ASSUME FreshInv, StockStep
    PROVE  /\ \A p \in Products : qty'[p] >= 0
           /\ \A i \in DOMAIN movements' : movements'[i].kg \in Kgs
<1>1. /\ TypeOK
      /\ \A p \in Products : qty[p] \in Int /\ qty[p] >= 0
      /\ qty \in [Products -> Int]
      /\ \A i \in DOMAIN movements : movements[i].kg \in Kgs
  BY DEF FreshInv, KeysHold, TypeOK, StockNonNegative
<1>2. \A kg \in Kgs \cup (PatchKgs \ {NULL}) : kg \in Int /\ kg >= 0
  BY WeightsAssumption
<1>3. CASE UNCHANGED <<qty, roomOf, life, used, capacity, roomLife, movements>>
  BY <1>1, <1>3
<1>4. ASSUME NEW p \in Products, NEW m, NEW kg \in Kgs, NEW type \in Types,
             Atomic!Record(p, m, kg, type)
      PROVE  /\ \A o \in Products : qty'[o] >= 0
             /\ \A i \in DOMAIN movements' : movements'[i].kg \in Kgs
  <2>1. /\ qty' = [qty EXCEPT ![p] = qty[p] + Atomic!Signed(kg, type)]
        /\ qty[p] + Atomic!Signed(kg, type) >= 0
        /\ Atomic!Post(p, m, kg, type)
    BY <1>4 DEF Atomic!Record
  <2> QED BY <1>1, <2>1, BookedRow
<1>5. ASSUME NEW p \in Products, NEW kg \in Kgs, NEW type \in Types,
             Atomic!Adjust(p, kg, type)
      PROVE  /\ \A o \in Products : qty'[o] >= 0
             /\ \A i \in DOMAIN movements' : movements'[i].kg \in Kgs
  BY <1>4, <1>5 DEF Atomic!Adjust
<1>6. ASSUME NEW p \in Products, NEW m \in Rooms, NEW kg \in Kgs, Atomic!Create(p, m, kg)
      PROVE  /\ \A o \in Products : qty'[o] >= 0
             /\ \A i \in DOMAIN movements' : movements'[i].kg \in Kgs
  <2>1. qty' = [qty EXCEPT ![p] = kg] /\ Atomic!Post(p, m, kg, "IN")
    BY <1>6 DEF Atomic!Create
  <2> QED BY <1>1, <1>2, <2>1, BookedRow
<1>7. ASSUME NEW p \in Products, NEW m, NEW kg \in (PatchKgs \ {NULL}) \cup {qty[p]},
             Atomic!Update(p, m, kg)
      PROVE  /\ \A o \in Products : qty'[o] >= 0
             /\ \A i \in DOMAIN movements' : movements'[i].kg \in Kgs
  <2>1. qty' = [qty EXCEPT ![p] = kg] /\ movements' = movements
    BY <1>7 DEF Atomic!Update
  <2> QED BY <1>1, <1>2, <2>1
<1>8. ASSUME NEW p \in Products, Atomic!Remove(p)
      PROVE  /\ \A o \in Products : qty'[o] >= 0
             /\ \A i \in DOMAIN movements' : movements'[i].kg \in Kgs
  BY <1>1, <1>8 DEF Atomic!Remove
<1>9. CASE UNCHANGED <<qty, roomOf, life, used, movements>>
  BY <1>1, <1>9
<1> QED BY <1>3, <1>4, <1>5, <1>6, <1>7, <1>8, <1>9 DEF StockStep

LEMMA InitFresh == Init => FreshInv
<1> SUFFICES ASSUME Init PROVE FreshInv
  OBVIOUS
<1>1. KeysHold /\ StockNonNegative
  BY InitKeys, SeedAssumption DEF Init, StockNonNegative
<1>2. \A r \in Requests : Fresh(requests[r]) /\ SpaceLeft(requests[r])
  BY DEF Init, Fresh, SpaceLeft, Idle
<1> QED BY <1>1, <1>2 DEF Init, FreshInv

LEMMA HandleFresh ==
    ASSUME OneRequest, FreshInv, KeysHold', NEW r \in Requests, Handle(r)
    PROVE  FreshInv'
<1>1. TypeOK
  BY DEF FreshInv, KeysHold
<1>2. /\ StockNonNegative'
      /\ \A i \in DOMAIN movements' : movements'[i].kg \in Kgs
  BY HandleIsStockStep, StockStepKeeps DEF StockNonNegative
<1> SUFFICES ASSUME NEW s \in Requests
    PROVE Fresh(requests[s])' /\ SpaceLeft(requests[s])'
  BY <1>2 DEF FreshInv
<1>3. s = r
  BY DEF OneRequest
<1>4. CASE Read(r)
  <2>1. PICK slot : Starts(r, slot) /\ Fresh(slot) /\ SpaceLeft(slot)
    BY <1>4, BegunFresh
  <2>2. requests'[s] = slot
    BY <1>1, <1>3, <2>1 DEF Starts, TypeOK
  <2>3. UNCHANGED <<qty, life, roomOf, used, capacity, roomLife>>
    BY <2>1 DEF Starts, productVars, roomVars
  <2>4. Fresh(requests[s])'
    BY <2>1, <2>2, <2>3 DEF Fresh, Live, TakesBack, Signed
  <2>5. SpaceLeft(requests[s])'
    BY <2>1, <2>2, <2>3 DEF SpaceLeft, HasSpace, Moves
  <2> QED BY <2>4, <2>5
<1>5. CASE Commit(r) \/ RollBack(r)
  <2>1. Finish(r)
    BY <1>5 DEF Commit, CommitRecord, CommitRevert, CommitAdjust, CommitCreate,
                CommitUpdate, CommitRemove, UpdateColdRoom, RemoveColdRoom, RollBack
  <2>2. requests'[s] = Idle
    BY <1>1, <1>3, <2>1 DEF Finish, TypeOK
  <2> QED BY <2>2 DEF Fresh, SpaceLeft, Idle
<1> QED BY <1>4, <1>5 DEF Handle

\* A room that is created is none that a handler has looked at.
LEMMA RoomsFresh ==
    ASSUME FreshInv, KeysHold', CreateColdRoom \/ UNCHANGED vars
    PROVE  FreshInv'
<1>1. TypeOK
  BY DEF FreshInv, KeysHold
<1>2. /\ UNCHANGED <<qty, life, roomOf, movements, requests>>
      /\ \A m \in Rooms : RoomExists(m) =>
           /\ roomLife'[m] = roomLife[m] /\ used'[m] = used[m]
           /\ capacity'[m] = capacity[m]
  BY <1>1, RoomsStay
<1>4. StockNonNegative' /\ \A i \in DOMAIN movements' : movements'[i].kg \in Kgs
  BY <1>2 DEF FreshInv, StockNonNegative
<1> SUFFICES ASSUME NEW s \in Requests
    PROVE Fresh(requests[s])' /\ SpaceLeft(requests[s])'
  BY <1>4 DEF FreshInv
<1> DEFINE q == requests[s]
<1>5. /\ q \in Request /\ Fresh(q) /\ Refers(q) /\ SpaceLeft(q)
      /\ q' = q
  BY <1>1, <1>2 DEF FreshInv, KeysHold, TypeOK
<1>6. Fresh(q)'
  <2>1. q.kind \in {"roomUpdate", "roomRemove"} => roomLife'[q.room] = roomLife[q.room]
    BY <1>2, <1>5, SlotKeys DEF Refers
  <2> QED BY <1>2, <1>5, <2>1 DEF Fresh, Live, TakesBack, Signed
<1>7. /\ q.kind = "adjust" => q.seenRoom \in Rooms /\ RoomExists(q.seenRoom)
      /\ q.kind = "create" => q.room \in Rooms /\ RoomExists(q.room)
      /\ q.kind = "update" =>
           (Moves(q) => q.toRoom \in Rooms /\ RoomExists(q.toRoom))
  BY <1>5, SlotKinds DEF Refers, AdjustReq, CreateReq, UpdateReq, Moves
<1>8. Moves(q)' <=> Moves(q)
  BY <1>5 DEF Moves
<1>9. SpaceLeft(q)'
  BY <1>2, <1>5, <1>7, <1>8 DEF SpaceLeft, HasSpace
<1> QED BY <1>6, <1>9

LEMMA NextFresh ==
    ASSUME OneRequest
    PROVE  FreshInv /\ [Next]_vars => FreshInv'
<1> SUFFICES ASSUME FreshInv, [Next]_vars PROVE FreshInv'
  OBVIOUS
<1>1. KeysHold'
  BY NextKeys DEF FreshInv
<1>2. ASSUME NEW r \in Requests, Handle(r) PROVE FreshInv'
  BY <1>1, <1>2, HandleFresh
<1> QED BY <1>1, <1>2, RoomsFresh DEF Next

\* One request at a time no stock goes below zero, reversals included: what a
\* reversal is checked against is what it is taken from.
THEOREM SerialStockNonNegative ==
    ASSUME OneRequest
    PROVE  Spec => []StockNonNegative
<1>1. FreshInv => StockNonNegative
  BY DEF FreshInv
<1> QED BY <1>1, InitFresh, NextFresh, PTL DEF Spec

-----------------------------------------------------------------------------
(* The handlers implement the ledger *)

LEMMA StepIsAtomic ==
    ASSUME FreshInv, [Next]_vars
    PROVE  [Atomic!Next]_<<Atomic!products, Atomic!rooms, movements>>
<1>1. TypeOK
  BY DEF FreshInv, KeysHold
<1>2. ASSUME NEW r \in Requests, Handle(r)
      PROVE  [Atomic!Next]_<<Atomic!products, Atomic!rooms, movements>>
  <2>1. StockStep
    BY <1>2, HandleIsStockStep
  <2>2. CASE UNCHANGED <<qty, roomOf, life, used, capacity, roomLife, movements>>
    BY <2>2 DEF Atomic!products, Atomic!rooms
  <2>3. CASE \E p \in Products, m \in Rooms, kg \in Kgs, type \in Types :
               Atomic!Record(p, m, kg, type)
    BY <2>3 DEF Atomic!Next, Types
  <2>4. CASE \E p \in Products, kg \in Kgs, type \in Types :
               /\ Atomic!Adjust(p, kg, type)
               /\ (type = "IN" => HasSpace(roomOf[p], kg))
    BY <2>4 DEF Atomic!Next, Atomic!HasSpace, HasSpace, Types
  <2>5. CASE \E p \in Products, m \in Rooms, kg \in Kgs :
               Atomic!Create(p, m, kg) /\ HasSpace(m, kg)
    BY <2>5 DEF Atomic!Next, Atomic!HasSpace, HasSpace
  <2>6. CASE \E p \in Products, m \in Rooms : \E kg \in (PatchKgs \ {NULL}) \cup {qty[p]} :
               /\ Atomic!Update(p, m, kg)
               /\ (m # roomOf[p] => HasSpace(m, qty[p]))
    BY <2>6 DEF Atomic!Next, Atomic!HasSpace, HasSpace
  <2>7. CASE \E p \in Products : Atomic!Remove(p)
    BY <2>7 DEF Atomic!Next
  <2>8. CASE \E m \in Rooms : Atomic!ManageRoom(m)
    BY <2>8 DEF Atomic!Next
  <2> QED BY <2>1, <2>2, <2>3, <2>4, <2>5, <2>6, <2>7, <2>8 DEF StockStep
<1>3. CASE CreateColdRoom
  <2>1. \E m \in Rooms : Atomic!ManageRoom(m)
    BY <1>1, <1>3 DEF CreateColdRoom, Atomic!ManageRoom, Atomic!products, productVars,
                      RoomExists, TypeOK, Lives
  <2> QED BY <2>1 DEF Atomic!Next
<1>6. CASE UNCHANGED vars
  BY <1>6 DEF vars, Atomic!products, Atomic!rooms
<1> QED BY <1>2, <1>3, <1>6 DEF Next

\* One request at a time the stock services are atomic: although they read and
\* check in one place and write in another, every step is an operation of the
\* ledger, which checks and changes product and room at once, or changes nothing.
THEOREM StockIsSerial ==
    ASSUME OneRequest
    PROVE  Spec => StockIsAtomic
<1>1. Init => Atomic!Init
  BY SeedAssumption DEF Init, Atomic!Init
<1>2. FreshInv /\ [Next]_vars => [Atomic!Next]_<<Atomic!products, Atomic!rooms, movements>>
  BY StepIsAtomic
<1> QED BY <1>1, <1>2, InitFresh, NextFresh, PTL DEF Spec, StockIsAtomic, Atomic!Spec

-----------------------------------------------------------------------------
(* The ledger of the products *)

\* PATCH /products leaves the weight alone: a weight it overwrites is booked
\* nowhere.
NoOverwriting == PatchKgs = {NULL}

\* The weight of a product that no row explains.
UnexplainedQty(p) == qty[p] - SumRows(RowsOf(p))

LEMMA QtyLedgerStep ==
    ASSUME KeysHold, TypeOK', ProductLedger, NEW p \in Products,
           Exists(p), UnexplainedQty(p)' = UnexplainedQty(p)
    PROVE  qty'[p] = Opening(p) + SumRows(RowsOf(p))'
<1> DEFINE net == SumRows(RowsOf(p))
<1>1. net \in Int /\ net' \in Int
  BY RowsType, NextRowsType DEF KeysHold, RowsOf
<1>2. qty[p] \in Int /\ qty'[p] \in Int
  BY DEF KeysHold, TypeOK
<1>3. qty[p] = Opening(p) + net
  BY DEF ProductLedger
<1>4. Opening(p) \in Int
  BY SeedAssumption DEF Opening
<1>5. qty'[p] - net' = qty[p] - net
  BY DEF UnexplainedQty
<1> HIDE DEF net
<1>6. qty'[p] = Opening(p) + net'
  BY <1>1, <1>2, <1>3, <1>4, <1>5
<1> QED BY <1>6 DEF net

\* Weight and row change by the same amount.
LEMMA RecordExplained ==
    ASSUME TypeOK, TypeOK', NEW p \in Products, NEW m \in Rooms, NEW kg \in Kgs,
           NEW type \in Types, Atomic!Record(p, m, kg, type)
    PROVE  /\ \A o \in Products : UnexplainedQty(o)' = UnexplainedQty(o)
           /\ life' = life
<1>1. /\ qty' = [qty EXCEPT ![p] = @ + Signed(kg, type)]
      /\ Atomic!Post(p, m, kg, type) /\ life' = life
  BY DEF Atomic!Record, Atomic!Signed, Signed
<1>2. kg \in Nat
  BY WeightsAssumption
<1>3. /\ SumRows(RowsOf(p))' = SumRows(RowsOf(p)) + Signed(kg, type)
      /\ \A o \in Products \ {p} : SumRows(RowsOf(o))' = SumRows(RowsOf(o))
  BY <1>1, <1>2, PostRows
<1>4. ASSUME NEW o \in Products \ {p} PROVE UnexplainedQty(o)' = UnexplainedQty(o)
  <2>1. qty'[o] = qty[o]
    BY <1>1 DEF TypeOK
  <2> QED BY <1>3, <2>1 DEF UnexplainedQty
<1>5. UnexplainedQty(p)' = UnexplainedQty(p)
  <2> DEFINE net == SumRows(RowsOf(p))
             d   == Signed(kg, type)
  <2>1. /\ net' = net + d /\ qty'[p] = qty[p] + d
        /\ net \in Int /\ d \in Int /\ qty[p] \in Int
    BY <1>1, <1>2, <1>3, SignedType, RowsType DEF TypeOK, RowsOf
  <2> HIDE DEF net, d
  <2>2. qty'[p] - net' = qty[p] - net
    BY <2>1
  <2> QED BY <2>2 DEF UnexplainedQty, net
<1> QED BY <1>1, <1>4, <1>5

\* The first row of a product is the weight it was created with.
LEMMA CreateExplained ==
    ASSUME KeysHold, TypeOK', ProductLedger, NEW p \in Products, NEW m \in Rooms,
           NEW kg \in Kgs, Atomic!Create(p, m, kg)
    PROVE  ProductLedger'
<1>1. /\ ~Exists(p)
      /\ qty' = [qty EXCEPT ![p] = kg] /\ life' = [life EXCEPT ![p] = "live"]
      /\ Atomic!Post(p, m, kg, "IN")
  BY DEF Atomic!Create, Exists
<1>2. TypeOK /\ kg \in Nat /\ "IN" \in Types
  BY WeightsAssumption DEF KeysHold, Types
<1>3. /\ SumRows(RowsOf(p))' = SumRows(RowsOf(p)) + kg
      /\ \A o \in Products \ {p} : SumRows(RowsOf(o))' = SumRows(RowsOf(o))
  BY <1>1, <1>2, PostRows DEF Signed
<1>4. RowsOf(p) = {} /\ Opening(p) = 0
  BY <1>1 DEF KeysHold, RowsOf, Opening
<1>5. SumRows(RowsOf(p)) = 0
  BY <1>4, SumEmpty DEF SumRows
<1>6. qty'[p] = Opening(p) + SumRows(RowsOf(p))'
  <2>1. SumRows(RowsOf(p))' = kg
    BY <1>2, <1>3, <1>5
  <2> QED BY <1>1, <1>2, <1>4, <2>1 DEF TypeOK
<1>7. ASSUME NEW o \in Products \ {p}, Exists(o)'
      PROVE  qty'[o] = Opening(o) + SumRows(RowsOf(o))'
  <2>1. qty'[o] = qty[o] /\ Exists(o)
    BY <1>1, <1>2, <1>7 DEF TypeOK, Exists
  <2> QED BY <1>3, <2>1 DEF ProductLedger
<1> QED BY <1>6, <1>7 DEF ProductLedger, Opening

LEMMA StockStepExplained ==
    ASSUME NoOverwriting, KeysHold, TypeOK', ProductLedger, StockStep
    PROVE  ProductLedger'
<1>1. TypeOK
  BY DEF KeysHold
<1>2. ASSUME life' = life, \A p \in Products : UnexplainedQty(p)' = UnexplainedQty(p)
      PROVE  ProductLedger'
  <2>1. ASSUME NEW p \in Products, Exists(p)'
        PROVE  qty'[p] = Opening(p) + SumRows(RowsOf(p))'
    <3>1. Exists(p)
      BY <1>2, <2>1 DEF Exists
    <3> QED BY <1>2, <3>1, QtyLedgerStep
  <2> QED BY <2>1 DEF ProductLedger, Opening
<1>3. ASSUME qty' = qty, movements' = movements,
             \A p \in Products : Exists(p)' => Exists(p)
      PROVE  ProductLedger'
  BY <1>3, SameRows DEF ProductLedger, Opening
<1>4. CASE UNCHANGED <<qty, roomOf, life, used, capacity, roomLife, movements>>
  BY <1>3, <1>4 DEF Exists
<1>5. CASE \E p \in Products, m \in Rooms, kg \in Kgs, type \in Types :
              Atomic!Record(p, m, kg, type)
  BY <1>1, <1>2, <1>5, RecordExplained
<1>6. CASE \E p \in Products, kg \in Kgs, type \in Types : Atomic!Adjust(p, kg, type)
  <2>1. PICK p \in Products, kg \in Kgs, type \in Types :
           Atomic!Record(p, roomOf[p], kg, type)
    BY <1>6 DEF Atomic!Adjust
  <2>2. roomOf[p] \in Rooms
    BY <1>1 DEF TypeOK
  <2> QED BY <1>1, <1>2, <2>1, <2>2, RecordExplained
<1>7. CASE \E p \in Products, m \in Rooms, kg \in Kgs : Atomic!Create(p, m, kg)
  BY <1>7, CreateExplained
<1>8. CASE \E p \in Products, m \in Rooms : \E kg \in (PatchKgs \ {NULL}) \cup {qty[p]} :
              Atomic!Update(p, m, kg)
  <2>1. PICK p \in Products, m \in Rooms : Atomic!Update(p, m, qty[p])
    BY <1>8 DEF NoOverwriting
  <2>2. qty' = qty /\ life' = life /\ movements' = movements
    BY <1>1, <2>1 DEF Atomic!Update, TypeOK
  <2> QED BY <1>3, <2>2 DEF Exists
<1>9. CASE \E p \in Products : Atomic!Remove(p)
  <2>1. PICK p \in Products : Atomic!Remove(p)
    BY <1>9
  <2>2. /\ life' = [life EXCEPT ![p] = "deleted"] /\ life[p] = "live"
        /\ qty' = qty /\ movements' = movements
    BY <2>1 DEF Atomic!Remove
  <2> QED BY <1>1, <1>3, <2>2 DEF Exists, TypeOK
<1>10. CASE UNCHANGED <<qty, roomOf, life, used, movements>>
  BY <1>3, <1>10 DEF Exists
<1> QED BY <1>4, <1>5, <1>6, <1>7, <1>8, <1>9, <1>10 DEF StockStep

\* One request at a time, the weight of a product is its opening weight plus its
\* movements: what is written is computed from what was read, and nothing came
\* between (stock-movements.service.ts:46, products.service.ts:269).
THEOREM ProductLedgerHolds ==
    ASSUME OneRequest, NoOverwriting
    PROVE  Spec => []ProductLedger
<1> DEFINE Inv == FreshInv /\ ProductLedger
<1>1. Init => ProductLedger
  <2> SUFFICES ASSUME Init PROVE ProductLedger
    OBVIOUS
  <2>1. \A p \in Products : RowsOf(p) = {}
    BY DEF Init, RowsOf
  <2>2. \A p \in Products : SumRows(RowsOf(p)) = 0
    BY <2>1, SumEmpty DEF SumRows
  <2> QED BY <2>2, SeedAssumption DEF Init, ProductLedger, Exists, Opening
<1>2. Inv /\ [Next]_vars => Inv'
  <2> SUFFICES ASSUME Inv, [Next]_vars PROVE ProductLedger'
    BY NextFresh
  <2>1. KeysHold /\ TypeOK /\ TypeOK'
    BY NextFresh DEF FreshInv, KeysHold
  <2>2. ASSUME NEW r \in Requests, Handle(r) PROVE ProductLedger'
    BY <2>1, <2>2, HandleIsStockStep, StockStepExplained
  <2>3. CASE CreateColdRoom \/ UNCHANGED vars
    <3>1. UNCHANGED <<qty, life, movements>>
      BY <2>1, <2>3, RoomsStay
    <3> QED BY <3>1, SameRows DEF ProductLedger, Exists, Opening
  <2> QED BY <2>2, <2>3 DEF Next
<1> QED BY <1>1, <1>2, InitFresh, PTL DEF Spec

-----------------------------------------------------------------------------
(* What stands in a cold room *)

\* The clients of products.service.ts alone: a movement recorded or reverted
\* through stock-movements.service.ts may name another room than the product's.
ProductsOnly == Kinds \cap {"record", "revert"} = {}

\* prisma/seed.ts gives each room the used weight of the products it puts there.
SeededRoomsHold ==
    \A m \in SeededRooms :
        OpeningUsed[m] = SumFunctionOnSet(OpeningQty,
                            {p \in SeededProducts : SeededRoomOf[p] = m})

\* What a product counts in a room, and the sum of that.
Weighs(m) == [p \in Products |-> IF p \in StockIn(m) THEN qty[p] ELSE 0]
Held(m)   == SumFunctionOnSet(Weighs(m), Products)

LEMMA HeldIsStock ==
    ASSUME IsFiniteSet(Products), TypeOK
    PROVE  \A m \in Rooms : /\ SumFunctionOnSet(qty, StockIn(m)) = Held(m)
                            /\ Held(m) \in Int
<1> SUFFICES ASSUME NEW m \in Rooms
             PROVE  SumFunctionOnSet(qty, StockIn(m)) = Held(m) /\ Held(m) \in Int
  OBVIOUS
<1>1. \A p \in Products : qty[p] \in Int /\ Weighs(m)[p] \in Int
  BY DEF TypeOK, Weighs
<1>2. StockIn(m) \in SUBSET Products
  BY DEF StockIn
<1> QED BY <1>1, <1>2, SumWhere, SumType DEF Held, Weighs

\* If one product changes, each room holds as much more as that product weighs
\* more in it.
LEMMA HeldChange ==
    ASSUME IsFiniteSet(Products), TypeOK, TypeOK', NEW p \in Products,
           \A o \in Products \ {p} :
              qty'[o] = qty[o] /\ life'[o] = life[o] /\ roomOf'[o] = roomOf[o]
    PROVE  \A m \in Rooms : Held(m)' = Held(m) + Weighs(m)'[p] - Weighs(m)[p]
<1> SUFFICES ASSUME NEW m \in Rooms
             PROVE  Held(m)' = Held(m) + Weighs(m)'[p] - Weighs(m)[p]
  OBVIOUS
<1> DEFINE f == Weighs(m)
           g == Weighs(m)'
<1>1. f[p] \in Int /\ g[p] \in Int
  BY DEF Weighs, TypeOK
<1>2. ASSUME NEW o \in Products \ {p} PROVE f[o] \in Int /\ g[o] = f[o]
  <2>1. qty[o] \in Int /\ qty'[o] = qty[o] /\ (o \in StockIn(m)' <=> o \in StockIn(m))
    BY DEF StockIn, Live, TypeOK
  <2>2. /\ f[o] = IF o \in StockIn(m) THEN qty[o] ELSE 0
        /\ g[o] = IF o \in StockIn(m)' THEN qty'[o] ELSE 0
    BY DEF Weighs
  <2> HIDE DEF f, g
  <2> QED BY <2>1, <2>2
<1> HIDE DEF f, g
<1>3. SumFunctionOnSet(g, Products) = SumFunctionOnSet(f, Products) + g[p] - f[p]
  BY <1>1, <1>2, SumChange
<1> QED BY <1>3 DEF Held, f, g

LEMMA HeldSame ==
    ASSUME UNCHANGED <<qty, life, roomOf>>
    PROVE  \A m : Held(m)' = Held(m)
BY DEF Held, Weighs, StockIn, Live

RoomsHold == \A m \in Rooms : RoomExists(m) => used[m] = Held(m)

LEMMA RoomsHoldIs ==
    ASSUME IsFiniteSet(Products), TypeOK
    PROVE  RoomsHold <=> RoomHoldsItsProducts
BY HeldIsStock DEF RoomsHold, RoomHoldsItsProducts

\* A step changes one product, and the counters of the rooms by what it counts.
Balanced(p) ==
    /\ \A o \in Products \ {p} :
          qty'[o] = qty[o] /\ life'[o] = life[o] /\ roomOf'[o] = roomOf[o]
    /\ \A m \in Rooms : used'[m] = used[m] + Weighs(m)'[p] - Weighs(m)[p]
    /\ roomLife' = roomLife

LEMMA BalancedHolds ==
    ASSUME IsFiniteSet(Products), TypeOK, TypeOK', RoomsHold,
           NEW p \in Products, Balanced(p)
    PROVE  RoomsHold'
<1> SUFFICES ASSUME NEW m \in Rooms, RoomExists(m)' PROVE used'[m] = Held(m)'
  BY DEF RoomsHold
<1>1. used[m] = Held(m)
  BY DEF RoomsHold, Balanced, RoomExists
<1>2. Held(m)' = Held(m) + Weighs(m)'[p] - Weighs(m)[p]
  BY HeldChange DEF Balanced
<1> QED BY <1>1, <1>2 DEF Balanced

LEMMA AdjustBalances ==
    ASSUME TypeOK, TypeOK', NEW p \in Products, NEW kg \in Kgs, NEW type \in Types,
           Atomic!Adjust(p, kg, type)
    PROVE  Balanced(p)
<1> DEFINE d == Atomic!Signed(kg, type)
<1>1. /\ Live(p) /\ qty' = [qty EXCEPT ![p] = @ + d]
      /\ used' = [used EXCEPT ![roomOf[p]] = @ + d]
      /\ UNCHANGED <<roomOf, life, roomLife>>
  BY DEF Atomic!Adjust, Atomic!Record, Live
<1>2. d \in Int
  BY WeightsAssumption DEF Atomic!Signed
<1> HIDE DEF d
<1>3. ASSUME NEW m \in Rooms PROVE used'[m] = used[m] + Weighs(m)'[p] - Weighs(m)[p]
  <2>1. used[m] \in Int /\ qty[p] \in Int /\ qty'[p] = qty[p] + d
    BY <1>1 DEF TypeOK
  <2>2. CASE m = roomOf[p]
    <3>1. used'[m] = used[m] + d
      BY <1>1, <2>2 DEF TypeOK
    <3>2. Weighs(m)[p] = qty[p] /\ Weighs(m)'[p] = qty'[p]
      BY <1>1, <2>2 DEF Weighs, StockIn, Live
    <3> QED BY <1>2, <2>1, <3>1, <3>2
  <2>3. CASE m # roomOf[p]
    <3>1. used'[m] = used[m]
      BY <1>1, <2>3 DEF TypeOK
    <3>2. Weighs(m)[p] = 0 /\ Weighs(m)'[p] = 0
      BY <1>1, <2>3 DEF Weighs, StockIn
    <3> QED BY <2>1, <3>1, <3>2
  <2> QED BY <2>2, <2>3
<1> QED BY <1>1, <1>3 DEF Balanced, TypeOK

LEMMA CreateBalances ==
    ASSUME TypeOK, TypeOK', NEW p \in Products, NEW x \in Rooms, NEW kg \in Kgs,
           Atomic!Create(p, x, kg)
    PROVE  Balanced(p)
<1>1. /\ life[p] = "none" /\ qty' = [qty EXCEPT ![p] = kg]
      /\ roomOf' = [roomOf EXCEPT ![p] = x] /\ life' = [life EXCEPT ![p] = "live"]
      /\ used' = [used EXCEPT ![x] = @ + kg] /\ roomLife' = roomLife
  BY DEF Atomic!Create
<1>2. qty'[p] = kg /\ life'[p] = "live" /\ roomOf'[p] = x /\ kg \in Int
  BY <1>1, WeightsAssumption DEF TypeOK
<1>3. ASSUME NEW m \in Rooms PROVE used'[m] = used[m] + Weighs(m)'[p] - Weighs(m)[p]
  <2>1. used[m] \in Int /\ Weighs(m)[p] = 0
    BY <1>1 DEF TypeOK, Weighs, StockIn, Live
  <2>2. Weighs(m)'[p] = IF m = x THEN kg ELSE 0
    BY <1>2 DEF Weighs, StockIn, Live
  <2>3. used'[m] = IF m = x THEN used[m] + kg ELSE used[m]
    BY <1>1 DEF TypeOK
  <2> QED BY <1>2, <2>1, <2>2, <2>3
<1> QED BY <1>1, <1>3 DEF Balanced, TypeOK

LEMMA UpdateBalances ==
    ASSUME TypeOK, TypeOK', NEW p \in Products, NEW x \in Rooms,
           Atomic!Update(p, x, qty[p])
    PROVE  Balanced(p)
<1>1. /\ life[p] = "live" /\ qty' = qty /\ life' = life /\ roomLife' = roomLife
      /\ roomOf' = [roomOf EXCEPT ![p] = x]
      /\ used' = IF x = roomOf[p] THEN used
                 ELSE [used EXCEPT ![roomOf[p]] = @ - qty[p], ![x] = @ + qty[p]]
  BY DEF Atomic!Update, TypeOK
<1>2. roomOf'[p] = x /\ roomOf[p] \in Rooms /\ qty[p] \in Int
  BY <1>1 DEF TypeOK
<1>3. ASSUME NEW m \in Rooms PROVE used'[m] = used[m] + Weighs(m)'[p] - Weighs(m)[p]
  <2>1. used[m] \in Int
    BY DEF TypeOK
  <2>2. /\ Weighs(m)[p] = IF m = roomOf[p] THEN qty[p] ELSE 0
        /\ Weighs(m)'[p] = IF m = x THEN qty[p] ELSE 0
    BY <1>1, <1>2 DEF Weighs, StockIn, Live
  <2>3. used'[m] = IF x = roomOf[p] THEN used[m]
                   ELSE IF m = x THEN used[m] + qty[p]
                   ELSE IF m = roomOf[p] THEN used[m] - qty[p] ELSE used[m]
    BY <1>1 DEF TypeOK
  <2> QED BY <1>2, <2>1, <2>2, <2>3
<1> QED BY <1>1, <1>3 DEF Balanced, TypeOK

LEMMA RemoveBalances ==
    ASSUME TypeOK, TypeOK', NEW p \in Products, Atomic!Remove(p)
    PROVE  Balanced(p)
<1>1. /\ life[p] = "live" /\ life' = [life EXCEPT ![p] = "deleted"]
      /\ used' = [used EXCEPT ![roomOf[p]] = @ - qty[p]]
      /\ UNCHANGED <<qty, roomOf, roomLife>>
  BY DEF Atomic!Remove, Atomic!rooms
<1>2. life'[p] = "deleted" /\ qty[p] \in Int
  BY <1>1 DEF TypeOK
<1>3. ASSUME NEW m \in Rooms PROVE used'[m] = used[m] + Weighs(m)'[p] - Weighs(m)[p]
  <2>1. used[m] \in Int
    BY DEF TypeOK
  <2>2. /\ Weighs(m)[p] = IF m = roomOf[p] THEN qty[p] ELSE 0
        /\ Weighs(m)'[p] = 0
    BY <1>1, <1>2 DEF Weighs, StockIn, Live
  <2>3. used'[m] = IF m = roomOf[p] THEN used[m] - qty[p] ELSE used[m]
    BY <1>1 DEF TypeOK
  <2> QED BY <1>2, <2>1, <2>2, <2>3
<1> QED BY <1>1, <1>3 DEF Balanced, TypeOK

HoldInv == FreshInv /\ RoomsHold

LEMMA StockStepHolds ==
    ASSUME IsFiniteSet(Products), ProductsOnly, NoOverwriting, KeysHold, TypeOK',
           RoomsHold, StockStep
    PROVE  RoomsHold'
<1>1. TypeOK /\ \A p \in Products : Balanced(p) => RoomsHold'
  BY BalancedHolds DEF KeysHold
<1>2. CASE UNCHANGED <<qty, roomOf, life, used, capacity, roomLife, movements>>
  BY <1>2, HeldSame DEF RoomsHold, RoomExists
<1>3. CASE "record" \in Kinds \/ "revert" \in Kinds
  BY <1>3 DEF ProductsOnly
<1>4. CASE \E p \in Products, kg \in Kgs, type \in Types : Atomic!Adjust(p, kg, type)
  BY <1>1, <1>4, AdjustBalances
<1>5. CASE \E p \in Products, m \in Rooms, kg \in Kgs : Atomic!Create(p, m, kg)
  BY <1>1, <1>5, CreateBalances
<1>6. CASE \E p \in Products, m \in Rooms : \E kg \in (PatchKgs \ {NULL}) \cup {qty[p]} :
              Atomic!Update(p, m, kg)
  <2>1. PICK p \in Products, m \in Rooms : Atomic!Update(p, m, qty[p])
    BY <1>6 DEF NoOverwriting
  <2> QED BY <1>1, <2>1, UpdateBalances
<1>7. CASE \E p \in Products : Atomic!Remove(p)
  BY <1>1, <1>7, RemoveBalances
<1>8. CASE /\ UNCHANGED <<qty, roomOf, life, used, movements>>
           /\ \A m \in Rooms : RoomExists(m)' <=> RoomExists(m)
  BY <1>8, HeldSame DEF RoomsHold
<1> QED BY <1>2, <1>3, <1>4, <1>5, <1>6, <1>7, <1>8 DEF StockStep

\* A new cold room is empty: no product refers to a room that is not there.
LEMMA RoomsStillHold ==
    ASSUME IsFiniteSet(Products), KeysHold, RoomsHold, CreateColdRoom \/ UNCHANGED vars
    PROVE  RoomsHold'
<1>1. /\ TypeOK /\ UNCHANGED <<qty, life, roomOf, movements, requests>>
      /\ \A m \in Rooms : RoomExists(m) => RoomExists(m)' /\ used'[m] = used[m]
  BY RoomsStay DEF KeysHold
<1>2. ASSUME NEW m \in Rooms, RoomExists(m)', ~RoomExists(m) PROVE used'[m] = 0
  BY <1>1, <1>2 DEF CreateColdRoom, vars, RoomExists, TypeOK
<1>3. ASSUME NEW m \in Rooms, ~RoomExists(m) PROVE Held(m) = 0
  <2>1. \A p \in Products : p \notin StockIn(m)
    BY <1>3 DEF KeysHold, StockIn, Live, Exists
  <2>2. \A p \in Products : Weighs(m)[p] = 0
    BY <2>1 DEF Weighs
  <2> QED BY <2>2, SumZero DEF Held
<1>4. \A m : Held(m)' = Held(m)
  BY <1>1, HeldSame
<1> QED BY <1>1, <1>2, <1>3, <1>4 DEF RoomsHold

LEMMA InitHold == IsFiniteSet(Products) /\ SeededRoomsHold /\ Init => HoldInv
<1> SUFFICES ASSUME IsFiniteSet(Products), SeededRoomsHold, Init PROVE RoomsHold
  BY InitFresh DEF HoldInv
<1>1. TypeOK
  BY InitType
<1>2. ASSUME NEW m \in Rooms, RoomExists(m)
      PROVE  used[m] = SumFunctionOnSet(qty, StockIn(m))
  <2>1. m \in SeededRooms
    BY <1>2 DEF Init, RoomExists
  <2>2. StockIn(m) = {p \in SeededProducts : SeededRoomOf[p] = m}
    BY SetsAssumption DEF Init, StockIn, Live
  <2> QED BY <2>1, <2>2 DEF Init, SeededRoomsHold
<1> QED BY <1>1, <1>2, RoomsHoldIs DEF RoomHoldsItsProducts

LEMMA NextHold ==
    ASSUME OneRequest, IsFiniteSet(Products), ProductsOnly, NoOverwriting
    PROVE  HoldInv /\ [Next]_vars => HoldInv'
<1> SUFFICES ASSUME HoldInv, [Next]_vars PROVE RoomsHold'
  BY NextFresh DEF HoldInv
<1>1. FreshInv /\ KeysHold /\ RoomsHold /\ TypeOK'
  BY NextFresh DEF HoldInv, FreshInv, KeysHold
<1>2. ASSUME NEW r \in Requests, Handle(r) PROVE RoomsHold'
  BY <1>1, <1>2, HandleIsStockStep, StockStepHolds
<1> QED BY <1>1, <1>2, RoomsStillHold DEF Next

\* One request at a time products.service.ts keeps the counter of every cold room
\* equal to the stock that stands in it, whatever products and rooms there are:
\* create, adjust, move and remove change one product and its rooms by the same
\* weight, and a room starts empty.
THEOREM RoomsHoldTheirProducts ==
    ASSUME OneRequest, IsFiniteSet(Products), ProductsOnly, NoOverwriting, SeededRoomsHold
    PROVE  Spec => []RoomHoldsItsProducts
<1>1. HoldInv => RoomHoldsItsProducts
  BY RoomsHoldIs DEF HoldInv, FreshInv, KeysHold
<1> QED BY <1>1, InitHold, NextHold, PTL DEF Spec

-----------------------------------------------------------------------------
(* ... and is not overfilled *)

FillsWithinCapacity == \A m \in Rooms : used'[m] > used[m] => used'[m] <= capacity'[m]

\* What an operation of the ledger brings into a room was checked to fit there.
LEMMA StockStepFits ==
    ASSUME ProductsOnly, TypeOK, TypeOK', StockNonNegative, StockStep
    PROVE  FillsWithinCapacity
<1>1. /\ used \in [Rooms -> Int] /\ capacity \in [Rooms -> Int]
      /\ \A p \in Products : qty[p] \in Int /\ qty[p] >= 0 /\ roomOf[p] \in Rooms
      /\ \A kg \in Kgs : kg \in Int /\ kg >= 0
  BY WeightsAssumption DEF TypeOK, StockNonNegative
<1>2. ASSUME used' = used PROVE FillsWithinCapacity
  BY <1>1, <1>2 DEF FillsWithinCapacity
<1>3. CASE "record" \in Kinds \/ "revert" \in Kinds
  BY <1>3 DEF ProductsOnly
<1>4. ASSUME NEW p \in Products, NEW kg \in Kgs, NEW type \in Types,
             Atomic!Adjust(p, kg, type), type = "IN" => HasSpace(roomOf[p], kg)
      PROVE  FillsWithinCapacity
  <2>1. used' = [used EXCEPT ![roomOf[p]] = @ + Atomic!Signed(kg, type)]
        /\ capacity' = capacity
    BY <1>4 DEF Atomic!Adjust, Atomic!Record
  <2>2. CASE type = "IN"
    BY <1>1, <1>4, <2>1, <2>2 DEF FillsWithinCapacity, HasSpace, Atomic!Signed
  <2>3. CASE type = "OUT"
    BY <1>1, <2>1, <2>3 DEF FillsWithinCapacity, Atomic!Signed
  <2> QED BY <2>2, <2>3 DEF Types
<1>5. ASSUME NEW p \in Products, NEW x \in Rooms, NEW kg \in Kgs,
             Atomic!Create(p, x, kg), HasSpace(x, kg)
      PROVE  FillsWithinCapacity
  <2>1. used' = [used EXCEPT ![x] = @ + kg] /\ capacity' = capacity
    BY <1>5 DEF Atomic!Create
  <2> QED BY <1>1, <1>5, <2>1 DEF FillsWithinCapacity, HasSpace
<1>6. ASSUME NEW p \in Products, NEW x \in Rooms, NEW kg, Atomic!Update(p, x, kg),
             x # roomOf[p] => HasSpace(x, qty[p])
      PROVE  FillsWithinCapacity
  <2>1. /\ used' = IF x = roomOf[p] THEN used
                   ELSE [used EXCEPT ![roomOf[p]] = @ - qty[p], ![x] = @ + qty[p]]
        /\ capacity' = capacity
    BY <1>6 DEF Atomic!Update
  <2> QED BY <1>1, <1>2, <1>6, <2>1 DEF FillsWithinCapacity, HasSpace
<1>7. ASSUME NEW p \in Products, Atomic!Remove(p)
      PROVE  FillsWithinCapacity
  <2>1. used' = [used EXCEPT ![roomOf[p]] = @ - qty[p]]
    BY <1>7 DEF Atomic!Remove
  <2> QED BY <1>1, <2>1 DEF FillsWithinCapacity
<1> QED BY <1>2, <1>3, <1>4, <1>5, <1>6, <1>7 DEF StockStep

\* A new room starts empty.
LEMMA NewRoomFits ==
    ASSUME TypeOK, TypeOK', CreateColdRoom \/ UNCHANGED vars
    PROVE  FillsWithinCapacity
<1>1. CASE CreateColdRoom
  <2>1. PICK x \in Rooms, c \in Capacities :
           capacity' = [capacity EXCEPT ![x] = c] /\ used' = [used EXCEPT ![x] = 0]
    BY <1>1 DEF CreateColdRoom
  <2>2. c \in Nat
    BY WeightsAssumption
  <2> QED BY <2>1, <2>2 DEF TypeOK, FillsWithinCapacity
<1>2. CASE UNCHANGED vars
  BY <1>2 DEF vars, TypeOK, FillsWithinCapacity
<1> QED BY <1>1, <1>2

\* One request through the product and room endpoints at a time, no step adds
\* weight to a cold room beyond its capacity, whatever was overwritten or resized
\* before: the space a handler found is still there when it writes.
THEOREM NoRoomIsOverfilled ==
    ASSUME OneRequest, ProductsOnly
    PROVE  Spec => NoOverfill
<1>1. FreshInv /\ FreshInv' /\ [Next]_vars => [FillsWithinCapacity]_vars
  <2> SUFFICES ASSUME FreshInv, FreshInv', Next PROVE FillsWithinCapacity
    OBVIOUS
  <2>1. TypeOK /\ TypeOK' /\ StockNonNegative
    BY DEF FreshInv, KeysHold
  <2>2. ASSUME NEW r \in Requests, Handle(r) PROVE FillsWithinCapacity
    BY <2>1, <2>2, HandleIsStockStep, StockStepFits
  <2> QED BY <2>1, <2>2, NewRoomFits DEF Next
<1> QED BY <1>1, InitFresh, NextFresh, PTL DEF Spec, NoOverfill, FillsWithinCapacity

-----------------------------------------------------------------------------
(* Orders *)

\* What clients may order and send: the weights of the carts are weights that a
\* movement may have, and movements are among the requests.
OrderedWeightsMove ==
    /\ "record" \in Kinds
    /\ \A cart \in Carts : \A i \in DOMAIN cart : cart[i].kg \in Kgs

\* An approval reserves the items of an order that exists, as one of the
\* callers, in rooms it has read; whoever works on an order works on one that
\* exists; whoever is placing one is the only one, and the order is not there yet.
Working == {"reserve", "invoice", "reject", "rejecting", "delete", "deleting"}

Sound(h) ==
    /\ h.step \in Working => orderStatus[h.order] # "none"
    /\ h.step = "create" => orderStatus[h.order] = "none"
    /\ h.step = "reserve" =>
          h.by \in Callers /\ DOMAIN h.rooms = DOMAIN Items(h.order)

HandlersSound ==
    /\ \A r \in Requests : Sound(handling[r])
    /\ \A r, q \in Requests :
          r # q /\ handling[r].step = "create" /\ handling[q].step = "create" =>
              handling[r].order # handling[q].order

OrdersInv == OrdersTypeOK /\ HandlersSound

LEMMA HandlingKinds ==
    ASSUME NEW h \in {None} \cup Approval \cup Closing \cup Placing
    PROVE  /\ h.step \in {"reserve", "invoice"} => h \in Approval
           /\ h.step \in {"reject", "rejecting", "delete", "deleting"} => h \in Closing
           /\ h.step = "create" => h \in Placing
           /\ h # None => h.order \in Orders /\ h.step \in Working \cup {"create"}
           /\ h = None => h.step = "none"
BY DEF None, Approval, Closing, Placing, Working

LEMMA ElementOfSeq ==
    ASSUME NEW S, NEW s \in Seq(S), NEW i \in DOMAIN s
    PROVE  s[i] \in S
OBVIOUS

\* The items of an order are products with weights that a movement may have.
LEMMA ItemsType ==
    ASSUME OrdersTypeOK, NEW o \in Orders
    PROVE  /\ Items(o) \in Seq([product: Products, kg: Nat \ {0}])
           /\ OrderedWeightsMove =>
                \A i \in DOMAIN Items(o) : Items(o)[i].kg \in Kgs
<1>1. Items(o) \in Carts \cup {<< >>}
  BY DEF OrdersTypeOK, Items
<1>2. Items(o) \in Seq([product: Products, kg: Nat \ {0}])
  <2>1. << >> \in Seq([product: Products, kg: Nat \ {0}])
    OBVIOUS
  <2> QED BY <1>1, <2>1, OrdersAssumption
<1>3. ASSUME OrderedWeightsMove, NEW i \in DOMAIN Items(o) PROVE Items(o)[i].kg \in Kgs
  BY <1>1, <1>3 DEF OrderedWeightsMove
<1> QED BY <1>2, <1>3

-----------------------------------------------------------------------------
(* Every step of an order is a step or a stutter of Inventory *)

LEMMA StepIsStockStep ==
    ASSUME OrderedWeightsMove, OrdersInv, [OrdersNext]_ordersVars
    PROVE  [Next]_vars
<1>1. OrdersTypeOK /\ TypeOK /\ HandlersSound
  BY DEF OrdersInv, OrdersTypeOK
<1>2. CASE AddColdRoom
  BY <1>2 DEF AddColdRoom, Next
<1>3. ASSUME NEW r \in Requests, Approve(r) PROVE [Next]_vars
  <2> DEFINE h == handling[r]
  <2>1. CASE ReserveRead(r)
    <3> DEFINE i    == h.done + 1
               item == Items(h.order)[i]
    <3>1. h \in Approval
      BY <1>1, <2>1, HandlingKinds DEF ReserveRead, OrdersTypeOK
    <3>2. h.order \in Orders /\ h.rooms \in Seq(Rooms)
      BY <3>1 DEF Approval
    <3>3. i \in DOMAIN Items(h.order) /\ i \in DOMAIN h.rooms /\ h.by \in Callers
      BY <1>1, <2>1, <3>1 DEF ReserveRead, HandlersSound, Sound, Approval
    <3>4. item \in [product: Products, kg: Nat \ {0}] /\ item.kg \in Kgs
      <4>1. /\ Items(h.order) \in Seq([product: Products, kg: Nat \ {0}])
            /\ \A j \in DOMAIN Items(h.order) : Items(h.order)[j].kg \in Kgs
        BY <1>1, <3>2, ItemsType
      <4>2. i \in DOMAIN Items(h.order)
        BY <3>3
      <4> DEFINE items == Items(h.order)
      <4> HIDE DEF items, i
      <4>3. items[i] \in [product: Products, kg: Nat \ {0}] /\ items[i].kg \in Kgs
        BY <4>1, <4>2, ElementOfSeq DEF items
      <4> QED BY <4>3 DEF items
    <3>5. item.product \in Products /\ item.kg \in Kgs /\ item.kg > 0
      BY <3>4
    <3>6. h.rooms[i] \in Rooms
      BY <3>2, <3>3
    <3>7. ReadForMovement(r, item.product, h.rooms[i], item.kg, "OUT", h.by)
      BY <2>1 DEF ReserveRead
    <3>8. BeginRecord(r)
      BY <3>3, <3>5, <3>6, <3>7 DEF BeginRecord, OrderedWeightsMove, Types
    <3> QED BY <3>8 DEF Next, Handle, Read
  <2>2. CASE Reserve(r)
    BY <2>2 DEF Reserve, Next, Handle, Commit
  <2>3. CASE WriteApproved(r) \/ WriteTooLate(r) \/ TimeOut(r)
    BY <2>3 DEF WriteApproved, WriteTooLate, TimeOut
  <2>4. CASE FinishApproval(r)
    BY <2>4 DEF FinishApproval
  <2>5. CASE AbandonApproval(r)
    <3>1. CASE requests[r] = Idle
      <4>1. requests' = requests
        BY <1>1, <2>5, <3>1 DEF AbandonApproval, Finish, TypeOK
      <4> QED BY <2>5, <4>1
          DEF AbandonApproval, vars, productVars, roomVars
    <3>2. CASE requests[r] # Idle
      BY <2>5, <3>2 DEF AbandonApproval, RollBack, Next, Handle
    <3> QED BY <3>1, <3>2
  <2> QED BY <1>3, <2>1, <2>2, <2>3, <2>4, <2>5 DEF Approve
<1>4. ASSUME NEW r \in Requests,
             \/ BeginCreateOrder(r) \/ CreateOrder(r) \/ BeginApprove(r) \/ BeginReject(r)
             \/ Reject(r) \/ BeginDelete(r) \/ Delete(r) \/ SendUpdate(r) \/ OpenTransaction(r)
      PROVE  UNCHANGED vars
  BY <1>4 DEF BeginCreateOrder, CreateOrder, BeginApprove, BeginReject, Reject, BeginDelete,
              Delete, SendUpdate, OpenTransaction
<1>5. ASSUME NEW r \in Requests, HandleStock(r) PROVE [Next]_vars
  BY <1>5 DEF HandleStock, ReadStock, CommitStock, RollBackStock, Next, Handle
<1>6. CASE UNCHANGED ordersVars
  BY <1>6 DEF ordersVars
<1> QED BY <1>2, <1>3, <1>4, <1>5, <1>6 DEF OrdersNext, HandleOrder, Continue

-----------------------------------------------------------------------------
(* The invariant of the order handlers *)

LEMMA InitOrders == OrdersInit => OrdersInv
<1> SUFFICES ASSUME OrdersInit PROVE OrdersInv
  OBVIOUS
<1>1. TypeOK
  BY InitType DEF OrdersInit
<1>2. OrdersTypeOK
  BY <1>1 DEF OrdersInit, OrdersTypeOK, Statuses
<1>3. HandlersSound
  BY DEF OrdersInit, HandlersSound, Sound, Working, None
<1> QED BY <1>2, <1>3 DEF OrdersInv

\* A slot gets new content; only the order it was placing comes into being.
LEMMA SlotChange ==
    ASSUME OrdersInv, NEW r \in Requests, NEW slot, OrdersTypeOK',
           handling' = [handling EXCEPT ![r] = slot],
           \A o \in Orders : orderStatus[o] # "none" =>
               orderStatus'[o] # "none" /\ orderItems'[o] = orderItems[o],
           \A o \in Orders : orderStatus[o] = "none" /\ orderStatus'[o] # "none" =>
               handling[r].step = "create" /\ handling[r].order = o,
           Sound(slot)',
           slot.step = "create" => \A q \in Requests \ {r} :
               handling[q].step = "create" => handling[q].order # slot.order
    PROVE  OrdersInv'
<1>1. /\ handling \in [Requests -> {None} \cup Approval \cup Closing \cup Placing]
      /\ HandlersSound /\ handling'[r] = slot
      /\ \A s \in Requests \ {r} : handling'[s] = handling[s]
  BY DEF OrdersInv, OrdersTypeOK
<1>2. ASSUME NEW s \in Requests \ {r} PROVE Sound(handling[s])'
  <2> DEFINE h == handling[s]
  <2>1. handling'[s] = h /\ Sound(h)
    BY <1>1 DEF HandlersSound
  <2>2. CASE h.step \in Working
    <3>1. h.order \in Orders /\ h.step # "create"
      BY <1>1, <2>2, HandlingKinds DEF Working
    <3> QED BY <2>1, <2>2, <3>1 DEF Sound, Items
  <2>3. CASE h.step = "create"
    <3>1. h.order \in Orders /\ h.step \notin Working
      BY <1>1, <2>3, HandlingKinds DEF Working, Placing
    <3>2. orderStatus'[h.order] = "none"
      BY <1>1, <2>1, <2>3, <3>1 DEF Sound, HandlersSound
    <3> QED BY <2>1, <2>3, <3>1, <3>2 DEF Sound
  <2>4. CASE h.step \notin Working \cup {"create"}
    BY <2>1, <2>4 DEF Sound, Working
  <2> QED BY <2>2, <2>3, <2>4
<1>3. \A s \in Requests : Sound(handling[s])'
  BY <1>1, <1>2
<1>4. \A s, q \in Requests :
          s # q /\ handling'[s].step = "create" /\ handling'[q].step = "create" =>
              handling'[s].order # handling'[q].order
  BY <1>1 DEF HandlersSound
<1> QED BY <1>3, <1>4 DEF OrdersInv, HandlersSound

LEMMA NextOrders ==
    ASSUME OrderedWeightsMove
    PROVE  OrdersInv /\ [OrdersNext]_ordersVars => OrdersInv'
<1> SUFFICES ASSUME OrdersInv, [OrdersNext]_ordersVars PROVE OrdersInv'
  OBVIOUS
<1>1. OrdersTypeOK /\ TypeOK /\ HandlersSound
  BY DEF OrdersInv, OrdersTypeOK
<1>2. TypeOK'
  BY <1>1, StepIsStockStep, NextType
<1>3. ASSUME UNCHANGED <<orderRows, handling>>, inTx' \in SUBSET Requests
      PROVE  OrdersInv'
  BY <1>1, <1>2, <1>3
  DEF orderRows, OrdersInv, OrdersTypeOK, HandlersSound, Sound, Items
<1>4. ASSUME NEW r \in Requests, BeginCreateOrder(r) PROVE OrdersInv'
  <2>1. PICK o \in Orders, cart \in Carts :
          /\ orderStatus[o] = "none"
          /\ \A q \in Requests : handling[q].step = "create" => handling[q].order # o
          /\ handling' = [handling EXCEPT ![r] =
                [step |-> "create", order |-> o, cart |-> cart]]
    BY <1>4 DEF BeginCreateOrder, Enter
  <2> DEFINE slot == [step |-> "create", order |-> o, cart |-> cart]
  <2>2. UNCHANGED <<orderRows, inTx>>
    BY <1>4 DEF BeginCreateOrder
  <2>3. slot \in Placing /\ slot.step = "create" /\ slot.order = o
    BY DEF Placing
  <2>4. handling' = [handling EXCEPT ![r] = slot]
    BY <2>1
  <2> HIDE DEF slot
  <2>5. OrdersTypeOK'
    BY <1>1, <1>2, <2>2, <2>3, <2>4 DEF OrdersTypeOK, orderRows
  <2>6. Sound(slot)'
    BY <2>1, <2>2, <2>3 DEF Sound, Working, orderRows
  <2> QED BY <2>1, <2>2, <2>3, <2>4, <2>5, <2>6, SlotChange DEF orderRows
<1>5. ASSUME NEW r \in Requests, CreateOrder(r) PROVE OrdersInv'
  <2> DEFINE o == handling[r].order
             cart == handling[r].cart
  <2>1. handling[r] \in Placing /\ o \in Orders /\ cart \in Carts
    BY <1>1, <1>5, HandlingKinds DEF CreateOrder, OrdersTypeOK, Placing
  <2>2. orderStatus[o] = "none" /\ handling[r].step = "create"
    BY <1>1, <1>5 DEF CreateOrder, HandlersSound, Sound
  <2>3. /\ orderStatus' = [orderStatus EXCEPT ![o] = "REQUESTED"]
        /\ orderItems' = [orderItems EXCEPT ![o] = cart]
        /\ handling' = [handling EXCEPT ![r] = None]
        /\ UNCHANGED <<orderDeleted, orderSite, invoiced, inTx>>
    BY <1>5 DEF CreateOrder, Leave
  <2>4. OrdersTypeOK'
    BY <1>1, <1>2, <2>1, <2>3 DEF OrdersTypeOK, Statuses
  <2>5. Sound(None)' /\ None.step # "create"
    BY DEF Sound, None, Working
  <2>6. \A x \in Orders : x # o =>
            orderStatus'[x] = orderStatus[x] /\ orderItems'[x] = orderItems[x]
    BY <1>1, <2>3 DEF OrdersTypeOK
  <2> QED BY <2>2, <2>3, <2>4, <2>5, <2>6, SlotChange
<1>6. ASSUME NEW r \in Requests, BeginApprove(r) PROVE OrdersInv'
  <2>1. PICK o \in Orders :
          /\ orderSite[o] \in Callers
          /\ Open(o)
          /\ handling' = [handling EXCEPT ![r] =
               [step |-> "reserve", order |-> o, by |-> orderSite[o], done |-> 0, tx |-> TRUE,
                rooms |-> [i \in DOMAIN Items(o) |-> roomOf[Items(o)[i].product]]]]
    BY <1>6 DEF BeginApprove, Enter
  <2> DEFINE rooms == [i \in DOMAIN Items(o) |-> roomOf[Items(o)[i].product]]
             slot  == [step |-> "reserve", order |-> o, by |-> orderSite[o],
                       done |-> 0, tx |-> TRUE, rooms |-> rooms]
  <2>2. rooms \in Seq(Rooms)
    <3>1. Items(o) \in Seq([product: Products, kg: Nat \ {0}])
      BY <1>1, ItemsType
    <3>2. \A i \in 1 .. Len(Items(o)) : roomOf[Items(o)[i].product] \in Rooms
      <4>1. SUFFICES ASSUME NEW i \in 1 .. Len(Items(o))
            PROVE roomOf[Items(o)[i].product] \in Rooms
        OBVIOUS
      <4>2. Items(o)[i] \in [product: Products, kg: Nat \ {0}]
        <5> DEFINE items == Items(o)
        <5> HIDE DEF items
        <5>1. items \in Seq([product: Products, kg: Nat \ {0}]) /\ i \in DOMAIN items
          BY <3>1 DEF items
        <5>2. items[i] \in [product: Products, kg: Nat \ {0}]
          BY <5>1, ElementOfSeq
        <5> QED BY <5>2 DEF items
      <4> QED BY <1>1, <4>2 DEF TypeOK
    <3>3. DOMAIN Items(o) = 1 .. Len(Items(o)) /\ Len(Items(o)) \in Nat
      BY <3>1
    <3> QED BY <3>2, <3>3
  <2>3. slot \in Approval
    BY <1>1, <2>2 DEF Approval, OrdersTypeOK
  <2>4. UNCHANGED <<orderRows, inTx>>
    BY <1>6 DEF BeginApprove
  <2>5. OrdersTypeOK'
    BY <1>1, <1>2, <2>1, <2>3, <2>4 DEF orderRows, OrdersTypeOK
  <2>6. orderStatus[o] # "none"
    BY <2>1 DEF Open
  <2>7. PICK new : /\ new.by \in Callers /\ new.order = o /\ new.step = "reserve"
                   /\ DOMAIN new.rooms = DOMAIN Items(o)
                   /\ handling' = [handling EXCEPT ![r] = new]
    BY <2>1
  <2>8. Sound(new)'
    BY <2>4, <2>6, <2>7 DEF Sound, Items, orderRows
  <2> QED BY <2>4, <2>5, <2>7, <2>8, SlotChange DEF orderRows
<1>7. ASSUME NEW r \in Requests, ReserveRead(r) \/ OpenTransaction(r) PROVE OrdersInv'
  BY <1>1, <1>3, <1>7 DEF ReserveRead, OpenTransaction, orderVars, OrdersTypeOK
<1>8. ASSUME NEW r \in Requests, Reserve(r) \/ TimeOut(r) \/ WriteApproved(r)
      PROVE  OrdersInv'
  <2> DEFINE h == handling[r]
  <2>1. h \in Approval /\ h.step \in {"reserve", "invoice"}
    BY <1>1, <1>8, HandlingKinds DEF Reserve, TimeOut, WriteApproved, OrdersTypeOK
  <2>2. PICK slot : /\ handling' = [handling EXCEPT ![r] = slot]
                    /\ slot \in Approval /\ slot.step \in {h.step, "invoice"} /\ slot.by = h.by
                    /\ slot.order = h.order /\ slot.rooms = h.rooms
    <3>1. CASE Reserve(r)
      <4> DEFINE slot == [h EXCEPT !.done = h.done + 1]
      <4>1. handling' = [handling EXCEPT ![r] = slot]
        BY <1>1, <3>1 DEF Reserve, OrdersTypeOK
      <4>2. /\ slot \in Approval /\ slot.step = h.step /\ slot.by = h.by
            /\ slot.order = h.order /\ slot.rooms = h.rooms
        BY <2>1 DEF Approval
      <4> QED BY <4>1, <4>2
    <3>2. CASE TimeOut(r)
      <4> DEFINE slot == [h EXCEPT !.tx = FALSE]
      <4>1. handling' = [handling EXCEPT ![r] = slot]
        BY <1>1, <3>2 DEF TimeOut, OrdersTypeOK
      <4>2. /\ slot \in Approval /\ slot.step = h.step /\ slot.by = h.by
            /\ slot.order = h.order /\ slot.rooms = h.rooms
        BY <2>1 DEF Approval
      <4> QED BY <4>1, <4>2
    <3>3. CASE WriteApproved(r)
      <4> DEFINE slot == [h EXCEPT !.step = "invoice"]
      <4>1. handling' = [handling EXCEPT ![r] = slot]
        BY <1>1, <3>3 DEF WriteApproved, OrdersTypeOK
      <4>2. /\ slot \in Approval /\ slot.step = "invoice" /\ slot.by = h.by
            /\ slot.order = h.order /\ slot.rooms = h.rooms
        BY <2>1 DEF Approval
      <4> QED BY <4>1, <4>2
    <3> QED BY <1>8, <3>1, <3>2, <3>3
  <2>3. orderRows' = orderRows /\ inTx' \in SUBSET Requests
    BY <1>1, <1>8 DEF Reserve, TimeOut, WriteApproved, OrdersTypeOK
  <2>4. OrdersTypeOK'
    BY <1>1, <1>2, <2>2, <2>3 DEF OrdersTypeOK, orderRows
  <2>5. Sound(h) /\ slot.step # "create" /\ (slot.step = "reserve" => h.step = "reserve")
    BY <1>1, <2>1, <2>2 DEF HandlersSound
  <2>6. Sound(slot)'
    BY <2>1, <2>2, <2>3, <2>5 DEF Sound, Working, Items, orderRows
  <2> QED BY <2>2, <2>3, <2>4, <2>5, <2>6, SlotChange DEF orderRows
<1>9. ASSUME NEW r \in Requests, handling' = [handling EXCEPT ![r] = None],
             orderItems' = orderItems, orderSite' = orderSite,
             orderDeleted' \in [Orders -> BOOLEAN],
             orderStatus' \in [Orders -> Statuses],
             \A o \in Orders : orderStatus'[o] = "none" <=> orderStatus[o] = "none",
             invoiced' \in SUBSET Orders, inTx' \in SUBSET Requests
      PROVE  OrdersInv'
  <2>1. OrdersTypeOK'
    BY <1>1, <1>2, <1>9 DEF OrdersTypeOK
  <2>2. Sound(None)' /\ None.step # "create"
    BY DEF Sound, None, Working
  <2> QED BY <1>9, <2>1, <2>2, SlotChange
<1>10. ASSUME NEW r \in Requests, FinishApproval(r) PROVE OrdersInv'
  <2>1. handling[r].order \in Orders /\ orderStatus[handling[r].order] # "none"
    BY <1>1, <1>10, HandlingKinds
    DEF FinishApproval, OrdersTypeOK, Approval, HandlersSound, Sound, Working
  <2>2. /\ orderStatus' \in [Orders -> Statuses]
        /\ \A o \in Orders : orderStatus'[o] = "none" <=> orderStatus[o] = "none"
    BY <1>1, <1>10, <2>1 DEF FinishApproval, OrdersTypeOK, Statuses
  <2>3. invoiced' \in SUBSET Orders
    BY <1>1, <1>10, <2>1 DEF FinishApproval, OrdersTypeOK
  <2> QED BY <1>1, <1>9, <1>10, <2>2, <2>3 DEF FinishApproval, Leave, OrdersTypeOK
<1>11. ASSUME NEW r \in Requests, AbandonApproval(r) \/ WriteTooLate(r) PROVE OrdersInv'
  BY <1>1, <1>9, <1>11
  DEF AbandonApproval, WriteTooLate, Leave, OrdersTypeOK, orderRows
<1>12. ASSUME NEW r \in Requests, Reject(r) PROVE OrdersInv'
  <2>1. handling[r].order \in Orders /\ orderStatus[handling[r].order] # "none"
    BY <1>1, <1>12, HandlingKinds
    DEF Reject, OrdersTypeOK, Closing, HandlersSound, Sound, Working
  <2>2. /\ orderStatus' \in [Orders -> Statuses]
        /\ \A o \in Orders : orderStatus'[o] = "none" <=> orderStatus[o] = "none"
    BY <1>1, <1>12, <2>1 DEF Reject, OrdersTypeOK, Statuses
  <2> QED BY <1>1, <1>9, <1>12, <2>2 DEF Reject, Leave, OrdersTypeOK
<1>13. ASSUME NEW r \in Requests, Delete(r) PROVE OrdersInv'
  <2>1. orderDeleted' \in [Orders -> BOOLEAN]
    BY <1>1, <1>13 DEF Delete, OrdersTypeOK
  <2> QED BY <1>1, <1>9, <1>13, <2>1 DEF Delete, Leave, OrdersTypeOK
<1>14. ASSUME NEW r \in Requests, BeginReject(r) \/ BeginDelete(r) \/ SendUpdate(r)
       PROVE  OrdersInv'
  <2>1. PICK slot \in Closing :
          handling' = [handling EXCEPT ![r] = slot] /\ orderStatus[slot.order] # "none"
    <3>1. CASE BeginReject(r) \/ BeginDelete(r)
      <4>1. PICK o \in Orders, step \in {"reject", "delete"} :
               /\ Open(o)
               /\ handling' = [handling EXCEPT ![r] = [step |-> step, order |-> o]]
        BY <3>1 DEF BeginReject, BeginDelete, Enter
      <4> DEFINE slot == [step |-> step, order |-> o]
      <4>2. slot \in Closing /\ slot.order = o
        BY DEF Closing
      <4>3. handling' = [handling EXCEPT ![r] = slot]
        BY <4>1
      <4> HIDE DEF slot
      <4> QED BY <4>1, <4>2, <4>3 DEF Open
    <3>2. CASE SendUpdate(r)
      <4> DEFINE slot == [handling[r] EXCEPT !.step =
                            IF handling[r].step = "reject" THEN "rejecting" ELSE "deleting"]
      <4>1. handling[r] \in Closing /\ orderStatus[handling[r].order] # "none"
        BY <1>1, <3>2, HandlingKinds
        DEF SendUpdate, OrdersTypeOK, HandlersSound, Sound, Working
      <4>2. slot \in Closing /\ slot.order = handling[r].order
        BY <4>1 DEF Closing
      <4>3. handling' = [handling EXCEPT ![r] = slot]
        BY <1>1, <3>2 DEF SendUpdate, OrdersTypeOK
      <4> HIDE DEF slot
      <4> QED BY <4>1, <4>2, <4>3
    <3> QED BY <1>14, <3>1, <3>2
  <2>2. UNCHANGED <<orderRows, inTx>>
    BY <1>14 DEF BeginReject, BeginDelete, SendUpdate
  <2>3. slot.step \notin {"create", "reserve"}
    BY DEF Closing
  <2>4. OrdersTypeOK'
    BY <1>1, <1>2, <2>1, <2>2 DEF OrdersTypeOK, orderRows
  <2>5. Sound(slot)'
    BY <2>1, <2>2, <2>3 DEF Sound, orderRows
  <2> QED BY <2>1, <2>2, <2>3, <2>4, <2>5, SlotChange DEF orderRows
<1>15. ASSUME NEW r \in Requests, HandleStock(r) PROVE OrdersInv'
  <2>1. UNCHANGED <<orderRows, handling>> /\ inTx' \in SUBSET Requests
    BY <1>1, <1>15 DEF HandleStock, ReadStock, CommitStock, RollBackStock, OrdersTypeOK
  <2> QED BY <1>3, <2>1
<1>16. CASE AddColdRoom \/ UNCHANGED ordersVars
  <2>1. UNCHANGED <<orderRows, handling>> /\ inTx' \in SUBSET Requests
    BY <1>1, <1>16 DEF AddColdRoom, ordersVars, orderVars, OrdersTypeOK
  <2> QED BY <1>3, <2>1
<1> QED BY <1>4, <1>5, <1>6, <1>7, <1>8, <1>10, <1>11, <1>12, <1>13, <1>14, <1>15, <1>16
    DEF OrdersNext, HandleOrder, Continue, Approve

-----------------------------------------------------------------------------

\* What the order handlers keep in their slots fits the orders they work on.
THEOREM OrdersTypeCorrect ==
    ASSUME OrderedWeightsMove
    PROVE  OrdersSpec => []OrdersTypeOK
<1>1. OrdersInv => OrdersTypeOK
  BY DEF OrdersInv
<1> QED BY <1>1, InitOrders, NextOrders, PTL DEF OrdersSpec

\* Creating, approving, rejecting and deleting orders touch stock only in steps
\* that recordMovement takes on its own: the approval is no atomic unit of work.
THEOREM OrdersImplementInventory ==
    ASSUME OrderedWeightsMove
    PROVE  OrdersSpec => StockOnlyThroughInventory
<1>1. OrdersInit => Init
  BY DEF OrdersInit
<1>2. OrdersInv /\ [OrdersNext]_ordersVars => [Next]_vars
  BY StepIsStockStep
<1> QED BY <1>1, <1>2, InitOrders, NextOrders, PTL
        DEF OrdersSpec, StockOnlyThroughInventory, Spec

\* The ledger of the cold rooms survives order handling.
THEOREM OrdersKeepRoomLedger ==
    ASSUME OrderedWeightsMove
    PROVE  OrdersSpec => []RoomLedger
BY OrdersImplementInventory, RoomLedgerHolds DEF StockOnlyThroughInventory

\* Approvals that overlap, fail half-way or read stale weights do not take stock
\* below zero, as long as no movement is reverted.
THEOREM OrdersKeepStockNonNegative ==
    ASSUME OrderedWeightsMove, "revert" \notin Kinds
    PROVE  OrdersSpec => []StockNonNegative
BY OrdersImplementInventory, StockStaysNonNegative DEF StockOnlyThroughInventory

\* One request at a time the orders that are approved, whole or in part, leave
\* the weight of every product explained by its movements, ...
THEOREM OrdersKeepProductLedger ==
    ASSUME OrderedWeightsMove, OneRequest, NoOverwriting
    PROVE  OrdersSpec => []ProductLedger
BY OrdersImplementInventory, ProductLedgerHolds DEF StockOnlyThroughInventory

\* ... and an approval that is no atomic unit of work is still a series of
\* movements each of which is.
THEOREM OrdersAreSeriesOfMovements ==
    ASSUME OrderedWeightsMove, OneRequest
    PROVE  OrdersSpec => StockIsAtomic
BY OrdersImplementInventory, StockIsSerial DEF StockOnlyThroughInventory

\* Neither do the orders of one site reach the stock of another, although the
\* rooms an approval takes from are those it has read before.
THEOREM OrdersKeepSitesApart ==
    ASSUME OrderedWeightsMove, Admin \notin Callers
    PROVE  OrdersSpec => SitesApart
BY OrdersImplementInventory, SitesStayApart DEF StockOnlyThroughInventory

-----------------------------------------------------------------------------
(* Rejections *)

\* No order is APPROVED: generateOrderInvoice reads the committed status, which
\* is the REQUESTED of before, and takes the approval down with it.
NeverApproved == orderStatus \in [Orders -> Statuses \ {"APPROVED"}]

\* What a step does to the status of the orders: it creates one, rejects one,
\* or leaves them all alone.
LEMMA StatusStep ==
    ASSUME OrdersInv, NeverApproved, [OrdersNext]_ordersVars
    PROVE  \/ orderStatus' = orderStatus
           \/ \E o \in Orders : /\ orderStatus[o] = "none"
                                /\ orderStatus' = [orderStatus EXCEPT ![o] = "REQUESTED"]
           \/ \E o \in Orders : orderStatus' = [orderStatus EXCEPT ![o] = "REJECTED"]
<1>1. /\ handling \in [Requests -> {None} \cup Approval \cup Closing \cup Placing]
      /\ HandlersSound
  BY DEF OrdersInv, OrdersTypeOK
<1>2. ASSUME NEW r \in Requests, CreateOrder(r)
      PROVE  \E o \in Orders : /\ orderStatus[o] = "none"
                               /\ orderStatus' = [orderStatus EXCEPT ![o] = "REQUESTED"]
  <2>1. handling[r].order \in Orders /\ orderStatus[handling[r].order] = "none"
    BY <1>1, <1>2, HandlingKinds DEF CreateOrder, HandlersSound, Sound, Placing
  <2> QED BY <1>2, <2>1 DEF CreateOrder
<1>3. ASSUME NEW r \in Requests, FinishApproval(r)
      PROVE  orderStatus' = orderStatus
  <2> DEFINE o == handling[r].order
  <2>1. CASE InvoiceGenerated(o) /\ handling[r].tx
    <3>1. orderStatus[o] = "APPROVED" /\ orderStatus' = [orderStatus EXCEPT ![o] = "APPROVED"]
      BY <1>3, <2>1 DEF FinishApproval, InvoiceGenerated
    <3> QED BY <3>1 DEF NeverApproved
  <2>2. CASE ~(InvoiceGenerated(o) /\ handling[r].tx)
    BY <1>3, <2>2 DEF FinishApproval
  <2> QED BY <2>1, <2>2
<1>4. ASSUME NEW r \in Requests, Reject(r)
      PROVE  \E o \in Orders : orderStatus' = [orderStatus EXCEPT ![o] = "REJECTED"]
  <2>1. handling[r].order \in Orders
    BY <1>1, <1>4, HandlingKinds DEF Reject, Closing
  <2> QED BY <1>4, <2>1 DEF Reject
<1>5. ASSUME NEW r \in Requests,
             \/ BeginCreateOrder(r) \/ BeginApprove(r) \/ BeginReject(r) \/ BeginDelete(r)
             \/ ReserveRead(r) \/ Reserve(r) \/ WriteApproved(r) \/ WriteTooLate(r)
             \/ AbandonApproval(r) \/ TimeOut(r) \/ SendUpdate(r) \/ Delete(r)
             \/ OpenTransaction(r)
      PROVE  orderStatus' = orderStatus
  BY <1>5 DEF BeginCreateOrder, BeginApprove, BeginReject, BeginDelete, ReserveRead, Reserve,
              WriteApproved, WriteTooLate, AbandonApproval, TimeOut, SendUpdate,
              Delete, OpenTransaction, orderVars, orderRows
<1>6. ASSUME NEW r \in Requests, HandleStock(r) PROVE orderStatus' = orderStatus
  BY <1>6 DEF HandleStock, ReadStock, CommitStock, RollBackStock, orderRows
<1>7. CASE AddColdRoom \/ UNCHANGED ordersVars
  BY <1>7 DEF AddColdRoom, ordersVars, orderVars, orderRows
<1> QED BY <1>2, <1>3, <1>4, <1>5, <1>6, <1>7
        DEF OrdersNext, HandleOrder, Continue, Approve

LEMMA NextNeverApproved ==
    OrdersInv /\ NeverApproved /\ [OrdersNext]_ordersVars => NeverApproved'
BY StatusStep DEF NeverApproved, Statuses

\* Whatever overlaps, a rejected order stays rejected. No approval can commit
\* over the rejection, as none commits at all.
THEOREM RejectionsAreFinal ==
    ASSUME OrderedWeightsMove
    PROVE  OrdersSpec => RejectionIsFinal
<1>1. OrdersInit => NeverApproved
  BY DEF OrdersInit, NeverApproved, Statuses
<1>2. OrdersInv /\ NeverApproved /\ [OrdersNext]_ordersVars =>
        [\A o \in Orders : orderStatus[o] = "REJECTED" => orderStatus'[o] = "REJECTED"]_ordersVars
  BY StatusStep DEF NeverApproved
<1> QED BY <1>1, <1>2, InitOrders, NextOrders, NextNeverApproved, PTL
        DEF OrdersSpec, RejectionIsFinal

=============================================================================

----------------------- MODULE IdentityRegisterProofs -----------------------
(***************************************************************************)
(* For any tables, any number of writes and failures: the register is      *)
(* never older than its stamp, since the stamp is taken before the file is *)
(* read; it is the register of the last rows, so that every account in it  *)
(* is one of a user in it; and the two parsers of users agree, on tables   *)
(* of any width.                                                           *)
(***************************************************************************)
EXTENDS MCIdentityRegister, FiniteSetTheorems, WellFoundedInduction, TLAPS

(* What the goroutine holds between Stat, Read and the exchange: a stamp   *)
(* of the file, and a version that was there under that stamp or later.    *)
Stamped ==
  /\ file.modTime \in Nat /\ modTime \in Nat
  /\ file.rows # Unreadable => file \in written
  /\ \A v \in written : v.modTime \in Nat
  /\ loop = "read" => modTime <= file.modTime
  /\ loop = "swap" => \E v \in written : modTime <= v.modTime /\ v.rows = users

StampInv == Stamped /\ NotOlderThanStamp

(* The first read has the stamp of the first version.                      *)
LEMMA InitStampInv == Init => StampInv
<1> SUFFICES ASSUME Init PROVE StampInv
  OBVIOUS
<1>1. PICK t \in Tables :
        /\ file = [rows |-> t, modTime |-> 0]
        /\ register = Build(t \o ConfigUsers)
        /\ fileModifiedAt = 0 /\ loop = "waiting" /\ modTime = 0
        /\ written = {file}
  BY DEF Init
<1>2. Stamped
  BY <1>1 DEF Stamped
<1>3. NotOlderThanStamp
  BY <1>1 DEF NotOlderThanStamp
<1> QED BY <1>2, <1>3 DEF StampInv

(* A new version of the file is as young as the one before, or younger.    *)
LEMMA WriteKeepsStamp ==
  ASSUME StampInv, Write
  PROVE  StampInv'
<1>1. PICK t \in Tables \cup {Unreadable},
           m \in {file.modTime, file.modTime + 1} \cap 0..MaxModTime :
        /\ file' = [rows |-> t, modTime |-> m]
        /\ written' = IF t = Unreadable THEN written ELSE written \cup {file'}
  BY DEF Write
<1>2. UNCHANGED <<register, fileModifiedAt, loop, users, modTime>>
  BY DEF Write
<1>3. m \in Nat /\ file.modTime <= m
  BY <1>1 DEF StampInv, Stamped
<1>4. written \subseteq written'
  BY <1>1
<1>5. NotOlderThanStamp'
  BY <1>2, <1>4 DEF StampInv, NotOlderThanStamp
<1>6. Stamped'
  <2>1. file'.modTime = m /\ (file'.rows # Unreadable => file' \in written')
    BY <1>1
  <2>2. \A v \in written' : v.modTime \in Nat
    BY <1>1, <1>3, <2>1 DEF StampInv, Stamped
  <2>3. loop = "read" => modTime <= m
    BY <1>3 DEF StampInv, Stamped
  <2> QED BY <1>2, <1>3, <1>4, <2>1, <2>2, <2>3 DEF StampInv, Stamped
<1> QED BY <1>5, <1>6 DEF StampInv

(* The goroutine reads the file after it has taken the stamp.              *)
LEMMA ReloadKeepsStamp ==
  ASSUME StampInv, Reload
  PROVE  StampInv'
<1>1. CASE Stat
  BY <1>1 DEF Stat, StampInv, Stamped, NotOlderThanStamp
<1>2. CASE Read
  <2>1. CASE Stop
    BY <2>1 DEF Stop, StampInv, Stamped, NotOlderThanStamp
  <2>2. CASE file.rows # Unreadable /\ loop' = "swap" /\ users' = file.rows
             /\ UNCHANGED <<file, register, fileModifiedAt, modTime, written>>
    <3>1. \E v \in written : modTime <= v.modTime /\ v.rows = file.rows
      BY <1>2, <2>2 DEF Read, StampInv, Stamped
    <3> QED BY <2>2, <3>1 DEF StampInv, Stamped, NotOlderThanStamp
  <2> QED BY <1>2, <2>1, <2>2 DEF Read
<1>3. CASE Swap
  BY <1>3 DEF Swap, StampInv, Stamped, NotOlderThanStamp
<1>4. CASE Done
  BY <1>4 DEF Done, Stop, StampInv, Stamped, NotOlderThanStamp
<1> QED BY <1>1, <1>2, <1>3, <1>4 DEF Reload

(* Every step keeps StampInv.                                              *)
LEMMA NextStampInv == StampInv /\ [Next]_vars => StampInv'
<1> SUFFICES ASSUME StampInv, [Next]_vars PROVE StampInv'
  OBVIOUS
<1>1. CASE Reload  BY <1>1, ReloadKeepsStamp
<1>2. CASE Write   BY <1>2, WriteKeepsStamp
<1>3. CASE Breaks
  BY <1>3 DEF Breaks, Stop, StampInv, Stamped, NotOlderThanStamp
<1>4. CASE Cancel
  BY <1>4 DEF Cancel, StampInv, Stamped, NotOlderThanStamp
<1>5. CASE UNCHANGED vars
  BY <1>5 DEF vars, StampInv, Stamped, NotOlderThanStamp
<1> QED BY <1>1, <1>2, <1>3, <1>4, <1>5 DEF Next

(* "Not modified" never hides a file younger than the one in the register. *)
THEOREM RegisterNotOlderThanStamp == Spec => []NotOlderThanStamp
<1>1. StampInv => NotOlderThanStamp  BY DEF StampInv
<1> QED BY <1>1, InitStampInv, NextStampInv, PTL DEF Spec
-----------------------------------------------------------------------------
(* A set of natural numbers that is not empty has a least element.  This   *)
(* is what the inductions below rest on: they take the least               *)
(* counterexample.                                                         *)
LEMMA LeastOf ==
  ASSUME NEW T \in SUBSET Nat, T # {}
  PROVE  \E n \in T : \A m \in T : n <= m
<1> DEFINE LT == {p \in Nat \X Nat : p[1] < p[2]}
<1>1. OpToRel(<, Nat) = LT
  BY Zenon DEF OpToRel
<1>2. IsWellFoundedOn(LT, Nat)
  BY <1>1, NatLessThanWellFounded, Zenon
<1>3. PICK n \in T : \A m \in T : ~ (<<m, n>> \in LT)
  <2> HIDE DEF LT
  <2> QED BY <1>2, WFMin, Zenon
<1>4. \A m \in T : <<m, n>> \in Nat \X Nat /\ <<m, n>>[1] = m /\ <<m, n>>[2] = n
  OBVIOUS
<1>5. \A m \in T : ~ (m < n)
  BY <1>3, <1>4
<1> QED BY <1>5

(* A set of indices that is not empty has a greatest one: the least of its *)
(* upper bounds.                                                           *)
LEMMA GreatestOf ==
  ASSUME NEW N \in Nat, NEW S \in SUBSET (1..N), S # {}
  PROVE  \E m \in S : \A j \in S : j <= m
<1> DEFINE T == {n \in Nat : \A j \in S : j <= n}
<1>1. N \in T
  OBVIOUS
<1>2. PICK m \in T : \A n \in T : m <= n
  <2> HIDE DEF T
  <2>1. T # {} BY <1>1
  <2>2. T \in SUBSET Nat BY DEF T
  <2> QED BY <2>1, <2>2, LeastOf
<1>3. m \in S
  <2> SUFFICES ASSUME m \notin S PROVE FALSE
    OBVIOUS
  <2>1. PICK j \in S : TRUE
    OBVIOUS
  <2>2. \A i \in S : i < m
    BY <1>2
  <2>3. m - 1 \in T
    BY <2>1, <2>2, <1>2
  <2> QED BY <2>3, <1>2
<1> QED BY <1>2, <1>3

(* ... and Max picks it.                                                   *)
LEMMA MaxOf ==
  ASSUME NEW N \in Nat, NEW S \in SUBSET (1..N), S # {}
  PROVE  Max(S) \in S /\ \A j \in S : j <= Max(S)
<1>1. \E m \in S : \A j \in S : m >= j
  BY GreatestOf
<1> QED BY <1>1 DEF Max

(* The register of the rows with an index in s, said without a loop: the   *)
(* last row of each id and of each account.                                *)
Register(rows, s) ==
  [fromID |-> [id \in UserID |->
                LastRow(rows, {i \in s : rows[i].UserID = id})],
   fromIDPUser |-> [a \in Account |->
                LastRow(rows, {i \in s : a \in rows[i].FederatedUserAccounts})]]

(* What the loop over the rows does, as an equation: f[s] is the register  *)
(* after the rows of s, in the order of their indices.                     *)
IsFold(rows, f) ==
  f = [s \in SUBSET (DOMAIN rows) |->
         IF s = {} THEN NoUsers
         ELSE AppendUser(f[s \ {Max(s)}], rows[Max(s)])]

(* Build is a solution of the equation at all rows, if there is a          *)
(* solution.                                                               *)
LEMMA BuildIsFold ==
  ASSUME NEW rows, NEW g, IsFold(rows, g)
  PROVE  \E f : IsFold(rows, f) /\ Build(rows) = f[DOMAIN rows]
<1> DEFINE fold == CHOOSE f : IsFold(rows, f)
<1>1. IsFold(rows, fold)
  OBVIOUS
<1>2. Build(rows) = fold[DOMAIN rows]
  BY DEF Build, FoldLeft, MapThenFoldSet, IsFold
<1> HIDE DEF fold
<1> QED BY <1>1, <1>2

(* LastRow is the row with the greatest index.                             *)
LEMMA LastRowOf ==
  ASSUME NEW rows \in Seq(Row), NEW S \in SUBSET DOMAIN rows
  PROVE  /\ LastRow(rows, S) \in Row \cup {NoUser}
         /\ S = {} => LastRow(rows, S) = NoUser
         /\ \A m \in S : (\A j \in S : j <= m) => LastRow(rows, S) = rows[m]
<1>1. Len(rows) \in Nat /\ DOMAIN rows = 1..Len(rows) /\ \A i \in DOMAIN rows : rows[i] \in Row
  OBVIOUS
<1>2. S = {} => LastRow(rows, S) = NoUser
  BY DEF LastRow
<1>3. ASSUME NEW m \in S, \A j \in S : j <= m
      PROVE  LastRow(rows, S) = rows[m]
  <2> DEFINE last == CHOOSE i \in S : \A j \in S : j <= i
  <2>1. last \in S /\ \A j \in S : j <= last
    BY <1>3
  <2>2. last = m
    <3> HIDE DEF last
    <3> QED BY <1>1, <1>3, <2>1
  <2> QED BY <1>3, <2>2 DEF LastRow
<1>4. S # {} => \E m \in S : \A j \in S : j <= m
  BY <1>1, GreatestOf
<1> QED BY <1>1, <1>2, <1>3, <1>4

(* Register solves the equation: one more row, with an index above the     *)
(* others, changes the last row of its own id and accounts only.           *)
LEMMA RegisterIsFold ==
  ASSUME NEW rows \in Seq(Row)
  PROVE  IsFold(rows, [s \in SUBSET DOMAIN rows |-> Register(rows, s)])
<1> DEFINE g == [s \in SUBSET DOMAIN rows |-> Register(rows, s)]
<1>1. Len(rows) \in Nat /\ DOMAIN rows = 1..Len(rows) /\ \A i \in DOMAIN rows : rows[i] \in Row
  OBVIOUS
<1>2. Register(rows, {}) = NoUsers
  BY DEF Register, NoUsers, LastRow
<1>3. ASSUME NEW s \in SUBSET DOMAIN rows, s # {}
      PROVE  Register(rows, s) = AppendUser(Register(rows, s \ {Max(s)}), rows[Max(s)])
  <2> DEFINE m == Max(s)
             t == s \ {m}
  <2>1. m \in s /\ \A j \in s : j <= m
    BY <1>1, <1>3, MaxOf
  <2> HIDE DEF m
  <2>2. rows[m] \in Row /\ rows[m].UserID \in UserID
    BY <1>1, <2>1 DEF Row
  <2>3. ASSUME NEW id \in UserID
        PROVE  LastRow(rows, {i \in s : rows[i].UserID = id}) =
                 IF rows[m].UserID = id THEN rows[m]
                 ELSE LastRow(rows, {i \in t : rows[i].UserID = id})
    <3>1. CASE rows[m].UserID = id
      BY <1>3, <2>1, <3>1, LastRowOf
    <3>2. CASE rows[m].UserID # id
      <4>1. {i \in s : rows[i].UserID = id} = {i \in t : rows[i].UserID = id}
        BY <3>2
      <4> QED BY <3>2, <4>1
    <3> QED BY <3>1, <3>2
  <2>4. ASSUME NEW a \in Account
        PROVE  LastRow(rows, {i \in s : a \in rows[i].FederatedUserAccounts}) =
                 IF a \in rows[m].FederatedUserAccounts THEN rows[m]
                 ELSE LastRow(rows, {i \in t : a \in rows[i].FederatedUserAccounts})
    <3>1. CASE a \in rows[m].FederatedUserAccounts
      BY <1>3, <2>1, <3>1, LastRowOf
    <3>2. CASE a \notin rows[m].FederatedUserAccounts
      <4>1. {i \in s : a \in rows[i].FederatedUserAccounts} =
            {i \in t : a \in rows[i].FederatedUserAccounts}
        BY <3>2
      <4> QED BY <3>2, <4>1
    <3> QED BY <3>1, <3>2
  <2>5. Register(rows, s) = AppendUser(Register(rows, t), rows[m])
    BY <2>2, <2>3, <2>4 DEF Register, AppendUser
  <2> QED BY <2>5 DEF m
<1>4. \A s \in SUBSET DOMAIN rows : s # {} => s \ {Max(s)} \in SUBSET DOMAIN rows
  OBVIOUS
<1> QED BY <1>2, <1>3, <1>4 DEF IsFold

(* The equation has one solution: where two differ there is a set with the *)
(* least bound on its indices, and without its greatest index it would be  *)
(* a smaller one.                                                          *)
LEMMA FoldIsUnique ==
  ASSUME NEW rows \in Seq(Row), NEW f, NEW g, IsFold(rows, f), IsFold(rows, g)
  PROVE  f[DOMAIN rows] = g[DOMAIN rows]
<1> DEFINE T == {n \in Nat : \E s \in SUBSET (1..n) :
                               s \subseteq DOMAIN rows /\ f[s] # g[s]}
<1>1. Len(rows) \in Nat /\ DOMAIN rows = 1..Len(rows)
  OBVIOUS
<1>2. f[{}] = g[{}]
  BY DEF IsFold
<1>3. ASSUME NEW s \in SUBSET DOMAIN rows, s # {}, f[s \ {Max(s)}] = g[s \ {Max(s)}]
      PROVE  f[s] = g[s]
  BY <1>3 DEF IsFold
<1>4. T = {}
  <2> SUFFICES ASSUME T # {} PROVE FALSE
    OBVIOUS
  <2>1. PICK n \in T : \A k \in T : n <= k
    <3>1. T \in SUBSET Nat
      OBVIOUS
    <3> HIDE DEF T
    <3> QED BY <3>1, LeastOf
  <2>2. PICK s \in SUBSET (1..n) : s \subseteq DOMAIN rows /\ f[s] # g[s]
    OBVIOUS
  <2>3. s # {} /\ n \in Nat
    BY <1>2, <2>2
  <2>4. Max(s) \in s /\ \A j \in s : j <= Max(s)
    BY <2>3, MaxOf
  <2>5. n - 1 \in Nat /\ s \ {Max(s)} \in SUBSET (1..(n - 1))
    <3> DEFINE m == Max(s)
    <3>1. m \in 1..n /\ \A j \in s : j <= m
      BY <2>4
    <3> HIDE DEF m
    <3>2. \A j \in s \ {m} : j \in 1..(n - 1)
      BY <2>3, <3>1
    <3>3. n - 1 \in Nat
      BY <2>3, <3>1
    <3>4. s \ {m} \in SUBSET (1..(n - 1))
      BY <3>2
    <3> QED BY <3>3, <3>4 DEF m
  <2>6. f[s \ {Max(s)}] = g[s \ {Max(s)}]
    <3>1. n - 1 \notin T
      <4> HIDE DEF T
      <4> QED BY <2>1, <2>3
    <3> QED BY <2>2, <2>5, <3>1
  <2> QED BY <1>3, <2>2, <2>3, <2>6
<1>5. Len(rows) \notin T
  BY <1>4
<1> QED BY <1>1, <1>5

(* The loop of appendUser builds the register of all rows.                 *)
LEMMA BuildIsRegister ==
  ASSUME NEW rows \in Seq(Row)
  PROVE  Build(rows) = Register(rows, DOMAIN rows)
<1> DEFINE g == [s \in SUBSET DOMAIN rows |-> Register(rows, s)]
<1>1. IsFold(rows, g)
  BY RegisterIsFold
<1>2. g[DOMAIN rows] = Register(rows, DOMAIN rows)
  OBVIOUS
<1> HIDE DEF g
<1>3. PICK f : IsFold(rows, f) /\ Build(rows) = f[DOMAIN rows]
  BY <1>1, BuildIsFold
<1>4. f[DOMAIN rows] = g[DOMAIN rows]
  BY <1>1, <1>3, FoldIsUnique
<1> QED BY <1>2, <1>3, <1>4

-----------------------------------------------------------------------------
(* The tables are in the file, in the goroutine's hands and in the         *)
(* history; a register is built from rows.                                 *)
LEMMA BuildType ==
  ASSUME NEW rows \in Seq(Row)
  PROVE  Build(rows) \in [fromID      : [UserID -> Row \cup {NoUser}],
                          fromIDPUser : [Account -> Row \cup {NoUser}]]
<1>1. \A id \in UserID :
        LastRow(rows, {i \in DOMAIN rows : rows[i].UserID = id})
          \in Row \cup {NoUser}
  BY LastRowOf
<1>2. \A a \in Account :
        LastRow(rows, {i \in DOMAIN rows : a \in rows[i].FederatedUserAccounts})
          \in Row \cup {NoUser}
  BY LastRowOf
<1>3. Register(rows, DOMAIN rows).fromID \in [UserID -> Row \cup {NoUser}]
  BY <1>1 DEF Register
<1>4. Register(rows, DOMAIN rows).fromIDPUser \in [Account -> Row \cup {NoUser}]
  BY <1>2 DEF Register
<1>5. Register(rows, DOMAIN rows) =
        [fromID      |-> Register(rows, DOMAIN rows).fromID,
         fromIDPUser |-> Register(rows, DOMAIN rows).fromIDPUser]
  BY DEF Register
<1> QED BY <1>3, <1>4, <1>5, BuildIsRegister

(* Init sets the types.                                                    *)
LEMMA InitTypeOK == Init => TypeOK
<1> SUFFICES ASSUME Init PROVE TypeOK
  OBVIOUS
<1>1. PICK t \in Tables :
        /\ file = [rows |-> t, modTime |-> 0]
        /\ register = Build(t \o ConfigUsers)
        /\ fileModifiedAt = 0 /\ loop = "waiting"
        /\ users = t /\ modTime = 0
        /\ cancelled = FALSE /\ faults = 0 /\ written = {file}
  BY DEF Init
<1>2. t \o ConfigUsers \in Seq(Row)
  BY TablesAssumption
<1>3. 0 \in 0..MaxModTime /\ 0 \in 0..MaxFaults
  BY ModTimeAssumption
<1>4. register \in [fromID      : [UserID -> Row \cup {NoUser}],
                    fromIDPUser : [Account -> Row \cup {NoUser}]]
  BY <1>1, <1>2, BuildType
<1>5. written \subseteq [rows : Tables, modTime : 0..MaxModTime]
  BY <1>1, <1>3
<1> QED BY <1>1, <1>3, <1>4, <1>5 DEF TypeOK, Loop

(* Every step keeps the types.                                             *)
LEMMA NextTypeOK == TypeOK /\ [Next]_vars => TypeOK'
<1> SUFFICES ASSUME TypeOK, [Next]_vars PROVE TypeOK'
  OBVIOUS
<1> USE DEF TypeOK, Loop
<1>1. CASE Stat    BY <1>1 DEF Stat
<1>2. CASE Read
  <2>1. CASE Stop
    BY <1>2, <2>1 DEF Read, Stop
  <2>2. CASE file.rows # Unreadable /\ loop' = "swap" /\ users' = file.rows
             /\ UNCHANGED <<file, register, fileModifiedAt, modTime, cancelled,
                            faults, written>>
    BY <2>2
  <2> QED BY <1>2, <2>1, <2>2 DEF Read
<1>3. CASE Swap
  <2>1. Build(users) \in [fromID      : [UserID -> Row \cup {NoUser}],
                          fromIDPUser : [Account -> Row \cup {NoUser}]]
    BY BuildType, TablesAssumption
  <2> QED BY <1>3, <2>1 DEF Swap
<1>4. CASE Done    BY <1>4 DEF Done, Stop
<1>5. CASE Breaks
  BY <1>5, ModTimeAssumption DEF Breaks, Stop
<1>6. CASE Write
  <2>1. PICK t \in Tables \cup {Unreadable},
             m \in {file.modTime, file.modTime + 1} \cap 0..MaxModTime :
          /\ file' = [rows |-> t, modTime |-> m]
          /\ written' = IF t = Unreadable THEN written ELSE written \cup {file'}
    BY <1>6 DEF Write
  <2>2. file' \in [rows : Tables \cup {Unreadable}, modTime : 0..MaxModTime]
    BY <2>1
  <2>3. written' \subseteq [rows : Tables, modTime : 0..MaxModTime]
    BY <2>1
  <2> QED BY <1>6, <2>2, <2>3 DEF Write
<1>7. CASE Cancel  BY <1>7 DEF Cancel
<1>8. CASE UNCHANGED vars  BY <1>8 DEF vars
<1> QED BY <1>1, <1>2, <1>3, <1>4, <1>5, <1>6, <1>7, <1>8 DEF Next, Reload

(* Every variable of IdentityRegister keeps its type: the register has a   *)
(* row or no user for each id and account, whatever is in the table.       *)
THEOREM RegisterTypeCorrectness == Spec => []TypeOK
<1> QED BY InitTypeOK, NextTypeOK, PTL DEF Spec

(* The loop over a table builds, for each id and each account, the last    *)
(* row that has it, whatever the number and the order of the rows.         *)
THEOREM LastRowsWin == Spec => []LastRowWins
<1>1. TypeOK => LastRowWins
  <2> SUFFICES ASSUME TypeOK,
                      NEW rows \in UNION {{v.rows, v.rows \o ConfigUsers} :
                                          v \in written}
               PROVE  Build(rows) = Register(rows, DOMAIN rows)
    BY DEF LastRowWins, Register
  <2>1. PICK v \in written : rows \in {v.rows, v.rows \o ConfigUsers}
    OBVIOUS
  <2>2. v.rows \in Seq(Row) /\ ConfigUsers \in Seq(Row)
    BY TablesAssumption DEF TypeOK
  <2>3. v.rows \o ConfigUsers \in Seq(Row)
    BY <2>2
  <2>4. rows \in Seq(Row)
    BY <2>1, <2>2, <2>3
  <2> QED BY <2>4, BuildIsRegister
<1> QED BY <1>1, RegisterTypeCorrectness, PTL

(* In a register that was built from a table, the user of an account is a  *)
(* user that is found by id.                                               *)
LEMMA BuiltResolves ==
  ASSUME NEW rows \in Seq(Row), NEW a \in Account,
         Build(rows).fromIDPUser[a] # NoUser
  PROVE  /\ Build(rows).fromIDPUser[a].UserID \in UserID
         /\ Build(rows).fromID[Build(rows).fromIDPUser[a].UserID] # NoUser
<1> DEFINE of == {i \in DOMAIN rows : a \in rows[i].FederatedUserAccounts}
           u == Build(rows).fromIDPUser[a]
<1>1. Len(rows) \in Nat /\ DOMAIN rows = 1..Len(rows)
      /\ \A i \in DOMAIN rows : rows[i] \in Row
  OBVIOUS
<1>2. u = LastRow(rows, of)
  BY BuildIsRegister DEF Register
<1>3. of # {}
  BY <1>2, LastRowOf
<1>4. PICK m \in of : \A j \in of : j <= m
  BY <1>1, <1>3, GreatestOf
<1>5. u = rows[m] /\ u \in Row /\ u.UserID \in UserID
  BY <1>1, <1>2, <1>4, LastRowOf DEF Row
<1> HIDE DEF u
<1> DEFINE ids == {i \in DOMAIN rows : rows[i].UserID = u.UserID}
<1>6. m \in ids
  BY <1>5
<1>7. PICK k \in ids : \A j \in ids : j <= k
  BY <1>1, <1>6, GreatestOf
<1>8. Build(rows).fromID[u.UserID] = rows[k]
  <2>1. Build(rows).fromID[u.UserID] = LastRow(rows, ids)
    BY <1>5, BuildIsRegister DEF Register
  <2> QED BY <2>1, <1>7, LastRowOf
<1>9. rows[k] # NoUser
  BY <1>1, <1>7, TablesAssumption
<1> QED BY <1>5, <1>8, <1>9 DEF u

(* The register was built from rows: the two maps are of one table.        *)
OneTable == \E rows \in Seq(Row) : register = Build(rows)

(* Init and the exchange build the register, and nothing else changes it.  *)
LEMMA RegisterIsOfOneTable ==
  /\ Init => OneTable
  /\ TypeOK /\ OneTable /\ [Next]_vars => OneTable'
<1>1. ASSUME Init PROVE OneTable
  <2>1. PICK t \in Tables : register = Build(t \o ConfigUsers)
    BY <1>1 DEF Init
  <2>2. t \o ConfigUsers \in Seq(Row)
    BY TablesAssumption
  <2> QED BY <2>1, <2>2 DEF OneTable
<1>2. ASSUME TypeOK, OneTable, [Next]_vars PROVE OneTable'
  <2>1. CASE Swap
    <3>1. users \in Seq(Row)
      BY <1>2, TablesAssumption DEF TypeOK
    <3> QED BY <2>1, <3>1 DEF Swap, OneTable
  <2>2. CASE UNCHANGED register
    BY <1>2, <2>2 DEF OneTable
  <2>3. Swap \/ UNCHANGED register
    BY <1>2 DEF Next, Reload, Stat, Read, Done, Breaks, Stop, Write, Cancel, vars
  <2> QED BY <2>1, <2>2, <2>3
<1> QED BY <1>1, <1>2

(* Who logs in through an account is a user that is found by id, also      *)
(* right after a reload and while the file is written.                     *)
THEOREM AccountsAreOfUsers == Spec => []AccountsResolve
<1>1. OneTable => AccountsResolve
  <2> SUFFICES ASSUME OneTable, NEW a \in Account, FindUserOf(a) # NoUser
               PROVE  FindUserOf(a).UserID \in AllUsers
    BY DEF AccountsResolve
  <2>1. PICK rows \in Seq(Row) : register = Build(rows)
    BY DEF OneTable
  <2> QED BY <2>1, BuiltResolves DEF FindUserOf, FindUserByID, AllUsers
<1> QED BY <1>1, RegisterIsOfOneTable, RegisterTypeCorrectness, PTL DEF Spec
-----------------------------------------------------------------------------
(* A recursion over the subsets of 1..N that takes the greatest index off  *)
(* has a solution, whatever a step does.                                   *)
IsRecursion(n, f, b, step) ==
  f = [s \in SUBSET (1..n) |-> IF s = {} THEN b ELSE step[<<f[s \ {Max(s)}], Max(s)>>]]

(* Without its greatest index a set of indices lies below it.              *)
LEMMA OneLess ==
  ASSUME NEW n \in Nat, NEW s \in SUBSET (1..(n + 1)), s # {}
  PROVE  Max(s) \in s /\ s \ {Max(s)} \in SUBSET (1..n)
<1> DEFINE m == Max(s)
<1>0. n + 1 \in Nat
  OBVIOUS
<1>1. m \in 1..(n + 1) /\ m \in s /\ \A j \in s : j <= m
  BY <1>0, MaxOf
<1> HIDE DEF m
<1>2. \A j \in s \ {m} : j \in 1..n
  BY <1>1
<1> QED BY <1>1, <1>2 DEF m

(* The least bound without a solution is not 0, and the solution below it  *)
(* is extended by one step.                                                *)
LEMMA RecursionExists ==
  ASSUME NEW N \in Nat, NEW V, NEW b \in V, NEW step \in [V \X (1..N) -> V]
  PROVE  \E f \in [SUBSET (1..N) -> V] : IsRecursion(N, f, b, step)
<1> DEFINE T == {n \in 0..N : ~ \E f \in [SUBSET (1..n) -> V] : IsRecursion(n, f, b, step)}
<1>0. N \notin T => \E f \in [SUBSET (1..N) -> V] : IsRecursion(N, f, b, step)
  <2>1. N \in 0..N
    OBVIOUS
  <2> QED BY <2>1, Zenon
<1>1. SUFFICES ASSUME T # {} PROVE FALSE
  BY <1>0, Zenon
<1>2. PICK n \in T : \A k \in T : n <= k
  <2>1. T \in SUBSET Nat
    OBVIOUS
  <2> HIDE DEF T
  <2> QED BY <1>1, <2>1, LeastOf
<1>3. n # 0
  <2> SUFFICES ASSUME n = 0 PROVE FALSE
    OBVIOUS
  <2> DEFINE f == [s \in SUBSET (1..0) |-> b]
  <2>1. f \in [SUBSET (1..0) -> V] /\ \A s \in SUBSET (1..0) : s = {}
    OBVIOUS
  <2>2. IsRecursion(0, f, b, step)
    BY <2>1 DEF IsRecursion
  <2> HIDE DEF f
  <2> QED BY <2>1, <2>2
<1>4. n - 1 \in Nat /\ n - 1 \in 0..N /\ n - 1 \notin T /\ n \in 1..N /\ (n - 1) + 1 = n
  <2> HIDE DEF T
  <2>1. n \in 0..N
    BY DEF T
  <2> QED BY <1>2, <1>3, <2>1
<1>5. PICK f \in [SUBSET (1..(n - 1)) -> V] : IsRecursion(n - 1, f, b, step)
  BY <1>4
<1> DEFINE g == [s \in SUBSET (1..n) |->
                   IF s = {} THEN b ELSE step[<<f[s \ {Max(s)}], Max(s)>>]]
<1>6. \A s \in SUBSET (1..n) : s # {} =>
        Max(s) \in 1..n /\ s \ {Max(s)} \in SUBSET (1..(n - 1))
  BY <1>4, OneLess
<1>7. \A s \in SUBSET (1..(n - 1)) : s \in SUBSET (1..n) /\ g[s] = f[s]
  <2>1. \A s \in SUBSET (1..(n - 1)) : s \in SUBSET (1..n)
    BY <1>4
  <2>2. \A s \in SUBSET (1..(n - 1)) :
           f[s] = IF s = {} THEN b ELSE step[<<f[s \ {Max(s)}], Max(s)>>]
    BY <1>5, Zenon DEF IsRecursion
  <2> QED BY <2>1, <2>2, Zenon
<1>8. g \in [SUBSET (1..n) -> V]
  <2>1. ASSUME NEW s \in SUBSET (1..n), s # {}
        PROVE  step[<<f[s \ {Max(s)}], Max(s)>>] \in V
    <3>1. f[s \ {Max(s)}] \in V /\ Max(s) \in 1..N
      BY <1>4, <1>6, <2>1
    <3> QED BY <3>1
  <2> QED BY <2>1
<1>9. IsRecursion(n, g, b, step)
  <2>1. \A s \in SUBSET (1..n) : s # {} => g[s \ {Max(s)}] = f[s \ {Max(s)}]
    BY <1>6, <1>7, Zenon
  <2>2. g = [s \in SUBSET (1..n) |-> IF s = {} THEN b ELSE step[<<g[s \ {Max(s)}], Max(s)>>]]
    <3>1. \A s \in SUBSET (1..n) : g[s] = IF s = {} THEN b ELSE step[<<g[s \ {Max(s)}], Max(s)>>]
      BY <2>1, Zenon
    <3> HIDE DEF g
    <3>2. g = [s \in SUBSET (1..n) |-> g[s]]
      BY <1>8
    <3> QED BY <3>1, <3>2, Zenon
  <2> QED BY <2>2, Zenon DEF IsRecursion
<1> HIDE DEF g
<1> QED BY <1>8, <1>9

(* The prefixes of the indices.                                            *)
LEMMA LastIndex ==
  ASSUME NEW n \in Nat \ {0}
  PROVE  1..n # {} /\ Max(1..n) = n /\ (1..n) \ {n} = 1..(n - 1)
<1>1. n \in 1..n /\ 1..n # {}
  OBVIOUS
<1>2. Max(1..n) \in 1..n /\ \A j \in 1..n : j <= Max(1..n)
  BY <1>1, MaxOf
<1>3. \A m \in 1..n : n <= m => m = n
  OBVIOUS
<1>4. Max(1..n) = n
  BY <1>1, <1>2, <1>3, Zenon
<1> QED BY <1>1, <1>4

-----------------------------------------------------------------------------
(* What parseUserFromEnv does with a field, and with a sequence of fields. *)
EnvStep(u, f) ==
  IF Len(f) = 1 THEN u
  ELSE IF f[1] = "scope" THEN [u EXCEPT !.Scopes = Append(@, f[2])]
  ELSE IF f[1] = "scopes" THEN u
  ELSE Fill(u, ColumnKey(f[1]), <<f[2]>>)

Env(fields) == FoldLeft(EnvStep, EmptyUser, fields)

(* The fields are split at a colon at most.                                *)
Word  == Piece \cup {""}
Name  == Header \cup {"scope"}
Field == {<<x>> : x \in Word} \cup (Name \X Word)

(* parseUserFromEnv is this loop, and nobody without an id.                *)
LEMMA ParseIsEnv ==
  ASSUME NEW fields
  PROVE  parseUserFromEnv(fields) = IF HasID(Env(fields)) THEN Env(fields) ELSE Invalid
BY DEF parseUserFromEnv, Env, EnvStep, FoldLeft, MapThenFoldSet

(* Both parsers fill a user in.                                            *)
LEMMA FillType ==
  ASSUME NEW u \in User, NEW key, NEW text \in Seq(Word)
  PROVE  Fill(u, key, text) \in User
<1> DEFINE T == Seq(Word)
           A == [Service : Service, Account : T]
<1>0. User = [UserID : T, details : [Detail -> T], Scopes : T, FederatedUserAccounts : Seq(A)]
  BY DEF User, Word
<1>1. CASE key = "id"
  <2>1. key \notin Detail /\ key \notin Service
    BY <1>1 DEF Detail, Service
  <2>2. Fill(u, key, text) = [u EXCEPT !.UserID = text]
    BY <1>1, <2>1 DEF Fill
  <2> HIDE DEF T, A
  <2> QED BY <1>0, <2>2 DEF T
<1>2. CASE key \in Detail
  <2>1. key # "id" /\ key \notin Service
    BY <1>2 DEF Detail, Service
  <2>2. Fill(u, key, text) = [u EXCEPT !.details[key] = text]
    BY <1>2, <2>1 DEF Fill
  <2> QED BY <1>0, <1>2, <2>2
<1>3. CASE key \in Service
  <2>1. key # "id" /\ key \notin Detail
    BY <1>3 DEF Detail, Service
  <2>2. Fill(u, key, text) =
          [u EXCEPT !.FederatedUserAccounts = Append(@, [Service |-> key, Account |-> text])]
    BY <1>3, <2>1 DEF Fill
  <2>3. [Service |-> key, Account |-> text] \in A
    BY <1>3
  <2> HIDE DEF T, A
  <2>4. u.FederatedUserAccounts \in Seq(A)
    BY <1>0
  <2>5. Append(u.FederatedUserAccounts, [Service |-> key, Account |-> text]) \in Seq(A)
    BY <2>3, <2>4
  <2> QED BY <1>0, <2>2, <2>5
<1>4. CASE key # "id" /\ key \notin Detail /\ key \notin Service
  BY <1>4 DEF Fill
<1> QED BY <1>1, <1>2, <1>3, <1>4

(* The loops begin with a user.                                            *)
LEMMA EmptyUserType == EmptyUser \in User
<1> DEFINE T == Seq(Word)
           A == [Service : Service, Account : T]
<1>1. User = [UserID : T, details : [Detail -> T], Scopes : T, FederatedUserAccounts : Seq(A)]
  BY DEF User, Word
<1>2. Blank \in T /\ <<>> \in T /\ <<>> \in Seq(A)
  BY DEF Blank, Word
<1> HIDE DEF T, A
<1> QED BY <1>1, <1>2 DEF EmptyUser

(* A field leaves a user.                                                  *)
LEMMA EnvStepType ==
  ASSUME NEW u \in User, NEW f \in Field
  PROVE  EnvStep(u, f) \in User
<1>1. CASE \E x \in Word : f = <<x>>
  BY <1>1 DEF EnvStep
<1>2. CASE \E x \in Name, y \in Word : f = <<x, y>>
  <2>1. PICK x \in Name, y \in Word : f = <<x, y>>
    BY <1>2
  <2>2. [u EXCEPT !.Scopes = Append(@, y)] \in User
    <3> DEFINE T == Seq(Word)
               A == Seq([Service : Service, Account : T])
    <3>1. User = [UserID : T, details : [Detail -> T], Scopes : T, FederatedUserAccounts : A]
      BY DEF User, Word
    <3> HIDE DEF A
    <3>2. u.Scopes \in Seq(Word)
      BY <3>1
    <3>3. Append(u.Scopes, y) \in T
      BY <3>2
    <3> HIDE DEF T
    <3> QED BY <3>1, <3>3
  <2>3. <<y>> \in Seq(Word)
    OBVIOUS
  <2>4. Fill(u, ColumnKey(x), <<y>>) \in User
    BY <2>3, FillType
  <2> QED BY <2>1, <2>2, <2>4 DEF EnvStep
<1>3. f \in Name \X Word => \E x \in Name, y \in Word : f = <<x, y>>
  OBVIOUS
<1> QED BY <1>1, <1>2, <1>3 DEF Field

(* The loop over the fields, index by index.                               *)
LEMMA EnvLoop ==
  ASSUME NEW s \in Seq(Field)
  PROVE  \E h : /\ h[0] = EmptyUser
                /\ \A n \in 1..Len(s) : h[n] = EnvStep(h[n - 1], s[n])
                /\ Env(s) = h[Len(s)]
<1> DEFINE N == Len(s)
           Solves(f) == f = [t \in SUBSET (1..N) |->
                             IF t = {} THEN EmptyUser
                             ELSE EnvStep(f[t \ {Max(t)}], s[Max(t)])]
           step == [x \in User \X (1..N) |-> EnvStep(x[1], s[x[2]])]
           fold == CHOOSE f : Solves(f)
<1>1. N \in Nat /\ DOMAIN s = 1..N /\ \A i \in 1..N : s[i] \in Field
  OBVIOUS
<1>2. Env(s) = fold[1..N]
  BY <1>1 DEF Env, FoldLeft, MapThenFoldSet
<1>3. step \in [User \X (1..N) -> User]
  BY <1>1, EnvStepType
<1> HIDE DEF N
<1>4. PICK f \in [SUBSET (1..N) -> User] : IsRecursion(N, f, EmptyUser, step)
  <2> HIDE DEF step
  <2> QED BY <1>1, <1>3, EmptyUserType, RecursionExists
<1>5. Solves(f)
  <2>1. \A t \in SUBSET (1..N) : t # {} => t \ {Max(t)} \in SUBSET (1..N) /\ Max(t) \in 1..N
    <3>1. \A t \in SUBSET (1..N) : t # {} => Max(t) \in t
      BY <1>1, MaxOf
    <3> QED BY <3>1
  <2>2. ASSUME NEW u \in User, NEW i \in 1..N
        PROVE  step[<<u, i>>] = EnvStep(u, s[i])
    OBVIOUS
  <2> HIDE DEF step
  <2>3. \A t \in SUBSET (1..N) : t # {} =>
           step[<<f[t \ {Max(t)}], Max(t)>>] = EnvStep(f[t \ {Max(t)}], s[Max(t)])
    BY <2>1, <2>2
  <2>4. \A t \in SUBSET (1..N) :
          f[t] = IF t = {} THEN EmptyUser ELSE EnvStep(f[t \ {Max(t)}], s[Max(t)])
    BY <1>4, <2>3, Zenon DEF IsRecursion
  <2>5. f = [t \in SUBSET (1..N) |-> f[t]]
    OBVIOUS
  <2> QED BY <2>4, <2>5, Zenon
<1>6. Solves(fold)
  BY <1>5, Zenon
<1>7. /\ fold[{}] = EmptyUser
      /\ \A t \in SUBSET (1..N) : t # {} => fold[t] = EnvStep(fold[t \ {Max(t)}], s[Max(t)])
  <2> HIDE DEF fold
  <2>1. \A t \in SUBSET (1..N) :
          fold[t] = IF t = {} THEN EmptyUser ELSE EnvStep(fold[t \ {Max(t)}], s[Max(t)])
    BY <1>6, Zenon
  <2>2. {} \in SUBSET (1..N)
    OBVIOUS
  <2> QED BY <2>1, <2>2, Zenon
<1> HIDE DEF fold
<1> DEFINE h == [n \in 0..N |-> fold[1..n]]
<1>8. h[0] = EmptyUser /\ h[N] = fold[1..N]
  <2>1. 1..0 = {} /\ 0 \in 0..N /\ N \in 0..N
    BY <1>1
  <2> QED BY <1>7, <2>1
<1>9. ASSUME NEW n \in 1..N PROVE h[n] = EnvStep(h[n - 1], s[n])
  <2>1. n \in Nat \ {0} /\ n \in 0..N /\ n - 1 \in 0..N /\ 1..n \in SUBSET (1..N)
    BY <1>1
  <2>2. 1..n # {} /\ Max(1..n) = n /\ (1..n) \ {n} = 1..(n - 1)
    BY <2>1, LastIndex
  <2>3. fold[1..n] = EnvStep(fold[1..(n - 1)], s[n])
    BY <1>7, <2>1, <2>2
  <2> QED BY <2>1, <2>3
<1> HIDE DEF h
<1> QED BY <1>2, <1>8, <1>9 DEF N

(* No field leaves the empty user; one more field is one more step.        *)
LEMMA EnvEmpty == Env(<<>>) = EmptyUser
<1>1. <<>> \in Seq(Field) /\ Len(<<>>) = 0
  OBVIOUS
<1> QED BY <1>1, EnvLoop

(* One more field is one more step: the loop over the longer sequence goes *)
(* through the same users.                                                 *)
LEMMA EnvAppend ==
  ASSUME NEW s \in Seq(Field), NEW f \in Field
  PROVE  Env(Append(s, f)) = EnvStep(Env(s), f)
<1> DEFINE N == Len(s)
           t == Append(s, f)
<1>1. /\ N \in Nat /\ t \in Seq(Field) /\ Len(t) = N + 1 /\ t[N + 1] = f
      /\ \A n \in 1..N : t[n] = s[n]
  OBVIOUS
<1>2. PICK h : /\ h[0] = EmptyUser
               /\ \A n \in 1..N : h[n] = EnvStep(h[n - 1], s[n])
               /\ Env(s) = h[N]
  BY EnvLoop
<1>3. PICK k : /\ k[0] = EmptyUser
               /\ \A n \in 1..(N + 1) : k[n] = EnvStep(k[n - 1], t[n])
               /\ Env(t) = k[N + 1]
  <2> HIDE DEF N, t
  <2> QED BY <1>1, EnvLoop
<1> HIDE DEF N, t
<1> DEFINE D == {n \in 0..N : h[n] # k[n]}
<1>4. D = {}
  <2> SUFFICES ASSUME D # {} PROVE FALSE
    OBVIOUS
  <2>1. PICK n \in D : \A m \in D : n <= m
    <3>1. D \in SUBSET Nat
      BY <1>1
    <3> HIDE DEF D
    <3> QED BY <3>1, LeastOf
  <2>2. n \in 1..N /\ n \in 1..(N + 1) /\ n - 1 \in 0..N
    BY <1>1, <1>2, <1>3, <2>1
  <2>3. n - 1 \notin D
    <3> HIDE DEF D
    <3> QED BY <2>1, <2>2
  <2>4. h[n - 1] = k[n - 1]
    BY <2>2, <2>3
  <2>5. h[n] = k[n]
    BY <1>1, <1>2, <1>3, <2>2, <2>4
  <2> QED BY <2>1, <2>5
<1>5. h[N] = k[N]
  <2>1. N \in 0..N
    BY <1>1
  <2> QED BY <1>4, <2>1
<1>6. N + 1 \in 1..(N + 1) /\ (N + 1) - 1 = N
  BY <1>1
<1>7. k[N + 1] = EnvStep(k[N], t[N + 1])
  BY <1>3, <1>6
<1> QED BY <1>1, <1>2, <1>3, <1>5, <1>7 DEF t

-----------------------------------------------------------------------------
(* What parseUsersFromBlob does with the cell of a column, and with a row. *)
CsvStep(headers, row, u, i) ==
  IF ColumnKey(headers[i]) = "scope" THEN [u EXCEPT !.Scopes = row[i]]
  ELSE Fill(u, ColumnKey(headers[i]), row[i])

(* A cell leaves a user.                                                   *)
LEMMA CsvStepType ==
  ASSUME NEW headers, NEW row, NEW u \in User, NEW i, row[i] \in Seq(Word)
  PROVE  CsvStep(headers, row, u, i) \in User
<1>1. Fill(u, ColumnKey(headers[i]), row[i]) \in User
  BY FillType
<1>2. [u EXCEPT !.Scopes = row[i]] \in User
  <2> DEFINE T == Seq(Word)
             A == Seq([Service : Service, Account : T])
  <2>1. User = [UserID : T, details : [Detail -> T], Scopes : T, FederatedUserAccounts : A]
    BY DEF User, Word
  <2> HIDE DEF T, A
  <2> QED BY <2>1 DEF T
<1> QED BY <1>1, <1>2 DEF CsvStep

(* The loop over the columns, index by index.                              *)
LEMMA CsvLoop ==
  ASSUME NEW headers, NEW N \in Nat, NEW row \in [1..N -> Seq(Word)]
  PROVE  \E h : /\ h \in [0..N -> User]
                /\ h[0] = EmptyUser
                /\ \A n \in 1..N : h[n] = CsvStep(headers, row, h[n - 1], n)
                /\ CsvUser(headers, row) = h[N]
<1> DEFINE ids == [i \in DOMAIN row |-> i]
           Solves(f) == f = [t \in SUBSET (DOMAIN ids) |->
                             IF t = {} THEN EmptyUser
                             ELSE CsvStep(headers, row, f[t \ {Max(t)}], ids[Max(t)])]
           step == [x \in User \X (1..N) |-> CsvStep(headers, row, x[1], x[2])]
           fold == CHOOSE f : Solves(f)
<1>1. DOMAIN row = 1..N /\ DOMAIN ids = 1..N /\ ids \in [1..N -> 1..N]
      /\ \A i \in 1..N : row[i] \in Seq(Word) /\ ids[i] = i
  OBVIOUS
<1>2. CsvUser(headers, row) = fold[1..N]
  BY <1>1 DEF CsvUser, CsvStep, FoldLeftDomain, FoldLeft, MapThenFoldSet
<1>3. step \in [User \X (1..N) -> User]
  BY <1>1, CsvStepType
<1>4. PICK f \in [SUBSET (1..N) -> User] : IsRecursion(N, f, EmptyUser, step)
  <2> HIDE DEF step
  <2> QED BY <1>3, EmptyUserType, RecursionExists
<1>11. \A t \in SUBSET (1..N) : t # {} => t \ {Max(t)} \in SUBSET (1..N) /\ Max(t) \in 1..N
  <2>1. \A t \in SUBSET (1..N) : t # {} => Max(t) \in t
    BY MaxOf
  <2> QED BY <2>1
<1>5. Solves(f)
  <2>2. ASSUME NEW u \in User, NEW i \in 1..N
        PROVE  step[<<u, i>>] = CsvStep(headers, row, u, ids[i])
    BY <1>1
  <2> HIDE DEF step
  <2>3. \A t \in SUBSET (1..N) : t # {} =>
           step[<<f[t \ {Max(t)}], Max(t)>>] = CsvStep(headers, row, f[t \ {Max(t)}], ids[Max(t)])
    BY <1>11, <2>2
  <2>4. \A t \in SUBSET (1..N) :
          f[t] = IF t = {} THEN EmptyUser ELSE CsvStep(headers, row, f[t \ {Max(t)}], ids[Max(t)])
    BY <1>4, <2>3, Zenon DEF IsRecursion
  <2>5. f = [t \in SUBSET (1..N) |-> f[t]]
    OBVIOUS
  <2> HIDE DEF ids
  <2> QED BY <1>1, <2>4, <2>5, Zenon
<1>6. Solves(fold)
  BY <1>5, Zenon
<1>7. /\ fold[{}] = EmptyUser
      /\ \A t \in SUBSET (1..N) : t # {} => fold[t] = CsvStep(headers, row, fold[t \ {Max(t)}], Max(t))
  <2> HIDE DEF fold, ids
  <2>1. \A t \in SUBSET (1..N) :
          fold[t] = IF t = {} THEN EmptyUser
                    ELSE CsvStep(headers, row, fold[t \ {Max(t)}], ids[Max(t)])
    BY <1>1, <1>6, Zenon
  <2>2. {} \in SUBSET (1..N)
    OBVIOUS
  <2>3. \A t \in SUBSET (1..N) : t # {} => ids[Max(t)] = Max(t)
    BY <1>1, <1>11, Zenon
  <2> QED BY <2>1, <2>2, <2>3, Zenon
<1> HIDE DEF fold, ids, step
<1> DEFINE h == [n \in 0..N |-> fold[1..n]]
<1>8. h[0] = EmptyUser /\ h[N] = fold[1..N]
  <2>1. 1..0 = {} /\ 0 \in 0..N /\ N \in 0..N
    OBVIOUS
  <2> QED BY <1>7, <2>1
<1>9. ASSUME NEW n \in 1..N PROVE h[n] = CsvStep(headers, row, h[n - 1], n)
  <2>1. n \in Nat \ {0} /\ n \in 0..N /\ n - 1 \in 0..N /\ 1..n \in SUBSET (1..N)
    OBVIOUS
  <2>2. 1..n # {} /\ Max(1..n) = n /\ (1..n) \ {n} = 1..(n - 1)
    BY <2>1, LastIndex
  <2>3. fold[1..n] = CsvStep(headers, row, fold[1..(n - 1)], n)
    BY <1>7, <2>1, <2>2
  <2> QED BY <2>1, <2>3
<1>10. h \in [0..N -> User]
  <2> DEFINE D == {n \in 0..N : h[n] \notin User}
  <2>1. SUFFICES ASSUME D # {} PROVE FALSE
    OBVIOUS
  <2>2. PICK n \in D : \A m \in D : n <= m
    <3>1. D \in SUBSET Nat
      OBVIOUS
    <3> HIDE DEF D
    <3> QED BY <2>1, <3>1, LeastOf
  <2> HIDE DEF h
  <2>3. n \in 1..N /\ n - 1 \in 0..N
    BY <1>8, <2>2, EmptyUserType
  <2>4. n - 1 \notin D
    <3> HIDE DEF D
    <3> QED BY <2>2, <2>3
  <2>5. h[n - 1] \in User /\ row[n] \in Seq(Word)
    BY <2>3, <2>4
  <2>6. h[n] \in User
    BY <1>9, <2>3, <2>5, CsvStepType
  <2> QED BY <2>2, <2>6
<1> HIDE DEF h
<1> QED BY <1>2, <1>8, <1>9, <1>10

-----------------------------------------------------------------------------
(* The concatenation, sequence by sequence.                                *)
LEMMA FlattenLoop ==
  ASSUME NEW S, NEW N \in Nat \ {0}, NEW seqs \in [1..N -> Seq(S)]
  PROVE  \E g : /\ g[1] = seqs[1]
                /\ \A n \in 2..N : g[n] = g[n - 1] \o seqs[n]
                /\ FlattenSeq(seqs) = g[N]
<1> DEFINE Solves(f) == f = [i \in 1..N |-> IF i = 1 THEN seqs[i] ELSE f[i - 1] \o seqs[i]]
           flatten == CHOOSE f : Solves(f)
           V == Seq(S)
           step == [x \in V \X (1..N) |-> x[1] \o seqs[x[2]]]
<1>1. Len(seqs) = N /\ Len(seqs) # 0
  OBVIOUS
<1>2. FlattenSeq(seqs) = flatten[N]
  BY <1>1 DEF FlattenSeq
<1>3. step \in [V \X (1..N) -> V] /\ <<>> \in V
  OBVIOUS
<1>4. PICK f \in [SUBSET (1..N) -> V] : IsRecursion(N, f, <<>>, step)
  <2> HIDE DEF step, V
  <2> QED BY <1>3, RecursionExists
<1> DEFINE g == [i \in 1..N |-> f[1..i]]
<1>5. Solves(g)
  <2>1. ASSUME NEW i \in 1..N
        PROVE  g[i] = IF i = 1 THEN seqs[i] ELSE g[i - 1] \o seqs[i]
    <3>1. i \in Nat \ {0} /\ 1..i \in SUBSET (1..N) /\ 1..(i - 1) \in SUBSET (1..N)
      OBVIOUS
    <3>2. 1..i # {} /\ Max(1..i) = i /\ (1..i) \ {i} = 1..(i - 1)
      BY <3>1, LastIndex
    <3>3. f[1..i] = step[<<f[1..(i - 1)], i>>]
      BY <1>4, <3>1, <3>2 DEF IsRecursion
    <3>4. f[1..(i - 1)] \in V
      BY <3>1
    <3>5. f[1..i] = f[1..(i - 1)] \o seqs[i]
      BY <3>3, <3>4
    <3>6. CASE i = 1
      <4>1. 1..(i - 1) = {} /\ {} \in SUBSET (1..N)
        BY <3>6
      <4>2. f[{}] = <<>>
        BY <1>4, <4>1 DEF IsRecursion
      <4>3. seqs[i] \in Seq(S) /\ <<>> \o seqs[i] = seqs[i]
        OBVIOUS
      <4> QED BY <3>5, <3>6, <4>1, <4>2, <4>3
    <3>7. CASE i # 1
      <4>1. i - 1 \in 1..N
        BY <3>7
      <4> QED BY <3>5, <3>7, <4>1
    <3> QED BY <3>6, <3>7
  <2> HIDE DEF g
  <2>2. g = [i \in 1..N |-> g[i]]
    BY DEF g
  <2> QED BY <2>1, <2>2, Zenon
<1>6. Solves(flatten)
  <2> HIDE DEF g
  <2> QED BY <1>5, Zenon
<1> HIDE DEF flatten
<1>7. flatten[1] = seqs[1]
  <2>1. 1 \in 1..N
    OBVIOUS
  <2> QED BY <1>6, <2>1
<1>8. ASSUME NEW n \in 2..N PROVE flatten[n] = flatten[n - 1] \o seqs[n]
  <2>1. n \in 1..N /\ n # 1
    OBVIOUS
  <2> QED BY <1>6, <2>1
<1> QED BY <1>2, <1>7, <1>8

-----------------------------------------------------------------------------
(* The fields of a column in a variable.                                   *)
Fields(headers, row, i) ==
  IF ColumnKey(headers[i]) = "scope"
  THEN [j \in DOMAIN row[i] |-> <<"scope", row[i][j]>>]
  ELSE [j \in DOMAIN row[i] |-> IF j = 1 THEN <<headers[i], row[i][1]>>
                                ELSE <<row[i][j]>>]

(* No column that both parsers read in the same way touches the scopes.    *)
LEMMA FillScopes ==
  ASSUME NEW u \in User, NEW key, NEW text
  PROVE  Fill(u, key, text).Scopes = u.Scopes
<1> DEFINE T == Seq(Word)
           A == Seq([Service : Service, Account : T])
<1>0. User = [UserID : T, details : [Detail -> T], Scopes : T, FederatedUserAccounts : A]
  BY DEF User, Word
<1> HIDE DEF T, A
<1>1. CASE key = "id"
  <2>1. key \notin Detail /\ key \notin Service
    BY <1>1 DEF Detail, Service
  <2> QED BY <1>0, <1>1, <2>1 DEF Fill
<1>2. CASE key \in Detail
  <2>1. key # "id" /\ key \notin Service
    BY <1>2 DEF Detail, Service
  <2> QED BY <1>0, <1>2, <2>1 DEF Fill
<1>3. CASE key \in Service
  <2>1. key # "id" /\ key \notin Detail
    BY <1>3 DEF Detail, Service
  <2> QED BY <1>0, <1>3, <2>1 DEF Fill
<1>4. CASE key # "id" /\ key \notin Detail /\ key \notin Service
  BY <1>4 DEF Fill
<1> QED BY <1>1, <1>2, <1>3, <1>4

(* A piece of the scopes is added, and two pieces after each other are the *)
(* cell.                                                                   *)
LEMMA ScopesAdded ==
  ASSUME NEW u \in User, u.Scopes = <<>>, NEW x \in Word, NEW y \in Word
  PROVE  /\ EnvStep(u, <<"scope", x>>) = [u EXCEPT !.Scopes = <<x>>]
         /\ EnvStep(EnvStep(u, <<"scope", x>>), <<"scope", y>>) = [u EXCEPT !.Scopes = <<x, y>>]
<1> DEFINE T == Seq(Word)
           A == Seq([Service : Service, Account : T])
<1>0. User = [UserID : T, details : [Detail -> T], Scopes : T, FederatedUserAccounts : A]
  BY DEF User, Word
<1> HIDE DEF T, A
<1>1. \A v, z : EnvStep(v, <<"scope", z>>) = [v EXCEPT !.Scopes = Append(v.Scopes, z)]
  BY DEF EnvStep
<1>2. Append(<<>>, x) = <<x>>
  <2>1. <<>> \in Seq(Word) /\ <<x>> \in Seq(Word) /\ Append(<<>>, x) \in Seq(Word)
    OBVIOUS
  <2>2. Len(Append(<<>>, x)) = 1 /\ Append(<<>>, x)[1] = x
    OBVIOUS
  <2> QED BY <2>1, <2>2
<1>3. Append(<<x>>, y) = <<x, y>>
  <2>1. <<x>> \in Seq(Word) /\ <<x, y>> \in Seq(Word) /\ Append(<<x>>, y) \in Seq(Word)
    OBVIOUS
  <2>2. Len(Append(<<x>>, y)) = 2 /\ Append(<<x>>, y)[1] = x /\ Append(<<x>>, y)[2] = y
    OBVIOUS
  <2>3. Len(<<x, y>>) = 2 /\ <<x, y>>[1] = x /\ <<x, y>>[2] = y
    OBVIOUS
  <2>4. \A s, t \in Seq(Word) : Len(s) = 2 /\ Len(t) = 2 /\ s[1] = t[1] /\ s[2] = t[2] => s = t
    OBVIOUS
  <2> QED BY <2>1, <2>2, <2>3, <2>4
<1> DEFINE v == [u EXCEPT !.Scopes = <<x>>]
<1>4. v.Scopes = <<x>>
  BY <1>0
<1>5. [v EXCEPT !.Scopes = <<x, y>>] = [u EXCEPT !.Scopes = <<x, y>>]
  BY <1>0
<1>6. EnvStep(u, <<"scope", x>>) = v
  <2>1. EnvStep(u, <<"scope", x>>) = [u EXCEPT !.Scopes = Append(u.Scopes, x)]
    BY <1>1
  <2>2. Append(u.Scopes, x) = <<x>>
    BY <1>2
  <2> QED BY <2>1, <2>2
<1> HIDE DEF v
<1>7. EnvStep(v, <<"scope", y>>) = [u EXCEPT !.Scopes = <<x, y>>]
  <2>1. EnvStep(v, <<"scope", y>>) = [v EXCEPT !.Scopes = Append(v.Scopes, y)]
    BY <1>1
  <2>2. Append(v.Scopes, y) = <<x, y>>
    BY <1>3, <1>4
  <2> QED BY <1>5, <2>1, <2>2
<1> QED BY <1>6, <1>7 DEF v

(* A cell has one or two pieces.                                           *)
LEMMA TextIs ==
  ASSUME NEW text \in Text
  PROVE  /\ text \in Seq(Word) /\ Len(text) \in {1, 2}
         /\ Len(text) = 1 => DOMAIN text = {1} /\ \E x \in Piece : text = <<x>>
         /\ Len(text) = 2 => DOMAIN text = {1, 2} /\ \E x, y \in Piece : text = <<x, y>>
<1>1. PICK n \in 1..2 : text \in [1..n -> Piece]
  BY DEF Text
<1>2. text \in Seq(Piece) /\ Len(text) = n /\ DOMAIN text = 1..n
  BY <1>1
<1>3. text \in [1..n -> Word]
  BY <1>1 DEF Word
<1>4. text \in Seq(Word)
  BY <1>3
<1>5. CASE n = 1
  <2>1. text = <<text[1]>> /\ text[1] \in Piece /\ 1..1 = {1}
    BY <1>1, <1>5
  <2>2. \E x \in Piece : text = <<x>>
    BY <2>1, Zenon
  <2> QED BY <1>2, <1>4, <1>5, <2>1, <2>2
<1>6. CASE n = 2
  <2>1. text = <<text[1], text[2]>> /\ text[1] \in Piece /\ text[2] \in Piece /\ 1..2 = {1, 2}
    BY <1>1, <1>6
  <2>2. \E x, y \in Piece : text = <<x, y>>
    BY <2>1, Zenon
  <2> QED BY <1>2, <1>4, <1>6, <2>1, <2>2
<1> QED BY <1>1, <1>5, <1>6

(* A name and a value are a field.                                         *)
LEMMA FieldIs ==
  ASSUME NEW k \in Name, NEW x \in Word
  PROVE  <<k, x>> \in Field
BY DEF Field

(* A column has one field or two.                                          *)
LEMMA ConcatIs ==
  ASSUME NEW S, NEW s \in Seq(S), NEW x \in S, NEW y \in S
  PROVE  /\ s \o <<x>> = Append(s, x)
         /\ s \o <<x, y>> = Append(Append(s, x), y)
<1>1. s \o <<x>> = Append(s, x)
  OBVIOUS
<1>2. s \o <<x, y>> = Append(Append(s, x), y)
  <2> DEFINE a == s \o <<x, y>>
             b == Append(Append(s, x), y)
  <2>1. a \in Seq(S) /\ Len(a) = Len(s) + 2
        /\ \A i \in 1..(Len(s) + 2) :
             a[i] = IF i <= Len(s) THEN s[i] ELSE IF i = Len(s) + 1 THEN x ELSE y
    OBVIOUS
  <2>2. b \in Seq(S) /\ Len(b) = Len(s) + 2
        /\ \A i \in 1..(Len(s) + 2) :
             b[i] = IF i <= Len(s) THEN s[i] ELSE IF i = Len(s) + 1 THEN x ELSE y
    OBVIOUS
  <2> HIDE DEF a, b
  <2>3. Len(s) \in Nat
    OBVIOUS
  <2>4. a = b
    BY <2>1, <2>2, <2>3
  <2> QED BY <2>4 DEF a, b
<1> QED BY <1>1, <1>2

(* The fields of a column do to a user what its cell does.                 *)
LEMMA ColumnAgrees ==
  ASSUME NEW headers, NEW row, NEW i, headers[i] \in Header, row[i] \in Text,
         ColumnKey(headers[i]) # "scope" => Len(row[i]) = 1,
         NEW s \in Seq(Field), Env(s) \in User,
         ColumnKey(headers[i]) = "scope" => Env(s).Scopes = <<>>
  PROVE  /\ s \o Fields(headers, row, i) \in Seq(Field)
         /\ Env(s \o Fields(headers, row, i)) = CsvStep(headers, row, Env(s), i)
<1>1. CASE ColumnKey(headers[i]) # "scope"
  <2>1. PICK x \in Piece : row[i] = <<x>> /\ DOMAIN row[i] = {1}
    BY <1>1, TextIs
  <2> DEFINE f == <<headers[i], x>>
  <2>2. f \in Field
    <3>1. headers[i] \in Name /\ x \in Word
      BY DEF Name, Word
    <3> QED BY <3>1, FieldIs
  <2>3. Fields(headers, row, i) = <<f>>
    <3>1. Fields(headers, row, i) = [j \in {1} |-> f]
      BY <1>1, <2>1 DEF Fields
    <3> HIDE DEF f
    <3>2. [j \in {1} |-> f] = <<f>>
      OBVIOUS
    <3> QED BY <3>1, <3>2
  <2>4. s \o <<f>> = Append(s, f) /\ Append(s, f) \in Seq(Field)
    BY <2>2, ConcatIs
  <2>5. Env(Append(s, f)) = EnvStep(Env(s), f)
    BY <2>2, EnvAppend
  <2>6. headers[i] # "scope" /\ headers[i] # "scopes"
    BY <1>1 DEF ColumnKey, Service
  <2>7. EnvStep(Env(s), f) = Fill(Env(s), ColumnKey(headers[i]), <<x>>)
    BY <2>6 DEF EnvStep
  <2>8. CsvStep(headers, row, Env(s), i) = Fill(Env(s), ColumnKey(headers[i]), <<x>>)
    BY <1>1, <2>1 DEF CsvStep
  <2> HIDE DEF f
  <2> QED BY <2>3, <2>4, <2>5, <2>7, <2>8
<1>2. CASE ColumnKey(headers[i]) = "scope"
  <2>1. CsvStep(headers, row, Env(s), i) = [Env(s) EXCEPT !.Scopes = row[i]]
    BY <1>2 DEF CsvStep
  <2>2. Fields(headers, row, i) = [j \in DOMAIN row[i] |-> <<"scope", row[i][j]>>]
    BY <1>2 DEF Fields
  <2>3. CASE Len(row[i]) = 1
    <3>1. PICK x \in Piece : row[i] = <<x>> /\ DOMAIN row[i] = {1}
      BY <2>3, TextIs
    <3> DEFINE f == <<"scope", x>>
    <3>2. f \in Field /\ x \in Word
      <4>1. "scope" \in Name /\ x \in Word
        BY DEF Name, Word
      <4> QED BY <4>1, FieldIs
    <3>3. Fields(headers, row, i) = [j \in {1} |-> f]
      BY <2>2, <3>1
    <3>4. EnvStep(Env(s), f) = [Env(s) EXCEPT !.Scopes = <<x>>]
      BY <1>2, <3>2, ScopesAdded
    <3> HIDE DEF f
    <3>5. Fields(headers, row, i) = <<f>>
      BY <3>3
    <3>6. s \o <<f>> = Append(s, f) /\ Append(s, f) \in Seq(Field)
      BY <3>2, ConcatIs
    <3>7. Env(Append(s, f)) = EnvStep(Env(s), f)
      BY <3>2, EnvAppend
    <3> QED BY <2>1, <3>1, <3>4, <3>5, <3>6, <3>7
  <2>4. CASE Len(row[i]) = 2
    <3>1. PICK x, y \in Piece : row[i] = <<x, y>> /\ DOMAIN row[i] = {1, 2}
      BY <2>4, TextIs
    <3> DEFINE f == <<"scope", x>>
               g == <<"scope", y>>
    <3>2. f \in Field /\ g \in Field /\ x \in Word /\ y \in Word
      <4>1. "scope" \in Name /\ x \in Word /\ y \in Word
        BY DEF Name, Word
      <4> QED BY <4>1, FieldIs
    <3>3. Fields(headers, row, i) = [j \in {1, 2} |-> IF j = 1 THEN f ELSE g]
      BY <2>2, <3>1
    <3>4. EnvStep(EnvStep(Env(s), f), g) = [Env(s) EXCEPT !.Scopes = <<x, y>>]
      BY <1>2, <3>2, ScopesAdded
    <3> HIDE DEF f, g
    <3>5. Fields(headers, row, i) = <<f, g>>
      BY <3>3
    <3>6. /\ s \o <<f, g>> = Append(Append(s, f), g)
          /\ Append(s, f) \in Seq(Field) /\ Append(Append(s, f), g) \in Seq(Field)
      BY <3>2, ConcatIs
    <3>7. Env(Append(Append(s, f), g)) = EnvStep(EnvStep(Env(s), f), g)
      BY <3>2, <3>6, EnvAppend
    <3> QED BY <2>1, <3>1, <3>4, <3>5, <3>6, <3>7
  <2> QED BY <2>3, <2>4, TextIs
<1> QED BY <1>1, <1>2

(* A file of one row is that row's user, or nobody.                        *)
LEMMA OneRow ==
  ASSUME NEW headers, NEW row, parseUsersFromBlob(headers, <<row>>) # Invalid
  PROVE  parseUsersFromBlob(headers, <<row>>) =
           IF HasID(CsvUser(headers, row)) THEN <<CsvUser(headers, row)>> ELSE <<>>
<1> DEFINE u == CsvUser(headers, row)
           line(us, r) == IF HasID(CsvUser(headers, r))
                          THEN Append(us, CsvUser(headers, r)) ELSE us
           Solves(f) == f = [t \in SUBSET {1} |->
                               IF t = {} THEN <<>>
                               ELSE line(f[t \ {Max(t)}], <<row>>[Max(t)])]
           fold == CHOOSE f : Solves(f)
           g == [t \in SUBSET {1} |-> IF t = {} THEN <<>> ELSE line(<<>>, row)]
<1>1. DOMAIN <<row>> = {1}
  OBVIOUS
<1>2. parseUsersFromBlob(headers, <<row>>) = fold[{1}]
  BY <1>1 DEF parseUsersFromBlob, FoldLeft, MapThenFoldSet
<1>3. Max({1}) = 1 /\ {1} \ {1} = {} /\ <<row>>[1] = row
  <2>1. 1 \in Nat \ {0} /\ 1..1 = {1}
    OBVIOUS
  <2>2. Max(1..1) = 1
    BY <2>1, LastIndex
  <2> QED BY <2>1, <2>2
<1>4. \A t \in SUBSET {1} : t # {} => t = {1}
  OBVIOUS
<1>5. Solves(g)
  <2>1. \A t \in SUBSET {1} : t # {} => line(g[t \ {Max(t)}], <<row>>[Max(t)]) = line(<<>>, row)
    <3>1. g[{}] = <<>>
      OBVIOUS
    <3> HIDE DEF g, line
    <3> QED BY <1>3, <1>4, <3>1
  <2> HIDE DEF line
  <2> QED BY <2>1
<1>6. Solves(fold)
  <2> HIDE DEF g, line
  <2> QED BY <1>5, Zenon
<1> HIDE DEF fold
<1>7. fold[{}] = <<>>
  <2>1. {} \in SUBSET {1}
    OBVIOUS
  <2> HIDE DEF line
  <2> QED BY <1>6, <2>1
<1>8. fold[{1}] = line(<<>>, row)
  <2>1. {1} \in SUBSET {1} /\ {1} # {}
    OBVIOUS
  <2> HIDE DEF line
  <2>2. fold[{1}] = line(fold[{1} \ {Max({1})}], <<row>>[Max({1})])
    BY <1>6, <2>1
  <2> QED BY <1>3, <1>7, <2>2
<1>9. Append(<<>>, u) = <<u>>
  OBVIOUS
<1> QED BY <1>2, <1>8, <1>9

(* Two indices that are in a set of indices make two elements.             *)
LEMMA AtMostOne ==
  ASSUME NEW N \in Nat, NEW S \in SUBSET (1..N), Cardinality(S) <= 1, NEW i \in S, NEW j \in S
  PROVE  i = j
<1> SUFFICES ASSUME i # j PROVE FALSE
  OBVIOUS
<1>1. IsFiniteSet(S)
  <2>1. IsFiniteSet(1..N)
    BY FS_Interval
  <2> QED BY <2>1, FS_Subset
<1>2. Cardinality({i}) = 1 /\ IsFiniteSet({i})
  BY FS_Singleton
<1>3. {i} \in SUBSET S
  OBVIOUS
<1>4. Cardinality(S) \in Nat /\ (Cardinality(S) = 1 => S = {i}) /\ Cardinality(S) >= 1
  BY <1>1, <1>2, <1>3, FS_Subset, FS_CardinalityType
<1> QED BY <1>4

(* The fields of a column are fields.                                      *)
LEMMA FieldsType ==
  ASSUME NEW headers, NEW row, NEW i, headers[i] \in Header, row[i] \in Text
  PROVE  Fields(headers, row, i) \in Seq(Field)
<1>1. PICK n \in 1..2 : row[i] \in [1..n -> Piece]
  BY DEF Text
<1>2. \A x \in Piece : <<"scope", x>> \in Field /\ <<headers[i], x>> \in Field /\ <<x>> \in Field
  BY DEF Field, Name, Word
<1>3. DOMAIN row[i] = 1..n /\ n \in Nat /\ 1 \in 1..n /\ \A j \in 1..n : row[i][j] \in Piece
  BY <1>1
<1>4. [j \in 1..n |-> <<"scope", row[i][j]>>] \in [1..n -> Field]
  BY <1>2, <1>3
<1>5. [j \in 1..n |-> IF j = 1 THEN <<headers[i], row[i][1]>> ELSE <<row[i][j]>>] \in [1..n -> Field]
  BY <1>2, <1>3
<1>6. Fields(headers, row, i) \in [1..n -> Field]
  BY <1>3, <1>4, <1>5 DEF Fields
<1> HIDE DEF Field
<1> QED BY <1>3, <1>6

(* The two loops go side by side: after a column the user is the one after *)
(* its fields.                                                             *)
LEMMA SameUser ==
  ASSUME NEW N \in Nat \ {0}, NEW headers \in [1..N -> Header], NEW row \in [1..N -> Text],
         Cardinality({i \in 1..N : ColumnKey(headers[i]) = "scope"}) <= 1,
         \A i \in 1..N : ColumnKey(headers[i]) # "scope" => Len(row[i]) = 1
  PROVE  CsvUser(headers, row) = Env(Variable(headers, row)) /\ CsvUser(headers, row) \in User
<1> DEFINE fields == [i \in 1..N |-> Fields(headers, row, i)]
           IsScope(i) == ColumnKey(headers[i]) = "scope"
<1>1. Variable(headers, row) = FlattenSeq(fields)
  <2>1. DOMAIN row = 1..N
    OBVIOUS
  <2> QED BY <2>1 DEF Variable, Fields
<1>2. row \in [1..N -> Seq(Word)] /\ N \in Nat
  BY TextIs
<1>3. PICK h : /\ h \in [0..N -> User]
               /\ h[0] = EmptyUser
               /\ \A n \in 1..N : h[n] = CsvStep(headers, row, h[n - 1], n)
               /\ CsvUser(headers, row) = h[N]
  <2> HIDE DEF fields, IsScope
  <2>1. ASSUME NEW r \in [1..N -> Seq(Word)]
        PROVE  \E h : /\ h \in [0..N -> User]
                      /\ h[0] = EmptyUser
                      /\ \A n \in 1..N : h[n] = CsvStep(headers, r, h[n - 1], n)
                      /\ CsvUser(headers, r) = h[N]
    <3>1. N \in Nat
      OBVIOUS
    <3> QED BY <3>1, CsvLoop, ZenonT(30)
  <2> QED BY <1>2, <2>1, Zenon
<1>4. ASSUME NEW s \in Seq(Field), NEW n \in 1..N, Env(s) = h[n - 1],
             IsScope(n) => h[n - 1].Scopes = <<>>
      PROVE  s \o fields[n] \in Seq(Field) /\ Env(s \o fields[n]) = h[n]
  <2>1. n - 1 \in 0..N /\ headers[n] \in Header /\ row[n] \in Text
    OBVIOUS
  <2>2. Env(s) \in User
    BY <1>3, <1>4, <2>1
  <2>3. /\ ColumnKey(headers[n]) # "scope" => Len(row[n]) = 1
        /\ ColumnKey(headers[n]) = "scope" => Env(s).Scopes = <<>>
    BY <1>4
  <2>4. fields[n] = Fields(headers, row, n) /\ h[n] = CsvStep(headers, row, Env(s), n)
    BY <1>3, <1>4
  <2> HIDE DEF fields, IsScope
  <2>5. /\ s \o Fields(headers, row, n) \in Seq(Field)
        /\ Env(s \o Fields(headers, row, n)) = CsvStep(headers, row, Env(s), n)
    BY <2>1, <2>2, <2>3, ColumnAgrees
  <2> QED BY <2>4, <2>5
<1>5. fields \in [1..N -> Seq(Field)]
  <2>1. ASSUME NEW i \in 1..N PROVE Fields(headers, row, i) \in Seq(Field)
    BY FieldsType
  <2> QED BY <2>1
<1>6. PICK g : /\ g[1] = fields[1]
               /\ \A n \in 2..N : g[n] = g[n - 1] \o fields[n]
               /\ FlattenSeq(fields) = g[N]
  <2> HIDE DEF fields
  <2> QED BY <1>5, FlattenLoop
<1>7. ASSUME NEW i \in 0..N, \A j \in 1..i : ~ IsScope(j)
      PROVE  h[i].Scopes = <<>>
  <2> DEFINE D == {k \in 0..i : h[k].Scopes # <<>>}
  <2>1. SUFFICES ASSUME D # {} PROVE FALSE
    OBVIOUS
  <2>2. PICK k \in D : \A m \in D : k <= m
    <3>1. D \in SUBSET Nat
      OBVIOUS
    <3> HIDE DEF D
    <3> QED BY <2>1, <3>1, LeastOf
  <2>3. EmptyUser.Scopes = <<>>
    BY DEF EmptyUser
  <2>4. k \in 1..i /\ k \in 1..N /\ k - 1 \in 0..i /\ k - 1 \in 0..N
    BY <1>3, <2>2, <2>3
  <2>5. k - 1 \notin D
    <3> HIDE DEF D
    <3> QED BY <2>2, <2>4
  <2>6. h[k - 1].Scopes = <<>> /\ h[k - 1] \in User
    BY <1>3, <2>4, <2>5
  <2>7. h[k] = Fill(h[k - 1], ColumnKey(headers[k]), row[k])
    BY <1>3, <1>7, <2>4 DEF CsvStep
  <2>8. h[k].Scopes = <<>>
    BY <2>6, <2>7, FillScopes
  <2> QED BY <2>2, <2>8
<1>8. ASSUME NEW n \in 1..N, IsScope(n)
      PROVE  h[n - 1].Scopes = <<>>
  <2>1. ASSUME NEW j \in 1..(n - 1), IsScope(j) PROVE FALSE
    <3> DEFINE S == {i \in 1..N : IsScope(i)}
    <3>1. S \in SUBSET (1..N) /\ Cardinality(S) <= 1 /\ n \in S /\ j \in S
      BY <1>8, <2>1
    <3> HIDE DEF S
    <3>2. j = n
      BY <3>1, AtMostOne
    <3> QED BY <2>1, <3>2
  <2>2. n - 1 \in 0..N
    OBVIOUS
  <2> HIDE DEF IsScope
  <2> QED BY <1>7, <2>1, <2>2
<1> HIDE DEF fields, IsScope
<1> DEFINE D == {n \in 1..N : ~ (g[n] \in Seq(Field) /\ Env(g[n]) = h[n])}
<1>9. D = {}
  <2> SUFFICES ASSUME D # {} PROVE FALSE
    OBVIOUS
  <2>1. PICK n \in D : \A m \in D : n <= m
    <3>1. D \in SUBSET Nat
      OBVIOUS
    <3> HIDE DEF D
    <3> QED BY <3>1, LeastOf
  <2>2. n \in 1..N /\ (IsScope(n) => h[n - 1].Scopes = <<>>)
    BY <1>8
  <2>3. CASE n = 1
    <3>1. <<>> \in Seq(Field) /\ Env(<<>>) = h[n - 1]
      BY <1>3, <2>3, EnvEmpty
    <3>2. <<>> \o fields[n] \in Seq(Field) /\ Env(<<>> \o fields[n]) = h[n]
      BY <1>4, <2>2, <3>1
    <3>3. <<>> \o fields[n] = fields[n]
      BY <1>5, <2>2
    <3> QED BY <1>6, <2>1, <2>3, <3>2, <3>3
  <2>4. CASE n # 1
    <3>1. n \in 2..N /\ n - 1 \in 1..N
      BY <2>2, <2>4
    <3>2. n - 1 \notin D
      <4> HIDE DEF D
      <4> QED BY <2>1, <3>1
    <3>3. g[n - 1] \in Seq(Field) /\ Env(g[n - 1]) = h[n - 1]
      BY <3>1, <3>2
    <3>4. g[n - 1] \o fields[n] \in Seq(Field) /\ Env(g[n - 1] \o fields[n]) = h[n]
      BY <1>4, <2>2, <3>3
    <3> QED BY <1>6, <2>1, <3>1, <3>4
  <2> QED BY <2>3, <2>4
<1>10. Env(g[N]) = h[N] /\ h[N] \in User
  <2>1. N \in 1..N /\ N \in 0..N
    OBVIOUS
  <2> QED BY <1>3, <1>9, <2>1
<1> QED BY <1>1, <1>3, <1>6, <1>10

(* The two parsers agree, on tables of any width, with any headers and any *)
(* pieces of text (parseUsersFromBlob and parseUserFromEnv).               *)
LEMMA ParsersDoAgree == ParsersAgree
<1> SUFFICES ASSUME NEW headers \in Lines(Header),
                    Cardinality({i \in DOMAIN headers : ColumnKey(headers[i]) = "scope"}) <= 1,
                    NEW row \in [DOMAIN headers -> Text],
                    \A i \in DOMAIN headers : ColumnKey(headers[i]) # "scope" => Len(row[i]) = 1,
                    parseUsersFromBlob(headers, <<row>>) # Invalid
             PROVE  parseUsersFromBlob(headers, <<row>>) =
                      IF parseUserFromEnv(Variable(headers, row)) = Invalid THEN <<>>
                      ELSE <<parseUserFromEnv(Variable(headers, row))>>
  BY DEF ParsersAgree
<1>1. PICK N \in 1..Width : headers \in [1..N -> Header]
  BY DEF Lines
<1>2. N \in Nat \ {0} /\ DOMAIN headers = 1..N
  BY <1>1, WidthAssumption
<1>3. CsvUser(headers, row) = Env(Variable(headers, row)) /\ CsvUser(headers, row) \in User
  BY <1>1, <1>2, SameUser
<1>4. CsvUser(headers, row) # Invalid
  BY <1>3, InvalidAssumption
<1> QED BY <1>3, <1>4, OneRow, ParseIsEnv

(* A user written into the table is the user written into a variable: the  *)
(* register gets the same one, or none.                                    *)
THEOREM TableAndVariablesAgree == Spec => []EnvAgreesWithTable
<1>1. EnvAgreesWithTable
  BY ParsersDoAgree DEF EnvAgreesWithTable
<1> QED BY <1>1, PTL
=============================================================================

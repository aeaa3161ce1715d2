--------------------------- MODULE IdentityRegister ---------------------------
(***************************************************************************)
(* IdentityRegister (identityregister.go): the users who may log in, read  *)
(* from a CSV file and read again by a goroutine on every tick of a ticker *)
(* (UserTableReloadTerm over a second; otherwise there is no goroutine).   *)
(* The goroutine and whoever writes the file interleave between Stat, Read *)
(* and the exchange of the register; lookups and the exchange hold a lock, *)
(* so each is atomic.                                                      *)
(***************************************************************************)
EXTENDS Naturals, Sequences, SequencesExt

CONSTANTS
  UserID, Account,  \* user ids; accounts at the ID providers
  Tables,           \* the tables the file may hold: sequences of rows
  ConfigUsers,      \* Config.Users, appended once at the start
  Unreadable,       \* the file is missing, half written or not valid CSV
  NoUser,           \* no such entry
  MaxModTime,       \* bound on the time stamps of the file
  MaxFaults         \* bound on calls that fail for another reason

Row == [UserID : UserID, FederatedUserAccounts : SUBSET Account]

ASSUME TablesAssumption == /\ Tables \subseteq Seq(Row)
                           /\ ConfigUsers \in Seq(Row)
                           /\ Unreadable \notin Tables
                           /\ NoUser \notin Row
ASSUME ModTimeAssumption == MaxModTime \in Nat /\ MaxFaults \in Nat

VARIABLES
  file,            \* the user table in its bucket: its rows and its ModTime
  register,        \* fromID and fromIDPUser, exchanged together
  fileModifiedAt,  \* the ModTime the register was read under
  loop,            \* where the reloading goroutine is
  users, modTime,  \* its local variables
  cancelled,       \* ctx is done: the process shuts down
  faults,          \* calls failed so far
  written          \* history: every readable version of the file

vars == <<file, register, fileModifiedAt, loop, users, modTime, cancelled,
          faults, written>>

-----------------------------------------------------------------------------
NoUsers == [fromID      |-> [id \in UserID |-> NoUser],
            fromIDPUser |-> [a \in Account |-> NoUser]]

(* Mutant: the accounts of the first row of a user are kept.               *)
AppendUserOnce(ir, u) ==
  IF ir.fromID[u.UserID] # NoUser THEN ir ELSE
  [fromID      |-> [ir.fromID EXCEPT ![u.UserID] = u],
   fromIDPUser |-> [a \in Account |-> IF a \in u.FederatedUserAccounts
                                      THEN u ELSE ir.fromIDPUser[a]]]

AppendUser(ir, u) ==
  [fromID      |-> [ir.fromID EXCEPT ![u.UserID] = u],
   fromIDPUser |-> [a \in Account |-> IF a \in u.FederatedUserAccounts
                                      THEN u ELSE ir.fromIDPUser[a]]]

Build(rows) == FoldLeft(AppendUser, NoUsers, rows)

FindUserByID(id) == register.fromID[id]
FindUserOf(account) == register.fromIDPUser[account]
AllUsers == {id \in UserID : FindUserByID(id) # NoUser}

-----------------------------------------------------------------------------
Loop == {"waiting", "read", "swap", "stopped"}

TypeOK == /\ file \in [rows : Tables \cup {Unreadable}, modTime : 0..MaxModTime]
          /\ register \in [fromID      : [UserID -> Row \cup {NoUser}],
                           fromIDPUser : [Account -> Row \cup {NoUser}]]
          /\ fileModifiedAt \in 0..MaxModTime
          /\ loop \in Loop
          /\ users \in Tables
          /\ modTime \in 0..MaxModTime
          /\ cancelled \in BOOLEAN
          /\ faults \in 0..MaxFaults
          /\ written \subseteq [rows : Tables, modTime : 0..MaxModTime]

(* The first read succeeded (the process ends otherwise); the goroutine's  *)
(* first tick comes after the Config's users have been appended.           *)
Init == \E t \in Tables :
  /\ file = [rows |-> t, modTime |-> 0]
  /\ register = Build(t \o ConfigUsers)
  /\ fileModifiedAt = 0
  /\ loop = "waiting"
  /\ users = t /\ modTime = 0
  /\ cancelled = FALSE /\ faults = 0
  /\ written = {file}

-----------------------------------------------------------------------------
Stop == /\ loop' = "stopped"
        /\ UNCHANGED <<file, register, fileModifiedAt, users, modTime, cancelled,
                       written>>

(* A call to the bucket fails although the file is as it should be.        *)
Breaks == /\ loop \in {"waiting", "read"}
          /\ faults < MaxFaults /\ faults' = faults + 1 /\ Stop

(* Mutant: a file is new only when it is younger by more than one tick.    *)
StatLate ==
  /\ loop = "waiting"
  /\ fileModifiedAt + 1 < file.modTime
  /\ loop' = "read" /\ modTime' = file.modTime
  /\ UNCHANGED <<file, register, fileModifiedAt, users, cancelled, faults, written>>

(* A tick, and Stat (Attributes of the blob): unless the file is younger,  *)
(* ErrNotModified sends the goroutine back to wait for the next tick.      *)
Stat ==
  /\ loop = "waiting"
  /\ fileModifiedAt < file.modTime
  /\ loop' = "read" /\ modTime' = file.modTime
  /\ UNCHANGED <<file, register, fileModifiedAt, users, cancelled, faults, written>>

(* Open and parse; every error ends the goroutine.                         *)
(* Mutant: an error of the parser is not looked at.                        *)
ReadUnchecked ==
  /\ loop = "read"
  /\ loop' = "swap" /\ users' = file.rows
  /\ UNCHANGED <<file, register, fileModifiedAt, modTime, cancelled, faults, written>>

Read ==
  /\ loop = "read"
  /\ \/ file.rows = Unreadable /\ UNCHANGED faults /\ Stop
     \/ /\ file.rows # Unreadable
        /\ loop' = "swap" /\ users' = file.rows
        /\ UNCHANGED <<file, register, fileModifiedAt, modTime, cancelled, faults,
                       written>>

(* Mutant: the stamp is taken after the file was read.                     *)
SwapStatsAgain ==
  /\ loop = "swap"
  /\ register' = Build(users)
  /\ fileModifiedAt' = file.modTime
  /\ loop' = "waiting"
  /\ UNCHANGED <<file, users, modTime, cancelled, faults, written>>

(* Mutant: only one of the two maps is exchanged.                          *)
SwapFromID ==
  /\ loop = "swap"
  /\ register' = [register EXCEPT !.fromID = Build(users).fromID]
  /\ fileModifiedAt' = modTime
  /\ loop' = "waiting"
  /\ UNCHANGED <<file, users, modTime, cancelled, faults, written>>

Swap ==
  /\ loop = "swap"
  /\ register' = Build(users)
  /\ fileModifiedAt' = modTime
  /\ loop' = "waiting"
  /\ UNCHANGED <<file, users, modTime, cancelled, faults, written>>

Done == loop = "waiting" /\ cancelled /\ UNCHANGED faults /\ Stop

-----------------------------------------------------------------------------
(* The administrator writes the file.  Its ModTime does not go back, and   *)
(* two writes may fall into one unit of the store's clock.                 *)
Write == \E t \in Tables \cup {Unreadable},
            m \in {file.modTime, file.modTime + 1} \cap 0..MaxModTime :
  /\ file' = [rows |-> t, modTime |-> m]
  /\ written' = IF t = Unreadable THEN written ELSE written \cup {file'}
  /\ UNCHANGED <<register, fileModifiedAt, loop, users, modTime, cancelled, faults>>

Cancel == /\ ~ cancelled /\ cancelled' = TRUE
          /\ UNCHANGED <<file, register, fileModifiedAt, loop, users, modTime,
                         faults, written>>

Reload == Stat \/ Read \/ Swap \/ Done

Next == Reload \/ Breaks \/ Write \/ Cancel

Spec == Init /\ [][Next]_vars

(* The ticker ticks, its goroutine runs and the bucket answers.            *)
FairSpec == Spec /\ WF_vars(Reload)

-----------------------------------------------------------------------------
(* The register is never older than its stamp: it was built from a version *)
(* of the file that was there at the stamp or later, so "not modified"     *)
(* never hides a younger file.                                             *)
NotOlderThanStamp ==
  \E v \in written : /\ fileModifiedAt <= v.modTime
                     /\ register \in {Build(v.rows), Build(v.rows \o ConfigUsers)}

(* Who logs in through an account is a user that the pages which look the  *)
(* same user up by id find, also right after a reload.                     *)
AccountsResolve ==
  \A a \in Account : FindUserOf(a) # NoUser => FindUserOf(a).UserID \in AllUsers

(* What appendUser builds: for each id, and for each account, the last row *)
(* of the table that has it.                                               *)
LastRow(rows, S) == IF S = {} THEN NoUser
                    ELSE rows[CHOOSE i \in S : \A j \in S : j <= i]
LastRowWins == \A rows \in UNION {{v.rows, v.rows \o ConfigUsers} : v \in written} :
  /\ \A id \in UserID : Build(rows).fromID[id] =
       LastRow(rows, {i \in DOMAIN rows : rows[i].UserID = id})
  /\ \A a \in Account : Build(rows).fromIDPUser[a] =
       LastRow(rows, {i \in DOMAIN rows : a \in rows[i].FederatedUserAccounts})

-----------------------------------------------------------------------------
(* A younger file is loaded unless the goroutine has ended.                *)
YoungerFileIsLoaded ==
  \A m \in 1..MaxModTime :
    file.modTime >= m ~> fileModifiedAt >= m \/ loop = "stopped"

(* "User information is in S3 (and reread it every hour)" (README.md:86):  *)
(* a younger, readable file that stays as it is gets loaded as long as the *)
(* process runs.                                                           *)
YoungerFileIsReread ==
  \A t \in Tables, m \in 1..MaxModTime :
    LET v == [rows |-> t, modTime |-> m]
    IN file = v ~> file # v \/ fileModifiedAt >= m \/ cancelled
=============================================================================

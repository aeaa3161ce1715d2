------------------------------ MODULE UserTable ------------------------------
(***************************************************************************)
(* The two parsers of users (identityregister.go): parseUsersFromBlob for  *)
(* the CSV file, parseUserFromEnv for the variables WRU_USER_n.            *)
(*                                                                         *)
(* A text is the sequence of its pieces between commas, and no piece has a *)
(* comma: <<"">> is the blank cell.  The CSV reader takes the quotes off.  *)
(***************************************************************************)
EXTENDS Naturals, Sequences, SequencesExt, FiniteSetsExt

CONSTANTS
  Header,  \* the headers that the columns of a file may have
  Piece,   \* pieces of text
  Width,   \* bound on the columns of a file
  Invalid  \* the parser's error

ASSUME TextAssumption == Header \subseteq STRING /\ Piece \subseteq STRING
ASSUME WidthAssumption == Width \in Nat \ {0}

Blank   == <<"">>
Service == {"twitter", "github", "oidc"}
Detail  == {"name", "mail", "org"}

EmptyUser == [UserID |-> Blank, details |-> [d \in Detail |-> Blank],
              Scopes |-> <<>>, FederatedUserAccounts |-> <<>>]

(* A user as both parsers make one, of the pieces of a text.               *)
User == LET text == Seq(Piece \cup {""})
        IN [UserID : text, details : [Detail -> text], Scopes : text,
            FederatedUserAccounts : Seq([Service : Service, Account : text])]

ASSUME InvalidAssumption == Invalid \notin User

(* The fields that both parsers fill in the same way.                      *)
Fill(u, key, text) ==
  CASE key = "id"     -> [u EXCEPT !.UserID = text]
    [] key \in Detail -> [u EXCEPT !.details[key] = text]
    [] key \in Service ->
         [u EXCEPT !.FederatedUserAccounts =
                     Append(@, [Service |-> key, Account |-> text])]
    [] OTHER          -> u

HasID(u) == u.UserID # Blank

-----------------------------------------------------------------------------
(* The key of a column; any other column is not read.                      *)
ColumnKey(h) == CASE h \in {"id", "userid"}        -> "id"
                  [] h \in {"mail", "email"}       -> "mail"
                  [] h \in {"org", "organization"} -> "org"
                  [] h \in {"scopes", "scope"}     -> "scope"
                  [] h \in Service \cup {"name"}   -> h
                  [] OTHER                         -> "none"

(* Mutant: a blank cell is no account.                                     *)
CsvUserSkipsBlank(headers, row) ==
  LET column(u, i) ==
        IF ColumnKey(headers[i]) = "scope" THEN [u EXCEPT !.Scopes = row[i]]
        ELSE IF ColumnKey(headers[i]) \in Service /\ row[i] = Blank THEN u
        ELSE Fill(u, ColumnKey(headers[i]), row[i])
  IN FoldLeftDomain(column, EmptyUser, row)

CsvUser(headers, row) ==
  LET column(u, i) ==
        IF ColumnKey(headers[i]) = "scope" THEN [u EXCEPT !.Scopes = row[i]]
        ELSE Fill(u, ColumnKey(headers[i]), row[i])
  IN FoldLeftDomain(column, EmptyUser, row)

(* The first line is the header, and fixes the number of fields.           *)
parseUsersFromBlob(headers, rows) ==
  LET line(users, row) == IF HasID(CsvUser(headers, row))
                          THEN Append(users, CsvUser(headers, row)) ELSE users
  IN
  IF \/ \A i \in DOMAIN headers : ColumnKey(headers[i]) # "id"
     \/ \E i \in DOMAIN rows : Len(rows[i]) # Len(headers)
  THEN Invalid
  ELSE FoldLeft(line, <<>>, rows)

-----------------------------------------------------------------------------
(* A variable is a sequence of fields: <<name, value>>, split at the first *)
(* colon, or <<piece>> where there is none, which is passed over.          *)
parseUserFromEnv(fields) ==
  LET field(u, f) ==
        IF Len(f) = 1 THEN u
        ELSE IF f[1] = "scope" THEN [u EXCEPT !.Scopes = Append(@, f[2])]
        ELSE IF f[1] = "scopes" THEN u
        ELSE Fill(u, ColumnKey(f[1]), <<f[2]>>)
      u == FoldLeft(field, EmptyUser, fields)
  IN IF HasID(u) THEN u ELSE Invalid

-----------------------------------------------------------------------------
(* A row of the file written as a variable: one field for a column, and    *)
(* one for each of the scopes; what follows a comma is a field of its own. *)
Variable(headers, row) ==
  LET fields(i) == IF ColumnKey(headers[i]) = "scope"
                   THEN [j \in DOMAIN row[i] |-> <<"scope", row[i][j]>>]
                   ELSE [j \in DOMAIN row[i] |-> IF j = 1 THEN <<headers[i], row[i][1]>>
                                                 ELSE <<row[i][j]>>]
  IN FlattenSeq([i \in DOMAIN row |-> fields(i)])

Text   == UNION {[1..n -> Piece] : n \in 1..2}
Lines(S) == UNION {[1..n -> S] : n \in 1..Width}

(* The two parsers make the same user of a row and of its variable, or     *)
(* make none, unless the file has two columns of scopes or a comma in a    *)
(* cell that is not the scopes: the file's parser takes the last of the    *)
(* two columns, and the variable's the text up to the comma.               *)
ParsersAgree ==
  \A headers \in Lines(Header) :
    Cardinality({i \in DOMAIN headers : ColumnKey(headers[i]) = "scope"}) <= 1 =>
    \A row \in [DOMAIN headers -> Text] :
      (\A i \in DOMAIN headers : ColumnKey(headers[i]) # "scope" => Len(row[i]) = 1) =>
      LET parsed == parseUsersFromBlob(headers, <<row>>)
          u == parseUserFromEnv(Variable(headers, row))
      IN parsed # Invalid => parsed = IF u = Invalid THEN <<>> ELSE <<u>>
=============================================================================

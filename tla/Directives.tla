------------------------------ MODULE Directives ------------------------------
(***************************************************************************)
(* The header fields Wru-Set-Session-Data of a response (sessionstorage.go,*)
(* reverseproxy.go) and what they make of the session data of a user.  A   *)
(* text is a sequence of characters.                                       *)
(***************************************************************************)
EXTENDS Naturals, Sequences, SequencesExt, FiniteSetsExt

CONSTANTS Letter,   \* the characters but for the blank and "="
          Longest,  \* bound on the length of a key and of a value
          Invalid   \* the parser's error

Directive == [Key : Seq(Letter), Value : Seq(Letter \cup {" ", "="})]

Blanks(n) == [i \in 1..n |-> " "]

(* The ways to read a text as a key without blanks, which ends at c.last,  *)
(* and "=" behind it, with blanks at most in between.                      *)
Cuts(text) ==
  {c \in [first : DOMAIN text, last : DOMAIN text, eq : DOMAIN text] :
     /\ c.first <= c.last /\ c.last < c.eq /\ text[c.eq] = "="
     /\ \A i \in c.first..c.last : text[i] # " "
     /\ \A i \in (c.last + 1)..(c.eq - 1) : text[i] = " "}

(* The regular expression takes the leftmost key, and the longest of these.*)
parseDirective(text) ==
  IF Cuts(text) = {} THEN Invalid
  ELSE LET first == Min({c.first : c \in Cuts(text)})
           cut   == CHOOSE c \in Cuts(text) :
                      /\ c.first = first
                      /\ \A d \in Cuts(text) : d.first = first => d.last <= c.last
           rest  == {i \in DOMAIN text : i > cut.eq /\ text[i] # " "}
       IN [Key   |-> SubSeq(text, first, cut.last),
           Value |-> IF rest = {} THEN <<>>
                     ELSE SubSeq(text, Min(rest), Len(text))]

Assign(data, key, value) ==
  [k \in DOMAIN data \cup {key} |-> IF k = key THEN value ELSE data[k]]
Delete(data, key) == [k \in DOMAIN data \ {key} |-> data[k]]

(* UpdateSessionData, directive by directive.                              *)
(* Mutant: an empty value is a value.                                      *)
StoreKeepsEmpty(data, d) == Assign(data, d.Key, d.Value)

Store(data, d) == IF d.Value = <<>> THEN Delete(data, d.Key)
                                    ELSE Assign(data, d.Key, d.Value)

(* One text that does not parse, and the others are not stored either.     *)
Update(data, texts) ==
  LET directives == [i \in DOMAIN texts |-> parseDirective(texts[i])]
  IN IF Invalid \in ToSet(directives) THEN data
     ELSE FoldLeft(Store, data, directives)

-----------------------------------------------------------------------------
(* What the service writes: key and value, with blanks around the "=".     *)
Keys   == UNION {[1..n -> Letter] : n \in 1..Longest}
Values == {v \in UNION {[1..n -> Letter \cup {" ", "="}] : n \in 0..Longest} :
             v # <<>> => v[1] # " " /\ v[Len(v)] # " "}
Written == [key : Keys, value : Values, before : 0..1, after : 0..1]

Text(w) == w.key \o Blanks(w.before) \o <<"=">> \o Blanks(w.after) \o w.value

(* The value in a text without blank before the "=" has no "=" of its own: *)
(* else the key may end at that one.                                       *)
Plain(w) == w.before = 0 => "=" \notin ToSet(w.value)

(* The session data has, for every key, the value that the service wrote   *)
(* last, and no entry if that is empty; other keys are as they were.       *)
StoredAsWritten ==
  \A w1, w2 \in {w \in Written : Plain(w)} :
    LET ws   == <<w1, w2>>
        data == [k \in {w1.key, w2.key, <<>>} |-> <<"=">>]
        stored == Update(data, <<Text(w1), Text(w2)>>)
    IN \A k \in {w1.key, w2.key, <<>>} :
         LET of   == {i \in 1..2 : ws[i].key = k}
             want == IF of = {} THEN data[k] ELSE ws[Max(of)].value
         IN IF want = <<>> THEN k \notin DOMAIN stored
            ELSE k \in DOMAIN stored /\ stored[k] = want
=============================================================================

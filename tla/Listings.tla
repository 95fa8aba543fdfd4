------------------------------ MODULE Listings ------------------------------
(***************************************************************************)
(* The six listings of the server and a client that reads one page after   *)
(* the other, while the rows come, go and move.                            *)
(*                                                                         *)
(* A page begins at a row, the cursor, that the client had from the page   *)
(* before.  Prisma looks up what the cursor row is sorted by when the page *)
(* is asked for, takes the rows of the filter from there on and skips the  *)
(* first, which is the cursor itself if it still passes the filter.  No    *)
(* transaction spans two pages.                                            *)
(*                                                                         *)
(* The table is a sequence of rows, numbered as they are created, in the   *)
(* order of the listing; shown are the rows that pass its filter.          *)
(***************************************************************************)
EXTENDS Naturals, FiniteSets, SequencesExt

CONSTANTS
  Takes,       \* page sizes that clients ask for
  FirstRows,   \* rows there are at first
  MaxChanges,  \* bound: changes of the table
  MaxListings  \* bound: listings that the client begins

ASSUME ListingsAssumption ==
  /\ Takes \subseteq Nat \ {0}
  /\ FirstRows \in Nat /\ MaxChanges \in Nat /\ MaxListings \in Nat

VARIABLES
  listing,   \* the listing that is read
  table,     \* its rows, in its order
  created,   \* rows ever created; they are numbered as they come
  shown,     \* rows that pass the filter
  granted,   \* the caller may read the listing
  reader,    \* the client's progress
  strayed,   \* history: the cursor's row has changed since the client got it
  steady,    \* history: rows shown and unchanged since the listing began
  changes, listings

tableVars == <<table, created, shown>>
history   == <<strayed, steady>>
listingsVars == <<listing, tableVars, granted, reader, history, changes, listings>>

Row == 1 .. FirstRows + MaxChanges
NoCursor == 0  \* rows are numbered from 1

(***************************************************************************)
(* What distinguishes the listings: where a new row enters, whether rows   *)
(* leave the filter, whether they return, whether a change moves a row to  *)
(* the front, whether the retention deletes rows, whether each page checks *)
(* the caller's role, and whether the client looks out for repeated        *)
(* cursors.                                                                *)
(***************************************************************************)
Plain == [grows |-> "front", leaves |-> FALSE, returns |-> FALSE, moves |-> FALSE,
          ages |-> FALSE, guarded |-> FALSE, watched |-> FALSE]

\* The caller's rooms that are not deleted, by id.
RoomList == [Plain EXCEPT !.grows = "anywhere", !.leaves = TRUE, !.returns = TRUE]

\* The newest first, whatever has become of them.
MyJoinRequests == Plain

\* Those pending, the oldest first.
RoomJoinRequests ==
  [Plain EXCEPT !.grows = "end", !.leaves = TRUE, !.guarded = TRUE, !.watched = TRUE]

\* Those not finished, the last updated first.
ActiveSessions ==
  [Plain EXCEPT !.leaves = TRUE, !.moves = TRUE, !.guarded = TRUE, !.watched = TRUE]

\* The newest messages first, while the retention keeps them.
History == [Plain EXCEPT !.ages = TRUE, !.guarded = TRUE]

\* By id; applications are never deleted.
Applications == [Plain EXCEPT !.grows = "anywhere"]

Listing == {RoomList, MyJoinRequests, RoomJoinRequests, ActiveSessions, History,
            Applications}

Ended   == {"idle", "done", "refused", "failed", "invalid"}
ReaderStages == Ended \cup {"asking", "granted"}
Reading == reader.at \notin Ended

ListingsInit ==
  /\ listing \in Listing
  /\ table = [i \in 1 .. FirstRows |->
                IF listing.grows = "front" THEN FirstRows + 1 - i ELSE i]
  /\ created = FirstRows
  /\ shown = 1 .. FirstRows
  /\ granted = TRUE
  /\ reader = [at |-> "idle", take |-> 1, cursor |-> NoCursor, seen |-> {}, got |-> <<>>]
  /\ strayed = FALSE /\ steady = {}
  /\ changes = 0 /\ listings = 0

(***************************************************************************)
(* The table changes.                                                      *)
(***************************************************************************)
Disturb(changed) ==
  /\ strayed' = (strayed \/ (Reading /\ reader.cursor \in changed))
  /\ steady' = steady \ changed

ToFront(r) ==
  LET p == CHOOSE i \in DOMAIN table : table[i] = r
  IN  [i \in DOMAIN table |->
         IF i = 1 THEN r ELSE IF i <= p THEN table[i - 1] ELSE table[i]]

Grow ==
  LET new == created + 1
  IN  /\ created' = new
      /\ shown' = shown \cup {new}
      /\ CASE listing.grows = "front" -> table' = <<new>> \o table
           [] listing.grows = "end"   -> table' = Append(table, new)
           [] OTHER -> \E i \in 1 .. Len(table) + 1 : table' = InsertAt(table, i, new)
      /\ UNCHANGED history

\* A room is left or deleted, a request is decided, a session is finished.
Hide(r) ==
  /\ listing.leaves /\ r \in shown
  /\ shown' = shown \ {r}
  /\ table' = IF listing.moves THEN ToFront(r) ELSE table
  /\ Disturb({r})
  /\ UNCHANGED created

\* A room is joined again.
Return(r) ==
  /\ listing.returns /\ r \notin shown
  /\ shown' = shown \cup {r}
  /\ Disturb({r})
  /\ UNCHANGED <<table, created>>

\* A session is paused or resumed.
Move(r) ==
  /\ listing.moves /\ r \in shown
  /\ table' = ToFront(r)
  /\ Disturb({r})
  /\ UNCHANGED <<created, shown>>

\* The retention deletes what was sent before some day.
Age ==
  /\ listing.ages
  /\ \E n \in 0 .. Len(table) - 1 : table' = SubSeq(table, 1, n)
  /\ shown' = shown \cap ToSet(table')
  /\ Disturb(ToSet(table) \ ToSet(table'))
  /\ UNCHANGED created

\* A membership ends, or ownership passes to somebody else.
Revoke ==
  /\ listing.guarded /\ granted
  /\ granted' = FALSE
  /\ UNCHANGED <<tableVars, history>>

Change ==
  /\ changes < MaxChanges
  /\ changes' = changes + 1
  /\ \/ /\ \/ Grow \/ Age
           \/ \E r \in ToSet(table) : Hide(r) \/ Return(r) \/ Move(r)
        /\ UNCHANGED granted
     \/ Revoke
  /\ UNCHANGED <<listing, reader, listings>>

(***************************************************************************)
(* The server answers a page.                                              *)
(***************************************************************************)
UpTo(s, n) == SubSeq(s, 1, IF Len(s) > n THEN n ELSE Len(s))

\* Fault: the page is found by the number of rows that came before.
FromOffset(cursor) == SubSeq(table, Len(reader.got) + 1, Len(table))

\* The rows of the table from the cursor's on; none if it is deleted.
From(cursor) ==
  IF cursor = NoCursor THEN table
  ELSE IF cursor \notin ToSet(table) THEN <<>>
  ELSE SubSeq(table, CHOOSE i \in DOMAIN table : table[i] = cursor, Len(table))

\* The rows of s that pass the filter.
Passing(s) ==
  LET passing[i \in 0 .. Len(s)] ==
        IF i = 0 THEN <<>>
        ELSE IF s[i] \in shown THEN Append(passing[i - 1], s[i])
        ELSE passing[i - 1]
  IN  passing[Len(s)]

\* findMany with cursor, skip and take: one row more than the page, which
\* tells whether there is another page.
FindMany(cursor, take) ==
  LET found == Passing(From(cursor))
      skip  == IF cursor = NoCursor THEN 0 ELSE 1
  IN  UpTo(SubSeq(found, 1 + skip, Len(found)), take + 1)

NextCursor(found, take) == IF Len(found) > take THEN found[take] ELSE NoCursor

(***************************************************************************)
(* The client.                                                             *)
(***************************************************************************)

Begin ==
  /\ ~Reading /\ listings < MaxListings
  /\ listings' = listings + 1
  /\ \E take \in Takes :
       reader' = [at |-> "asking", take |-> take, cursor |-> NoCursor, seen |-> {},
                  got |-> <<>>]
  /\ strayed' = FALSE
  /\ steady' = shown
  /\ UNCHANGED <<listing, tableVars, granted, changes>>

\* requireMember or requireOwner, a statement of its own.
Check ==
  /\ reader.at = "asking"
  /\ reader' = [reader EXCEPT !.at = IF granted THEN "granted" ELSE "refused"]
  /\ UNCHANGED <<listing, tableVars, granted, history, changes, listings>>

Answer ==
  LET found == FindMany(reader.cursor, reader.take)
      next  == NextCursor(found, reader.take)
      ended == IF next = NoCursor THEN "done"
               ELSE IF listing.watched /\ next \in reader.seen THEN "invalid"
               ELSE "asking"
  IN  /\ reader.at = "granted"
      /\ reader' = [at |-> ended, take |-> reader.take, cursor |-> next,
                    seen |-> reader.seen \cup (IF next = NoCursor THEN {} ELSE {next}),
                    got |-> reader.got \o UpTo(found, reader.take)]
      /\ UNCHANGED <<listing, tableVars, granted, history, changes, listings>>

\* The network, the server or a limit: the client gives the listing up.
Fail ==
  /\ Reading
  /\ reader' = [reader EXCEPT !.at = "failed"]
  /\ UNCHANGED <<listing, tableVars, granted, history, changes, listings>>

ListingsNext == Change \/ Begin \/ Check \/ Answer \/ Fail

ListingsSpec == ListingsInit /\ [][ListingsNext]_listingsVars

(***************************************************************************)
(* Properties.                                                             *)
(***************************************************************************)
ListingsTypeOK ==
  /\ listing \in Listing
  /\ created \in Nat /\ created <= FirstRows + changes
  /\ table \in Seq(Row) /\ IsInjective(table)
  /\ shown \subseteq ToSet(table) /\ ToSet(table) \subseteq 1 .. created
  /\ granted \in BOOLEAN
  /\ reader \in [at : ReaderStages, take : Takes \cup {1}, cursor : Row \cup {NoCursor},
                 seen : SUBSET Row, got : Seq(Row)]
  /\ reader.seen \subseteq ToSet(reader.got)
  /\ reader.cursor \in reader.seen \cup {NoCursor}
  /\ strayed \in BOOLEAN /\ steady \subseteq shown
  /\ changes \in 0 .. MaxChanges /\ listings \in 0 .. MaxListings

\* Whatever comes, goes and moves between two pages: unless the cursor's own
\* row changed while the client held it, no row comes twice, a complete
\* listing holds every row that was there all the time, and none is given up
\* for a repeated cursor, over those of another listing in particular.
ExactUnlessStrayed ==
  ~strayed =>
    /\ IsInjective(reader.got)
    /\ reader.at = "done" => steady \subseteq ToSet(reader.got)
    /\ reader.at # "invalid"
=============================================================================

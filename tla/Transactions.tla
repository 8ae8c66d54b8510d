---------------------------- MODULE Transactions ----------------------------
(***************************************************************************)
(* The database connection (database.cpp), shared by the dispatcher, which   *)
(* saves players and houses in transactions, and the database thread, which  *)
(* runs queries.  A statement has the lock while it runs and is repeated     *)
(* while the server is away; a transaction keeps the lock from after its     *)
(* BEGIN to its end.  What the server does not know of the lock: a           *)
(* connection has one transaction, whoever sends the statements, and a lost  *)
(* connection ends it.  The connection that comes back has none.             *)
(*                                                                           *)
(* A save writes its version to every row, one after the other.  Queries     *)
(* count how often they took effect.                                         *)
(***************************************************************************)
EXTENDS Naturals

CONSTANTS
  Rows,         \* how many statements a save has
  Unchecked,    \* those whose result is not looked at (iomapserialize.cpp:329)
  MaxSave,      \* bound: how many saves there are
  Tries,        \* how often one is tried (player.cpp:1296, map.cpp:59)
  Query,        \* the queries of the database thread
  MaxLoss       \* bound: how often the connection is lost

ASSUME TransactionAssumption ==
  /\ Rows \in Nat \ {0}
  /\ Unchecked \subseteq 1 .. Rows
  /\ MaxSave \in Nat /\ MaxLoss \in Nat
  /\ Tries \in Nat \ {0}

VARIABLES
  saver,        \* the dispatcher: "idle", or it has "begun", or it has the lock
  version,      \* of the last save
  statement,    \* how many of its statements were executed
  tries,        \* how often it may be tried again
  confirmed,    \* the last version whose save was reported as a success
  up,           \* the server can be reached
  open,         \* the connection has a transaction at the server
  gone,         \* it had one when it was lost, and the client did not notice yet
  losses,       \* how often it was lost
  view,         \* what the connection sees, and
  stored,       \* what is committed: the version of each row, the runs of queries
  reported,     \* the queries that returned
  caught,       \* history: those that ran between a BEGIN and its lock
  again,        \* history: those whose answer was lost
  cut           \* history: a transaction lost its connection or a statement

dbVars == <<saver, version, statement, tries, confirmed, up, open, gone, losses,
            view, stored, reported, caught, again, cut>>

saveVars == <<saver, version, statement, tries, confirmed>>
queryVars == <<reported, caught, again>>
faultVars == <<up, losses, cut>>

TransactionInit ==
  /\ saver = "idle"
  /\ version = 0 /\ statement = 0 /\ tries = 0 /\ confirmed = 0
  /\ up = TRUE /\ open = FALSE /\ gone = FALSE /\ losses = 0
  /\ view = [row |-> [r \in 1 .. Rows |-> 0], runs |-> [q \in Query |-> 0]]
  /\ stored = view
  /\ reported = {} /\ caught = {} /\ again = {}
  /\ cut = FALSE

-----------------------------------------------------------------------------
(* The server: a statement takes effect in the transaction, or for good.     *)
Execute(effect) ==
  /\ up
  /\ view' = effect
  /\ stored' = IF open THEN stored ELSE effect

(* Database::beginTransaction.  BEGIN commits what is open.                  *)
BeginTransaction ==
  /\ saver = "idle"
  /\ up
  /\ \/ /\ tries > 0
        /\ tries' = tries - 1
        /\ UNCHANGED version
     \/ /\ version < MaxSave
        /\ version' = version + 1
        /\ tries' = Tries - 1
  /\ saver' = "begun"
  /\ open' = TRUE
  /\ stored' = view
  /\ UNCHANGED <<statement, confirmed, gone, view, queryVars, faultVars>>

(* ... and its lock, which another thread may have had in between.           *)
LockTransaction ==
  /\ saver = "begun"
  /\ saver' = "locked"
  /\ statement' = 0
  /\ UNCHANGED <<version, tries, confirmed, open, gone, view, stored, queryVars, faultVars>>

(* A statement of savePlayer, saveHouseInfo or saveHouseItems.               *)
SaveStatement ==
  /\ saver = "locked"
  /\ statement < Rows
  /\ statement' = statement + 1
  /\ Execute([view EXCEPT !.row[statement + 1] = version])
  /\ gone' = FALSE
  /\ UNCHANGED <<saver, version, tries, confirmed, open, queryVars, faultVars>>

(* Mutant: a save that fails only gives the lock back.                       *)
SaveFailsMutUnlock ==
  /\ saver = "locked"
  /\ up
  /\ statement < Rows
  /\ saver' = "idle"
  /\ UNCHANGED <<version, statement, tries, confirmed, open, gone, view, stored,
                 queryVars, faultVars>>

(* A statement fails, but not for the connection: ~DBTransaction rolls back. *)
SaveFails ==
  /\ saver = "locked"
  /\ up
  /\ statement < Rows
  /\ view' = stored
  /\ open' = FALSE
  /\ gone' = FALSE
  /\ saver' = "idle"
  /\ UNCHANGED <<version, statement, tries, confirmed, stored, queryVars, faultVars>>

(* saveHouseInfo goes on after the row of a house that could not be written. *)
SkipStatement ==
  /\ saver = "locked"
  /\ up
  /\ statement + 1 \in Unchecked
  /\ statement' = statement + 1
  /\ gone' = FALSE
  /\ cut' = TRUE
  /\ UNCHANGED <<saver, version, tries, confirmed, up, open, losses, view, stored, queryVars>>

(* Database::commit, which is not repeated.  On a connection that came back  *)
(* there is nothing to commit, and it succeeds.                              *)
Commit ==
  /\ saver = "locked"
  /\ statement = Rows
  /\ IF up /\ ~gone
     THEN stored' = view /\ confirmed' = version /\ tries' = 0
     ELSE UNCHANGED <<stored, confirmed, tries>>
  /\ open' = FALSE
  /\ gone' = FALSE
  /\ saver' = "idle"
  /\ UNCHANGED <<version, statement, view, queryVars, faultVars>>

-----------------------------------------------------------------------------
(* Mutant: a query does not wait for the lock.                               *)
RunQueryMutUnlocked(q) ==
  /\ q \notin reported
  /\ Execute([view EXCEPT !.runs[q] = @ + 1])
  /\ gone' = FALSE
  /\ reported' = reported \cup {q}
  /\ caught' = IF saver = "begun" THEN caught \cup {q} ELSE caught
  /\ UNCHANGED <<saveVars, open, again, faultVars>>

(* DatabaseTasks::runTask, and Database::executeQuery with the lock.         *)
RunQuery(q) ==
  /\ q \notin reported
  /\ saver # "locked"
  /\ Execute([view EXCEPT !.runs[q] = @ + 1])
  /\ gone' = FALSE
  /\ reported' = reported \cup {q}
  /\ caught' = IF saver = "begun" THEN caught \cup {q} ELSE caught
  /\ UNCHANGED <<saveVars, open, again, faultVars>>

-----------------------------------------------------------------------------
(* The connection is lost: the server rolls back.                            *)
ConnectionLost ==
  /\ up
  /\ losses < MaxLoss
  /\ losses' = losses + 1
  /\ up' = FALSE
  /\ view' = stored
  /\ open' = FALSE
  /\ gone' = (gone \/ open)
  /\ cut' = (cut \/ open)
  /\ UNCHANGED <<saveVars, stored, queryVars>>

(* It is lost before the answer to a query outside of transactions, which    *)
(* the loop of executeQuery then sends again.                                *)
QueryAnswerLost(q) ==
  /\ q \notin reported
  /\ saver # "locked"
  /\ ~open
  /\ losses < MaxLoss
  /\ Execute([view EXCEPT !.runs[q] = @ + 1])
  /\ losses' = losses + 1
  /\ up' = FALSE
  /\ again' = again \cup {q}
  /\ UNCHANGED <<saveVars, open, gone, reported, caught, cut>>

(* It is lost before the answer to a COMMIT.                                 *)
CommitAnswerLost ==
  /\ saver = "locked"
  /\ statement = Rows
  /\ up /\ open
  /\ losses < MaxLoss
  /\ stored' = view
  /\ losses' = losses + 1
  /\ up' = FALSE
  /\ open' = FALSE
  /\ saver' = "idle"
  /\ UNCHANGED <<version, statement, tries, confirmed, gone, view, queryVars, cut>>

ServerBack ==
  /\ ~up
  /\ up' = TRUE
  /\ UNCHANGED <<saveVars, open, gone, losses, view, stored, queryVars, cut>>

TransactionNext ==
  \/ BeginTransaction
  \/ LockTransaction
  \/ SaveStatement
  \/ SaveFails
  \/ SkipStatement
  \/ Commit
  \/ \E q \in Query : RunQuery(q) \/ QueryAnswerLost(q)
  \/ ConnectionLost
  \/ CommitAnswerLost
  \/ ServerBack

TransactionSpec == TransactionInit /\ [][TransactionNext]_dbVars

-----------------------------------------------------------------------------
Content == [row : [1 .. Rows -> 0 .. MaxSave], runs : [Query -> Nat]]

Flags == up \in BOOLEAN /\ open \in BOOLEAN /\ gone \in BOOLEAN /\ cut \in BOOLEAN

Counters ==
  /\ saver \in {"idle", "begun", "locked"}
  /\ version \in 0 .. MaxSave /\ confirmed \in 0 .. version
  /\ statement \in 0 .. Rows
  /\ tries \in Nat
  /\ losses \in 0 .. MaxLoss

TransactionTypeOK ==
  /\ Flags /\ Counters
  /\ view \in Content /\ stored \in Content
  /\ reported \subseteq Query /\ caught \subseteq Query /\ again \subseteq Query

(* A save is stored as a whole or not at all, through every error, retry and *)
(* lost answer, and what was reported as saved is stored, unless the         *)
(* connection was lost within a transaction, whose first statements are then *)
(* undone and the others stored one by one (database.cpp:105), or an error   *)
(* was ignored.                                                              *)
SavesAreWhole ==
  ~cut => \E v \in confirmed .. version : \A r \in 1 .. Rows : stored.row[r] = v

(* A query that returned has taken effect for good, and once, unless it got  *)
(* into a transaction before the lock, with which it may be undone           *)
(* (database.cpp:66), or its answer was lost (database.cpp:105).             *)
QueriesKept ==
  /\ TransactionTypeOK
  /\ \A q \in reported :
       /\ q \notin caught => stored.runs[q] >= 1
       /\ q \notin again => stored.runs[q] <= 1
=============================================================================

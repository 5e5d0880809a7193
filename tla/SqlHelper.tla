----------------------------- MODULE SqlHelper -----------------------------
(* The database helper (XChatyUtilty/SqlHelper.h): one instance, hence one    *)
(* m_db and one m_errmsg, used by every worker thread that runs LoginCheck    *)
(* (mainwindow.cpp) through UserTableDAO::GetUser (UserTableDAO.cpp), with no *)
(* lock.  Each access to the two members is a step of its own.                *)
(*                                                                            *)
(* What the SQLite calls do is taken from sqlite3.h: sqlite3_open hands out a *)
(* handle, sqlite3_exec leaves an allocated message in m_errmsg if the        *)
(* statement failed and NULL if it did not, sqlite3_close and sqlite3_free of *)
(* NULL do nothing.                                                           *)
EXTENDS Integers

CONSTANTS
  Workers,     \* the worker threads of the server
  MaxLogins    \* bound: login requests of a run

ASSUME ConstantsAssumption == MaxLogins \in Nat

NULL == 0
Ids  == 1 .. MaxLogins       \* handles and messages: the number of their login
Init_Buffer == MaxLogins + 1 \* m_errmsg = new char[1024]

VARIABLES
  logins,   \* login requests begun
  pc,       \* where each worker is in GetUser
  db,       \* m_db
  errmsg,   \* m_errmsg
  using,    \* the handle each worker passed to the SQLite call it is in
  opened,   \* handles sqlite3_open returned
  closed,   \* handles sqlite3_close released
  msgs,     \* memory m_errmsg may point to
  freed,    \* the part of it that was released
  shared,   \* history: two logins have overlapped since the helper was idle
  misuse    \* history: calls given a pointer they must not be given, since then

historyVars == << shared, misuse >>
vars == << logins, pc, db, errmsg, using, opened, closed, msgs, freed,
           shared, misuse >>

Idle == \A w \in Workers : pc[w] = "idle"
Go(w, from, to) == pc[w] = from /\ pc' = [pc EXCEPT ![w] = to]

Init ==
  /\ logins = 0
  /\ pc = [w \in Workers |-> "idle"]
  /\ db = NULL /\ errmsg = Init_Buffer
  /\ using = [w \in Workers |-> NULL]
  /\ opened = {} /\ closed = {}
  /\ msgs = {Init_Buffer} /\ freed = {}
  /\ shared = FALSE /\ misuse = {}

(* GetUser: Open, that is sqlite3_open(fileName, &m_db).  A handle m_db held  *)
(* before is overwritten.                                                     *)
Open(w) ==
  /\ logins < MaxLogins
  /\ Go(w, "idle", "query")
  /\ logins' = logins + 1
  /\ db' = logins + 1
  /\ opened' = opened \union {logins + 1}
  /\ shared' = (shared \/ ~Idle)
  /\ UNCHANGED << errmsg, using, closed, msgs, freed, misuse >>

(* Query, Exec: sqlite3_exec(m_db, ...) begins.                               *)
ExecBegin(w) ==
  /\ Go(w, "query", "exec")
  /\ using' = [using EXCEPT ![w] = db]
  /\ misuse' = misuse \union IF db \in opened \ closed THEN {} ELSE {"exec"}
  /\ UNCHANGED << logins, db, errmsg, opened, closed, msgs, freed, shared >>

(* It ends without an error (m_errmsg = NULL) ...                             *)
ExecOk(w) ==
  /\ Go(w, "exec", "close")
  /\ errmsg' = NULL
  /\ using' = [using EXCEPT ![w] = NULL]
  /\ UNCHANGED << logins, db, opened, closed, msgs, freed, historyVars >>

(* ... or with one, and a message from sqlite3_malloc.  A login of the XChaty *)
(* client always ends here: its id is empty and "name = ;" is no statement.   *)
ExecError(w) ==
  /\ Go(w, "exec", "report")
  /\ \E m \in Ids \ msgs : errmsg' = m /\ msgs' = msgs \union {m}
  /\ using' = [using EXCEPT ![w] = NULL]
  /\ UNCHANGED << logins, db, opened, closed, freed, historyVars >>

(* XWAR(errStr, m_errmsg).                                                    *)
Report(w) ==
  /\ Go(w, "report", "free")
  /\ misuse' = misuse \union IF errmsg \in msgs \ freed THEN {} ELSE {"report"}
  /\ UNCHANGED << logins, db, errmsg, using, opened, closed, msgs, freed, shared >>

(* sqlite3_free(m_errmsg): m_errmsg keeps its value.                          *)
Free(w) ==
  /\ Go(w, "free", "close")
  /\ freed' = freed \union ({errmsg} \ {NULL})
  /\ misuse' = misuse \union IF errmsg \in freed THEN {"free"} ELSE {}
  /\ UNCHANGED << logins, db, errmsg, using, opened, closed, msgs, shared >>

(* Close: if (m_db) ...                                                       *)
CloseCheck(w) ==
  /\ Go(w, "close", IF db = NULL THEN "forget" ELSE "closeDb")
  /\ UNCHANGED << logins, db, errmsg, using, opened, closed, msgs, freed,
                  historyVars >>

(* ... sqlite3_close(m_db), which reads m_db again; with a statement of       *)
(* another worker under way it may answer SQLITE_BUSY and close nothing ...   *)
CloseDb_NotCalled(w) ==
  /\ Go(w, "closeDb", "forget")
  /\ UNCHANGED << logins, db, errmsg, using, opened, closed, msgs, freed,
                  historyVars >>

CloseDb(w) ==
  /\ Go(w, "closeDb", "forget")
  /\ \/ closed' = closed \union ({db} \ {NULL})
     \/ (\E v \in Workers : using[v] = db) /\ closed' = closed
  /\ misuse' = misuse \union IF db \in closed THEN {"close"} ELSE {}
  /\ UNCHANGED << logins, db, errmsg, using, opened, msgs, freed, shared >>

(* ... and m_db = nullptr.  GetUser returns; with the last of the logins that *)
(* overlapped, the history begins anew.                                       *)
Forgotten(w) ==
  /\ Go(w, "forget", "idle")
  /\ shared' = (shared /\ ~Idle')
  /\ misuse' = IF Idle' THEN {} ELSE misuse
  /\ UNCHANGED << logins, errmsg, using, opened, closed, msgs, freed >>

Forget_NotReset(w) == Forgotten(w) /\ db' = db

Forget(w) == Forgotten(w) /\ db' = NULL

Next == \E w \in Workers :
          \/ Open(w) \/ ExecBegin(w) \/ ExecOk(w) \/ ExecError(w) \/ Report(w)
          \/ Free(w) \/ CloseCheck(w) \/ CloseDb(w) \/ Forget(w)

Spec == Init /\ [][Next]_vars

-----------------------------------------------------------------------------
TypeOK ==
  /\ logins \in 0 .. MaxLogins
  /\ pc \in [Workers -> {"idle", "query", "exec", "report", "free", "close",
                         "closeDb", "forget"}]
  /\ db \in Ids \union {NULL}
  /\ errmsg \in Ids \union {NULL, Init_Buffer}
  /\ using \in [Workers -> Ids \union {NULL}]
  /\ opened \subseteq Ids /\ closed \subseteq Ids
  /\ msgs \subseteq Ids \union {Init_Buffer} /\ freed \subseteq msgs
  /\ shared \in BOOLEAN
  /\ misuse \subseteq {"exec", "report", "free", "close"}

(* The helper is one worker's as long as no two logins overlap: its handle is *)
(* the open one until it is closed, a call uses a handle only while it runs,  *)
(* and the message of a failed query is released once.  What an overlap       *)
(* leaves behind (handles nobody closes) does not reach the next login: once  *)
(* the workers are out of the helper it is as good as new.                    *)
OneAtATime == \A v, w \in Workers : pc[v] # "idle" /\ pc[w] # "idle" => v = w
HandleOwned ==
  \A w \in Workers :
    /\ pc[w] \in {"query", "exec", "report", "free", "close", "closeDb"}
         => db \in opened \ closed
    /\ pc[w] = "forget" => db \in closed
UsedInExec == \A w \in Workers : using[w] # NULL => pc[w] = "exec"
MessageOwned ==
  \A w \in Workers : pc[w] \in {"report", "free"} => errmsg \in msgs \ freed
SerialInv ==
  /\ TypeOK
  /\ opened \subseteq 1 .. logins /\ closed \subseteq opened
  /\ db \in opened \union {NULL} /\ errmsg \in msgs \union {NULL}
  /\ UsedInExec
  /\ Idle => db = NULL /\ ~shared
  /\ ~shared => OneAtATime /\ HandleOwned /\ MessageOwned

(* Damage takes an overlap: sqlite3_exec, sqlite3_close and sqlite3_free get  *)
(* a pointer they must not be given (sqlite3.h:348-351, 387-389, 417), or an  *)
(* open handle is dropped for good, only in steps in which two logins are, or *)
(* have been since the helper was last idle, under way at once.               *)
Lost == (opened \ closed) \ {db}
DamageNeedsOverlap ==
  [][~(shared \/ shared') => misuse' \subseteq misuse /\ Lost' \subseteq Lost]_vars

(* "The application must not close the [database connection] [...] while      *)
(* sqlite3_exec() is running" (sqlite3.h:419).  The code does not keep this   *)
(* once two workers check a login at the same time.                           *)
NotClosedWhileRunning == \A w \in Workers : using[w] \notin closed

(* ~SqlHelper deletes m_errmsg: it must not have been released before.  The   *)
(* code does not keep this after a query that failed.                         *)
ErrmsgDeletable == Idle => errmsg \notin freed
=============================================================================

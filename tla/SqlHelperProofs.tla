-------------------------- MODULE SqlHelperProofs --------------------------
(* What a worker may rely on in the database helper, for any number of        *)
(* workers and of logins, whether or not their checks overlap.                *)
EXTENDS SqlHelper, TLAPS

(* The constructor establishes the invariant.                                 *)
LEMMA SerialInit == Init => SerialInv
<1> SUFFICES ASSUME Init PROVE SerialInv
  OBVIOUS
<1>1. TypeOK
  <2>1. shared \in BOOLEAN /\ misuse \subseteq {"exec", "report", "free", "close"}
    BY DEF Init
  <2>2. logins \in 0 .. MaxLogins
    BY ConstantsAssumption DEF Init
  <2> QED
    BY <2>1, <2>2 DEF Init, TypeOK
<1>2. /\ OneAtATime /\ HandleOwned /\ MessageOwned /\ UsedInExec
      /\ db = NULL /\ ~shared /\ errmsg \in msgs
  BY DEF Init, OneAtATime, HandleOwned, UsedInExec, MessageOwned, NULL
<1>3. opened \subseteq 1 .. logins /\ closed \subseteq opened
  BY DEF Init
<1> QED
  BY <1>1, <1>2, <1>3 DEF SerialInv

(* A worker that steps while no login has overlapped is the only one in the   *)
(* helper.                                                                    *)
LEMMA Alone ==
  ASSUME SerialInv, ~shared, NEW w \in Workers, pc[w] # "idle"
  PROVE  \A v \in Workers : v # w => pc[v] = "idle" /\ using[v] = NULL
  BY DEF SerialInv, OneAtATime, UsedInExec

(* Every step of a login keeps it: the typed part whatever the others do, the *)
(* rest because no other worker is in the helper unless shared says so.       *)
LEMMA SerialNext ==
  ASSUME SerialInv, [Next]_vars
  PROVE  SerialInv'
<1> USE ConstantsAssumption
    DEF SerialInv, TypeOK, OneAtATime, HandleOwned, UsedInExec, MessageOwned, Idle, Go,
        historyVars
<1>1. CASE UNCHANGED vars
  BY <1>1 DEF vars
<1>2. ASSUME NEW w \in Workers, Open(w) PROVE SerialInv'
  <2>1. TypeOK'
    BY <1>2 DEF Open, Ids, NULL, Init_Buffer
  <2>2. opened' \subseteq 1 .. logins' /\ closed' \subseteq opened'
    BY <1>2 DEF Open, Ids
  <2>3. /\ db' \in opened' \union {NULL} /\ errmsg' \in msgs' \union {NULL}
        /\ UsedInExec'
        /\ ~Idle'
    BY <1>2 DEF Open
  <2>4. ASSUME ~shared' PROVE OneAtATime' /\ HandleOwned' /\ MessageOwned'
    <3>1. Idle
      BY <1>2, <2>4 DEF Open
    <3>2. logins + 1 \notin closed
      BY DEF Ids
    <3> QED
      BY <1>2, <3>1, <3>2 DEF Open
  <2> QED
    BY <2>1, <2>2, <2>3, <2>4
<1>3. ASSUME NEW w \in Workers, ExecBegin(w) PROVE SerialInv'
  BY <1>3 DEF ExecBegin, Ids, NULL, Init_Buffer
<1>4. ASSUME NEW w \in Workers, ExecOk(w) PROVE SerialInv'
  BY <1>4 DEF ExecOk, Ids, NULL, Init_Buffer
<1>5. ASSUME NEW w \in Workers, ExecError(w) PROVE SerialInv'
  <2>1. PICK m \in Ids \ msgs : errmsg' = m /\ msgs' = msgs \union {m}
    BY <1>5 DEF ExecError
  <2> QED
    BY <1>5, <2>1 DEF ExecError, Ids, NULL, Init_Buffer
<1>6. ASSUME NEW w \in Workers, Report(w) PROVE SerialInv'
  BY <1>6 DEF Report, Ids, NULL, Init_Buffer
<1>7. ASSUME NEW w \in Workers, Free(w) PROVE SerialInv'
  <2>1. TypeOK'
    <3>1. errmsg # NULL => errmsg \in msgs
      OBVIOUS
    <3> QED
      BY <1>7, <3>1 DEF Free
  <2>2. ~Idle' /\ UsedInExec'
    BY <1>7 DEF Free
  <2>3. ASSUME ~shared' PROVE OneAtATime' /\ HandleOwned' /\ MessageOwned'
    BY <1>7, <2>3 DEF Free
  <2> QED
    BY <1>7, <2>1, <2>2, <2>3 DEF Free
<1>8. ASSUME NEW w \in Workers, CloseCheck(w) PROVE SerialInv'
  BY <1>8 DEF CloseCheck, Ids, NULL, Init_Buffer
<1>9. ASSUME NEW w \in Workers, CloseDb(w) PROVE SerialInv'
  <2>1. TypeOK'
    BY <1>9 DEF CloseDb, Ids, NULL
  <2>2. ~Idle' /\ UsedInExec'
    BY <1>9 DEF CloseDb
  <2>3. closed' \subseteq opened'
    BY <1>9 DEF CloseDb
  <2>4. ASSUME ~shared' PROVE OneAtATime' /\ HandleOwned' /\ MessageOwned'
    <3>1. ~shared /\ pc[w] = "closeDb" /\ db \in opened \ closed
      BY <1>9, <2>4 DEF CloseDb
    <3>2. \A v \in Workers : v # w => pc[v] = "idle" /\ using[v] = NULL
      BY <3>1, Alone
    <3>3. using[w] = NULL /\ db # NULL
      BY <3>1 DEF Ids, NULL
    <3>4. closed' = closed \union {db} /\ UNCHANGED << db, errmsg, msgs, freed >>
      BY <1>9, <3>2, <3>3 DEF CloseDb
    <3> QED
      BY <1>9, <3>1, <3>2, <3>4 DEF CloseDb
  <2> QED
    BY <1>9, <2>1, <2>2, <2>3, <2>4 DEF CloseDb
<1>10. ASSUME NEW w \in Workers, Forget(w) PROVE SerialInv'
  BY <1>10 DEF Forget, Forgotten, Ids, NULL, Init_Buffer
<1> QED
  BY <1>1, <1>2, <1>3, <1>4, <1>5, <1>6, <1>7, <1>8, <1>9, <1>10 DEF Next

(* As long as no two logins overlap a worker owns the handle and the message  *)
(* of the helper, and it does so again after the workers of an overlap have   *)
(* left.                                                                      *)
THEOREM SerialCorrect == Spec => []SerialInv
<1>1. Init => SerialInv
  BY SerialInit
<1>2. SerialInv /\ [Next]_vars => SerialInv'
  BY SerialNext
<1> QED
  BY <1>1, <1>2, PTL DEF Spec

(* A step with no overlap before or after it hands no wrong pointer to SQLite *)
(* and drops no open handle.                                                  *)
LEMMA NoDamage ==
  ASSUME SerialInv, Next, ~shared, ~shared'
  PROVE  misuse' \subseteq misuse /\ Lost' \subseteq Lost
<1> USE DEF SerialInv, TypeOK, HandleOwned, MessageOwned, Go, historyVars, Lost
<1>1. ASSUME NEW w \in Workers, Open(w)
      PROVE misuse' \subseteq misuse /\ Lost' \subseteq Lost
  <2>1. Idle /\ db = NULL
    BY <1>1 DEF Open
  <2> QED
    BY <1>1, <2>1 DEF Open, NULL
<1>2. ASSUME NEW w \in Workers, ExecBegin(w)
      PROVE misuse' \subseteq misuse /\ Lost' \subseteq Lost
  BY <1>2 DEF ExecBegin
<1>3. ASSUME NEW w \in Workers, ExecOk(w)
      PROVE misuse' \subseteq misuse /\ Lost' \subseteq Lost
  BY <1>3 DEF ExecOk
<1>4. ASSUME NEW w \in Workers, ExecError(w)
      PROVE misuse' \subseteq misuse /\ Lost' \subseteq Lost
  BY <1>4 DEF ExecError
<1>5. ASSUME NEW w \in Workers, Report(w)
      PROVE misuse' \subseteq misuse /\ Lost' \subseteq Lost
  BY <1>5 DEF Report
<1>6. ASSUME NEW w \in Workers, Free(w)
      PROVE misuse' \subseteq misuse /\ Lost' \subseteq Lost
  BY <1>6 DEF Free
<1>7. ASSUME NEW w \in Workers, CloseCheck(w)
      PROVE misuse' \subseteq misuse /\ Lost' \subseteq Lost
  BY <1>7 DEF CloseCheck
<1>8. ASSUME NEW w \in Workers, CloseDb(w)
      PROVE misuse' \subseteq misuse /\ Lost' \subseteq Lost
  BY <1>8 DEF CloseDb
<1>9. ASSUME NEW w \in Workers, Forget(w)
      PROVE misuse' \subseteq misuse /\ Lost' \subseteq Lost
  BY <1>9 DEF Forget, Forgotten, NULL
<1> QED
  BY <1>1, <1>2, <1>3, <1>4, <1>5, <1>6, <1>7, <1>8, <1>9 DEF Next

(* No overlap, no damage: what the logins of several workers do to each other *)
(* through m_db and m_errmsg takes two of them in the helper at once, and     *)
(* does not outlast it.                                                       *)
THEOREM DamageIsTheOverlap == Spec => DamageNeedsOverlap
<1>1. SerialInv /\ [Next]_vars
        => [~(shared \/ shared') => misuse' \subseteq misuse /\ Lost' \subseteq Lost]_vars
  BY NoDamage
<1> QED
  BY <1>1, SerialCorrect, PTL DEF Spec, DamageNeedsOverlap
=============================================================================

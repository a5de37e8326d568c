------------------------- MODULE IndexSessionsProofs -------------------------
(***************************************************************************)
(* For every bound on the operations: the IndexView operations never leak *)
(* an implicit session.                                                   *)
(***************************************************************************)
EXTENDS IndexSessions, TLAPS

(* SessionInv holds initially.                                            *)
LEMMA InitSessionInv == Init => SessionInv
  BY MaxOpsAssumption DEF Init, SessionInv, TypeOK, Held, ListPCs, Created, PCs

(* Every step preserves SessionInv: one step per action.                  *)
LEMMA NextSessionInv == SessionInv /\ [Next]_vars => SessionInv'
  <1> SUFFICES ASSUME SessionInv, [Next]_vars PROVE SessionInv'
    OBVIOUS
  <1> USE MaxOpsAssumption DEF SessionInv, TypeOK, Held, ListPCs, Created, PCs
  <1>1. CASE ListStart
    BY <1>1 DEF ListStart, SessionFor
  <1>2. CASE ListValidSession
    BY <1>2 DEF ListValidSession, CloseImplicit, Return
  <1>3. CASE ListExecute
    BY <1>3 DEF ListExecute, CloseImplicit, Return
  <1>4. CASE ListResult
    BY <1>4 DEF ListResult, CloseImplicit, Return
  <1>5. CASE CursorClose
    BY <1>5 DEF CursorClose
  <1>6. CASE WriteStart
    BY <1>6 DEF WriteStart, SessionFor
  <1>7. CASE WriteValidSession
    BY <1>7 DEF WriteValidSession, DeferredEnd, Return
  <1>8. CASE WriteExecute
    BY <1>8 DEF WriteExecute, DeferredEnd, Return
  <1>9. CASE UNCHANGED vars
    BY <1>9 DEF vars
  <1>10. QED
    BY <1>1, <1>2, <1>3, <1>4, <1>5, <1>6, <1>7, <1>8, <1>9 DEF Next

(* SessionInv is an invariant of the specification.                       *)
THEOREM SessionInvHolds == Spec => []SessionInv
  BY InitSessionInv, NextSessionInv, PTL DEF Spec

(* No implicit session created by List, CreateMany or drop outlives the   *)
(* operation, unless it is owned by an open cursor List returned.         *)
THEOREM NoSessionLeakHolds == Spec => []NoSessionLeak
  <1>1. SessionInv => NoSessionLeak
    BY DEF SessionInv, TypeOK, Held, ListPCs, Created, NoSessionLeak
  <1>2. QED
    BY <1>1, SessionInvHolds, PTL
=============================================================================

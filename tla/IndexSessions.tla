---------------------------- MODULE IndexSessions ----------------------------
(***************************************************************************)
(* The session lifecycle of the IndexView operations (src/unnamed/         *)
(* part_000): List, CreateMany (and CreateOne), DropOne and DropAll (through *)
(* drop).  An operation uses the session of its context when there is one, *)
(* otherwise it creates an implicit session from the client's pool.  The   *)
(* implicit session must be ended on every return, unless List hands it    *)
(* to the cursor it returns, which ends it when it is closed.              *)
(*                                                                         *)
(* One caller runs the operations one after another; each step is one     *)
(* early return or one command of the code.  Documents, names and options *)
(* are abstracted to whether their validation or marshalling fails.       *)
(***************************************************************************)
EXTENDS Naturals

CONSTANT MaxOps   \* bound on the operations the caller starts

ASSUME MaxOpsAssumption == MaxOps \in Nat

VARIABLES
    hasPool,   \* the client has a session pool (fixed)
    wcAck,     \* the collection's write concern is acknowledged (fixed)
    pc,        \* "idle" or the step the current operation is at
    sess,      \* the operation's sess variable: "nil", "explicit", "implicit"
    deferred,  \* deferred sess.EndSession() calls registered (0 or 1)
    open,      \* implicit sessions created and not ended
    cursors,   \* open cursors that own an implicit session
    ops        \* operations started

vars == <<hasPool, wcAck, pc, sess, deferred, open, cursors, ops>>

PCs == {"idle", "list_valid", "list_exec", "list_result", "write_valid",
        "write_exec"}

TypeOK ==
    /\ hasPool \in BOOLEAN
    /\ wcAck \in BOOLEAN
    /\ pc \in PCs
    /\ sess \in {"nil", "explicit", "implicit"}
    /\ deferred \in 0..1
    /\ open \in 0..MaxOps
    /\ cursors \in 0..MaxOps
    /\ ops \in 0..MaxOps

Init ==
    /\ hasPool \in BOOLEAN
    /\ wcAck \in BOOLEAN
    /\ pc = "idle"
    /\ sess = "nil"
    /\ deferred = 0
    /\ open = 0
    /\ cursors = 0
    /\ ops = 0

(* sessionFromContext, then NewImplicitClientSession when there is none   *)
(* and the client has a pool.                                             *)
SessionFor(explicit) ==
    IF explicit THEN "explicit" ELSE IF hasPool THEN "implicit" ELSE "nil"

Created(s) == IF s = "implicit" THEN 1 ELSE 0

(* closeImplicitSession(sess): ends sess when it is an implicit session.  *)
CloseImplicit == open' = open - Created(sess)

(* The operation returns to the caller.                                   *)
Return ==
    /\ pc' = "idle"
    /\ sess' = "nil"
    /\ deferred' = 0

-----------------------------------------------------------------------------
(* List: take or create the session, then validSession.                   *)
ListStart ==
    /\ pc = "idle"
    /\ ops < MaxOps
    /\ ops' = ops + 1
    /\ \E explicit \in BOOLEAN :
         /\ sess' = SessionFor(explicit)
         /\ open' = open + Created(SessionFor(explicit))
    /\ pc' = "list_valid"
    /\ UNCHANGED <<hasPool, wcAck, deferred, cursors>>

(* validSession fails only for a session of the context (another client's *)
(* or an ended one): closeImplicitSession and return the error.           *)
ListValidSession ==
    /\ pc = "list_valid"
    /\ \/ /\ sess = "explicit"
          /\ CloseImplicit
          /\ Return
       \/ /\ pc' = "list_exec"
          /\ UNCHANGED <<sess, deferred, open>>
    /\ UNCHANGED <<hasPool, wcAck, cursors, ops>>

(* op.Execute: an error (namespaceNotFound gives an empty cursor with no  *)
(* session, any other is returned) closes the implicit session.  A mutant *)
(* returns the empty cursor before closing it.                            *)
ListExecuteNsNotFoundEarly ==
    /\ pc = "list_exec"
    /\ \E outcome \in {"ok", "namespace_not_found", "error"} :
         IF outcome = "ok"
         THEN /\ pc' = "list_result"
              /\ UNCHANGED <<sess, deferred, open>>
         ELSE /\ IF outcome = "error" THEN CloseImplicit ELSE UNCHANGED open
              /\ Return
    /\ UNCHANGED <<hasPool, wcAck, cursors, ops>>

ListExecute ==
    /\ pc = "list_exec"
    /\ \E outcome \in {"ok", "namespace_not_found", "error"} :
         IF outcome = "ok"
         THEN /\ pc' = "list_result"
              /\ UNCHANGED <<sess, deferred, open>>
         ELSE /\ CloseImplicit
              /\ Return
    /\ UNCHANGED <<hasPool, wcAck, cursors, ops>>

(* op.Result fails: close and return; otherwise newCursorWithSession      *)
(* gives the session to the returned cursor.                              *)
ListResult ==
    /\ pc = "list_result"
    /\ \/ /\ CloseImplicit
          /\ UNCHANGED cursors
       \/ /\ cursors' = cursors + Created(sess)
          /\ UNCHANGED open
    /\ Return
    /\ UNCHANGED <<hasPool, wcAck, ops>>

(* The caller closes a cursor; Cursor.Close ends its implicit session.    *)
CursorClose ==
    /\ cursors > 0
    /\ cursors' = cursors - 1
    /\ open' = open - 1
    /\ UNCHANGED <<hasPool, wcAck, pc, sess, deferred, ops>>

-----------------------------------------------------------------------------
(* CreateMany, DropOne and DropAll.  CreateMany's loop over the models    *)
(* (nil keys, an unordered map, marshal, getOrGenerateIndexName, the      *)
(* options document) and DropOne's "*" check return before any session;   *)
(* otherwise the session is taken or created, with defer EndSession for   *)
(* an implicit one.                                                       *)
WriteStart ==
    /\ pc = "idle"
    /\ ops < MaxOps
    /\ ops' = ops + 1
    /\ \/ UNCHANGED <<pc, sess, deferred, open>>
       \/ \E explicit \in BOOLEAN :
            /\ sess' = SessionFor(explicit)
            /\ deferred' = Created(SessionFor(explicit))
            /\ open' = open + Created(SessionFor(explicit))
            /\ pc' = "write_valid"
    /\ UNCHANGED <<hasPool, wcAck, cursors>>

(* The deferred EndSession runs when the operation returns, whatever sess *)
(* holds by then.  A mutant ends the session sess holds at the return.    *)
EndCurrentOnReturn == open' = open - Created(sess)

DeferredEnd == open' = open - deferred

(* validSession fails (a session of the context): return.  Otherwise an   *)
(* unacknowledged write concern sets sess to nil before the command is    *)
(* built.                                                                 *)
WriteValidSession ==
    /\ pc = "write_valid"
    /\ \/ /\ sess = "explicit"
          /\ DeferredEnd
          /\ Return
       \/ /\ pc' = "write_exec"
          /\ sess' = IF wcAck THEN sess ELSE "nil"
          /\ UNCHANGED <<deferred, open>>
    /\ UNCHANGED <<hasPool, wcAck, cursors, ops>>

(* The commit quorum's marshalling and op.Execute: any outcome returns.   *)
WriteExecute ==
    /\ pc = "write_exec"
    /\ DeferredEnd
    /\ Return
    /\ UNCHANGED <<hasPool, wcAck, cursors, ops>>

Next ==
    \/ ListStart \/ ListValidSession \/ ListExecute \/ ListResult
    \/ CursorClose
    \/ WriteStart \/ WriteValidSession \/ WriteExecute

Spec == Init /\ [][Next]_vars

-----------------------------------------------------------------------------
(* No implicit session leaks: whenever no operation is running, the       *)
(* implicit sessions not yet ended are exactly those of the open cursors  *)
(* List returned, on every path through List, CreateMany and drop,        *)
(* including the early returns and a write concern that clears sess.      *)
NoSessionLeak == pc = "idle" => open = cursors

-----------------------------------------------------------------------------
(* The inductive invariant of IndexSessionsProofs: the open implicit      *)
(* sessions are the open cursors' and the one the running operation will  *)
(* end (List's while sess is implicit, a write's while its defer is       *)
(* registered), and no more than the operations started.                  *)
ListPCs == {"list_valid", "list_exec", "list_result"}

Held ==
    IF pc \in ListPCs THEN Created(sess)
    ELSE IF pc \in {"write_valid", "write_exec"} THEN deferred ELSE 0

SessionInv ==
    /\ TypeOK
    /\ open = cursors + Held
    /\ open <= ops
    /\ pc = "idle" => deferred = 0
    /\ pc = "write_valid" => deferred = Created(sess)
    /\ pc \in ListPCs => deferred = 0

=============================================================================

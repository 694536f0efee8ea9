------------------------- MODULE RegistrationProofs -------------------------
(***************************************************************************)
(* Theorems about Registration for any number of requests, e-mails, user   *)
(* names and faults.                                                       *)
(***************************************************************************)
EXTENDS Registration, TLAPS

\* A request at work under the lock holds it, unless it has lapsed.
HoldsUnlessLapsed ==
  \A r \in Req : Locked(r) => lock[email[r]] = r \/ r \in lapsed

\* Nobody lapses before some lock of the e-mail has run out.
LapsedOverrun == \A r \in lapsed : email[r] \in overrun

\* The lock of an e-mail is held for that e-mail, and given back by a
\* verification only.
LockOf ==
  /\ \A e \in Email, r \in Req : lock[e] = r => email[r] = e
  /\ \A r \in Req : pc[r] = "unlock" => path[r] = "otp"

\* How far a request has come with its user, by what it does next.
UserByStep ==
  \A r \in Req :
    /\ pc[r] = "password" => user[r] = "bare"
    /\ pc[r] = "login" => user[r] = "complete"
    /\ pc[r] \notin {"password", "login", "unlock", "done"} => user[r] = "none"
    /\ pc[r] # "done" => result[r] = "none"

\* CreateUser refuses an e-mail or a user name that is taken.
Distinct ==
  \A r, q \in Req : r # q /\ user[r] # "none" /\ user[q] # "none" =>
    email[r] # email[q] /\ name[r] # name[q]

\* Whoever has a lock is a verification that has come as far as the lock: it is
\* registering, or is at its end.
InCharge(q) ==
  path[q] = "otp"
    /\ (pc[q] \in Section \/ result[q] \in {"registered", "failed", "crashed"})
LockInCharge ==
  /\ \A r \in Req : pc[r] \in {"read", "consume", "lock"} => path[r] = "otp"
  /\ \A e \in Email, r \in Req : lock[e] = r => InCharge(r)

IInv ==
  /\ TypeOK
  /\ HoldsUnlessLapsed
  /\ LapsedOverrun
  /\ LockOf
  /\ UserByStep
  /\ Distinct
  /\ AnswersTrue
  /\ LockInCharge
  /\ BusyForAReason

-----------------------------------------------------------------------------
\* The invariant holds at the start.
LEMMA InitInv == Init => IInv
BY FaultAssumption, FreeAssumption
   DEF Init, IInv, TypeOK, HoldsUnlessLapsed, LapsedOverrun, LockOf, UserByStep,
       Distinct, AnswersTrue, LockInCharge, BusyForAReason, Locked, Section, User, Result

\* Every step preserves the types.
LEMMA StepType == TypeOK /\ [Next]_vars => TypeOK'
<1> SUFFICES ASSUME TypeOK, [Next]_vars PROVE TypeOK'
  OBVIOUS
<1> USE FaultAssumption
        DEF TypeOK, Section, User, Result, inputs, history, Goto, Answer, Fault
<1>1. ASSUME NEW r \in Req, Begin(r) PROVE TypeOK'
  BY <1>1 DEF Begin, Send, Verify, Direct, Start
<1>2. ASSUME NEW r \in Req,
             Lookup(r) \/ LookupFails(r) \/ StoreCode(r) \/ StoreCodeFails(r)
               \/ MailCode(r)
      PROVE  TypeOK'
  <2>1. CASE Lookup(r)
    <3>1. Registered(email[r]) \in BOOLEAN
      BY DEF Registered
    <3> QED
      BY <2>1, <3>1 DEF Lookup
  <2>2. CASE LookupFails(r)
    <3>1. Registered(email[r]) \in BOOLEAN
      BY DEF Registered
    <3> QED
      BY <2>2, <3>1 DEF LookupFails
  <2>3. CASE StoreCode(r)
    BY <2>3 DEF StoreCode
  <2>4. CASE StoreCodeFails(r)
    BY <2>4 DEF StoreCodeFails
  <2>5. CASE MailCode(r)
    BY <2>5 DEF MailCode
  <2> QED
    BY <1>2, <2>1, <2>2, <2>3, <2>4, <2>5
<1>3. ASSUME NEW r \in Req, ReadCode(r) \/ ConsumeCode(r) PROVE TypeOK'
  BY <1>3 DEF ReadCode, ConsumeCode
<1>4. ASSUME NEW r \in Req, TakeLock(r) \/ TakeLockFails(r) PROVE TypeOK'
  BY <1>4 DEF TakeLock, TakeLockFails
<1>5. ASSUME NEW r \in Req, CreateUser(r) \/ CreateUserFails(r) PROVE TypeOK'
  BY <1>5 DEF CreateUser, CreateUserFails, Fail
<1>6. ASSUME NEW r \in Req, SetPassword(r) \/ SetPasswordFails(r) PROVE TypeOK'
  BY <1>6 DEF SetPassword, SetPasswordFails, Fail
<1>7. ASSUME NEW r \in Req, LoginNew(r) PROVE TypeOK'
  BY <1>7 DEF LoginNew, Fail
<1>8. ASSUME NEW r \in Req, Unlock(r) \/ UnlockFails(r) PROVE TypeOK'
  BY <1>8 DEF Unlock, UnlockFails, Release
<1>9. ASSUME NEW r \in Req, Crash(r) PROVE TypeOK'
  BY <1>9 DEF Crash
<1>10. ASSUME NEW e \in Email, ExpireLock(e) \/ ExpireCode(e) PROVE TypeOK'
  BY <1>10 DEF ExpireLock, ExpireCode, Release
<1>11. CASE UNCHANGED vars
  BY <1>11 DEF vars
<1> QED
  BY <1>1, <1>2, <1>3, <1>4, <1>5, <1>6, <1>7, <1>8, <1>9, <1>10, <1>11
     DEF Next, Call

\* SetNX writes a request under its own e-mail.
LEMMA StepLockOf == TypeOK /\ LockOf /\ [Next]_vars => LockOf'
<1> SUFFICES ASSUME TypeOK, LockOf, [Next]_vars PROVE LockOf'
  OBVIOUS
<1> USE FreeAssumption
        DEF TypeOK, LockOf, Section, inputs, history, Goto, Answer, Fault
<1>1. ASSUME NEW r \in Req, Begin(r) PROVE LockOf'
  BY <1>1 DEF Begin, Send, Verify, Direct, Start
<1>2. ASSUME NEW r \in Req, Lookup(r) \/ LookupFails(r) PROVE LockOf'
  BY <1>2 DEF Lookup, LookupFails
<1>3. ASSUME NEW r \in Req, StoreCode(r) \/ StoreCodeFails(r) \/ MailCode(r) PROVE LockOf'
  BY <1>3 DEF StoreCode, StoreCodeFails, MailCode
<1>4. ASSUME NEW r \in Req, ReadCode(r) \/ ConsumeCode(r) PROVE LockOf'
  BY <1>4 DEF ReadCode, ConsumeCode
<1>5. ASSUME NEW r \in Req, TakeLock(r) PROVE LockOf'
  BY <1>5 DEF TakeLock
<1>6. ASSUME NEW r \in Req, TakeLockFails(r) PROVE LockOf'
  BY <1>6 DEF TakeLockFails
<1>7. ASSUME NEW r \in Req, CreateUser(r) PROVE LockOf'
  BY <1>7 DEF CreateUser, Fail
<1>8. ASSUME NEW r \in Req, CreateUserFails(r) PROVE LockOf'
  BY <1>8 DEF CreateUserFails, Fail
<1>9. ASSUME NEW r \in Req, SetPassword(r) PROVE LockOf'
  BY <1>9 DEF SetPassword, Fail
<1>10. ASSUME NEW r \in Req, SetPasswordFails(r) PROVE LockOf'
  BY <1>10 DEF SetPasswordFails, Fail
<1>11. ASSUME NEW r \in Req, LoginNew(r) PROVE LockOf'
  BY <1>11 DEF LoginNew, Fail
<1>12. ASSUME NEW r \in Req, Unlock(r) PROVE LockOf'
  BY <1>12 DEF Unlock, Release
<1>13. ASSUME NEW r \in Req, UnlockFails(r) PROVE LockOf'
  BY <1>13 DEF UnlockFails
<1>14. ASSUME NEW r \in Req, Crash(r) PROVE LockOf'
  BY <1>14 DEF Crash
<1>15. ASSUME NEW e \in Email, ExpireLock(e) PROVE LockOf'
  BY <1>15 DEF ExpireLock, Release
<1>16. ASSUME NEW e \in Email, ExpireCode(e) PROVE LockOf'
  BY <1>16 DEF ExpireCode
<1>17. CASE UNCHANGED vars
  BY <1>17 DEF vars
<1> QED
  BY <1>1, <1>2, <1>3, <1>4, <1>5, <1>6, <1>7, <1>8, <1>9, <1>10, <1>11, <1>12, <1>13, <1>14, <1>15, <1>16, <1>17
     DEF Next, Call

\* SetNX finds no holder to displace; a lock that is deleted or runs out makes
\* its holder lapse.
LEMMA StepHolds == TypeOK /\ LockOf /\ HoldsUnlessLapsed /\ [Next]_vars => HoldsUnlessLapsed'
<1> SUFFICES ASSUME TypeOK, LockOf, HoldsUnlessLapsed, [Next]_vars PROVE HoldsUnlessLapsed'
  OBVIOUS
<1> USE FreeAssumption
        DEF TypeOK, LockOf, HoldsUnlessLapsed, Locked, Section, inputs, history,
            Goto, Answer, Fault
<1>1. ASSUME NEW r \in Req, Begin(r) PROVE HoldsUnlessLapsed'
  BY <1>1 DEF Begin, Send, Verify, Direct, Start
<1>2. ASSUME NEW r \in Req, Lookup(r) \/ LookupFails(r) PROVE HoldsUnlessLapsed'
  BY <1>2 DEF Lookup, LookupFails
<1>3. ASSUME NEW r \in Req, StoreCode(r) \/ StoreCodeFails(r) \/ MailCode(r) PROVE HoldsUnlessLapsed'
  BY <1>3 DEF StoreCode, StoreCodeFails, MailCode
<1>4. ASSUME NEW r \in Req, ReadCode(r) \/ ConsumeCode(r) PROVE HoldsUnlessLapsed'
  BY <1>4 DEF ReadCode, ConsumeCode
<1>5. ASSUME NEW r \in Req, TakeLock(r) PROVE HoldsUnlessLapsed'
  BY <1>5 DEF TakeLock
<1>6. ASSUME NEW r \in Req, TakeLockFails(r) PROVE HoldsUnlessLapsed'
  BY <1>6 DEF TakeLockFails
<1>7. ASSUME NEW r \in Req, CreateUser(r) PROVE HoldsUnlessLapsed'
  BY <1>7 DEF CreateUser, Fail
<1>8. ASSUME NEW r \in Req, CreateUserFails(r) PROVE HoldsUnlessLapsed'
  BY <1>8 DEF CreateUserFails, Fail
<1>9. ASSUME NEW r \in Req, SetPassword(r) PROVE HoldsUnlessLapsed'
  BY <1>9 DEF SetPassword, Fail
<1>10. ASSUME NEW r \in Req, SetPasswordFails(r) PROVE HoldsUnlessLapsed'
  BY <1>10 DEF SetPasswordFails, Fail
<1>11. ASSUME NEW r \in Req, LoginNew(r) PROVE HoldsUnlessLapsed'
  BY <1>11 DEF LoginNew, Fail
<1>12. ASSUME NEW r \in Req, Unlock(r) PROVE HoldsUnlessLapsed'
  BY <1>12 DEF Unlock, Release
<1>13. ASSUME NEW r \in Req, UnlockFails(r) PROVE HoldsUnlessLapsed'
  BY <1>13 DEF UnlockFails
<1>14. ASSUME NEW r \in Req, Crash(r) PROVE HoldsUnlessLapsed'
  BY <1>14 DEF Crash
<1>15. ASSUME NEW e \in Email, ExpireLock(e) PROVE HoldsUnlessLapsed'
  BY <1>15 DEF ExpireLock, Release
<1>16. ASSUME NEW e \in Email, ExpireCode(e) PROVE HoldsUnlessLapsed'
  BY <1>16 DEF ExpireCode
<1>17. CASE UNCHANGED vars
  BY <1>17 DEF vars
<1> QED
  BY <1>1, <1>2, <1>3, <1>4, <1>5, <1>6, <1>7, <1>8, <1>9, <1>10, <1>11, <1>12, <1>13, <1>14, <1>15, <1>16, <1>17
     DEF Next, Call

\* A request that deletes the lock of another has lost its own before.
LEMMA StepLapsed == TypeOK /\ LockOf /\ HoldsUnlessLapsed /\ LapsedOverrun /\ [Next]_vars => LapsedOverrun'
<1> SUFFICES ASSUME TypeOK, LockOf, HoldsUnlessLapsed, LapsedOverrun, [Next]_vars PROVE LapsedOverrun'
  OBVIOUS
<1> USE FreeAssumption
        DEF TypeOK, LockOf, HoldsUnlessLapsed, LapsedOverrun, Locked, Section,
            inputs, history, Goto, Answer, Fault
<1>1. ASSUME NEW r \in Req, Begin(r) PROVE LapsedOverrun'
  BY <1>1 DEF Begin, Send, Verify, Direct, Start
<1>2. ASSUME NEW r \in Req, Lookup(r) \/ LookupFails(r) PROVE LapsedOverrun'
  BY <1>2 DEF Lookup, LookupFails
<1>3. ASSUME NEW r \in Req, StoreCode(r) \/ StoreCodeFails(r) \/ MailCode(r) PROVE LapsedOverrun'
  BY <1>3 DEF StoreCode, StoreCodeFails, MailCode
<1>4. ASSUME NEW r \in Req, ReadCode(r) \/ ConsumeCode(r) PROVE LapsedOverrun'
  BY <1>4 DEF ReadCode, ConsumeCode
<1>5. ASSUME NEW r \in Req, TakeLock(r) PROVE LapsedOverrun'
  BY <1>5 DEF TakeLock
<1>6. ASSUME NEW r \in Req, TakeLockFails(r) PROVE LapsedOverrun'
  BY <1>6 DEF TakeLockFails
<1>7. ASSUME NEW r \in Req, CreateUser(r) PROVE LapsedOverrun'
  BY <1>7 DEF CreateUser, Fail
<1>8. ASSUME NEW r \in Req, CreateUserFails(r) PROVE LapsedOverrun'
  BY <1>8 DEF CreateUserFails, Fail
<1>9. ASSUME NEW r \in Req, SetPassword(r) PROVE LapsedOverrun'
  BY <1>9 DEF SetPassword, Fail
<1>10. ASSUME NEW r \in Req, SetPasswordFails(r) PROVE LapsedOverrun'
  BY <1>10 DEF SetPasswordFails, Fail
<1>11. ASSUME NEW r \in Req, LoginNew(r) PROVE LapsedOverrun'
  BY <1>11 DEF LoginNew, Fail
<1>12. ASSUME NEW r \in Req, Unlock(r) PROVE LapsedOverrun'
  BY <1>12 DEF Unlock, Release
<1>13. ASSUME NEW r \in Req, UnlockFails(r) PROVE LapsedOverrun'
  BY <1>13 DEF UnlockFails
<1>14. ASSUME NEW r \in Req, Crash(r) PROVE LapsedOverrun'
  BY <1>14 DEF Crash
<1>15. ASSUME NEW e \in Email, ExpireLock(e) PROVE LapsedOverrun'
  BY <1>15 DEF ExpireLock, Release
<1>16. ASSUME NEW e \in Email, ExpireCode(e) PROVE LapsedOverrun'
  BY <1>16 DEF ExpireCode
<1>17. CASE UNCHANGED vars
  BY <1>17 DEF vars
<1> QED
  BY <1>1, <1>2, <1>3, <1>4, <1>5, <1>6, <1>7, <1>8, <1>9, <1>10, <1>11, <1>12, <1>13, <1>14, <1>15, <1>16, <1>17
     DEF Next, Call

\* Only the request itself changes its user, by CreateUser and SetPassword.
LEMMA StepUserByStep == TypeOK /\ UserByStep /\ [Next]_vars => UserByStep'
<1> SUFFICES ASSUME TypeOK, UserByStep, [Next]_vars PROVE UserByStep'
  OBVIOUS
<1> USE DEF TypeOK, UserByStep, Section, User, inputs, history, Goto, Answer, Fault
<1>1. ASSUME NEW r \in Req, Begin(r) PROVE UserByStep'
  BY <1>1 DEF Begin, Send, Verify, Direct, Start
<1>2. ASSUME NEW r \in Req, Lookup(r) \/ LookupFails(r) PROVE UserByStep'
  BY <1>2 DEF Lookup, LookupFails
<1>3. ASSUME NEW r \in Req, StoreCode(r) \/ StoreCodeFails(r) \/ MailCode(r) PROVE UserByStep'
  BY <1>3 DEF StoreCode, StoreCodeFails, MailCode
<1>4. ASSUME NEW r \in Req, ReadCode(r) \/ ConsumeCode(r) PROVE UserByStep'
  BY <1>4 DEF ReadCode, ConsumeCode
<1>5. ASSUME NEW r \in Req, TakeLock(r) PROVE UserByStep'
  BY <1>5 DEF TakeLock
<1>6. ASSUME NEW r \in Req, TakeLockFails(r) PROVE UserByStep'
  BY <1>6 DEF TakeLockFails
<1>7. ASSUME NEW r \in Req, CreateUser(r) PROVE UserByStep'
  BY <1>7 DEF CreateUser, Fail
<1>8. ASSUME NEW r \in Req, CreateUserFails(r) PROVE UserByStep'
  BY <1>8 DEF CreateUserFails, Fail
<1>9. ASSUME NEW r \in Req, SetPassword(r) PROVE UserByStep'
  BY <1>9 DEF SetPassword, Fail
<1>10. ASSUME NEW r \in Req, SetPasswordFails(r) PROVE UserByStep'
  BY <1>10 DEF SetPasswordFails, Fail
<1>11. ASSUME NEW r \in Req, LoginNew(r) PROVE UserByStep'
  BY <1>11 DEF LoginNew, Fail
<1>12. ASSUME NEW r \in Req, Unlock(r) PROVE UserByStep'
  BY <1>12 DEF Unlock, Release
<1>13. ASSUME NEW r \in Req, UnlockFails(r) PROVE UserByStep'
  BY <1>13 DEF UnlockFails
<1>14. ASSUME NEW r \in Req, Crash(r) PROVE UserByStep'
  BY <1>14 DEF Crash
<1>15. ASSUME NEW e \in Email, ExpireLock(e) PROVE UserByStep'
  BY <1>15 DEF ExpireLock, Release
<1>16. ASSUME NEW e \in Email, ExpireCode(e) PROVE UserByStep'
  BY <1>16 DEF ExpireCode
<1>17. CASE UNCHANGED vars
  BY <1>17 DEF vars
<1> QED
  BY <1>1, <1>2, <1>3, <1>4, <1>5, <1>6, <1>7, <1>8, <1>9, <1>10, <1>11, <1>12, <1>13, <1>14, <1>15, <1>16, <1>17
     DEF Next, Call

\* An answer is given at a step that knows what has become of the user.
LEMMA StepAnswers == TypeOK /\ UserByStep /\ AnswersTrue /\ [Next]_vars => AnswersTrue'
<1> SUFFICES ASSUME TypeOK, UserByStep, AnswersTrue, [Next]_vars PROVE AnswersTrue'
  OBVIOUS
<1> USE DEF TypeOK, UserByStep, AnswersTrue, Section, User, inputs, history, Goto,
            Answer, Fault
<1>1. ASSUME NEW r \in Req, Begin(r) PROVE AnswersTrue'
  BY <1>1 DEF Begin, Send, Verify, Direct, Start
<1>2. ASSUME NEW r \in Req, Lookup(r) \/ LookupFails(r) PROVE AnswersTrue'
  BY <1>2 DEF Lookup, LookupFails
<1>3. ASSUME NEW r \in Req, StoreCode(r) \/ StoreCodeFails(r) \/ MailCode(r) PROVE AnswersTrue'
  BY <1>3 DEF StoreCode, StoreCodeFails, MailCode
<1>4. ASSUME NEW r \in Req, ReadCode(r) \/ ConsumeCode(r) PROVE AnswersTrue'
  BY <1>4 DEF ReadCode, ConsumeCode
<1>5. ASSUME NEW r \in Req, TakeLock(r) PROVE AnswersTrue'
  BY <1>5 DEF TakeLock
<1>6. ASSUME NEW r \in Req, TakeLockFails(r) PROVE AnswersTrue'
  BY <1>6 DEF TakeLockFails
<1>7. ASSUME NEW r \in Req, CreateUser(r) PROVE AnswersTrue'
  BY <1>7 DEF CreateUser, Fail
<1>8. ASSUME NEW r \in Req, CreateUserFails(r) PROVE AnswersTrue'
  BY <1>8 DEF CreateUserFails, Fail
<1>9. ASSUME NEW r \in Req, SetPassword(r) PROVE AnswersTrue'
  BY <1>9 DEF SetPassword, Fail
<1>10. ASSUME NEW r \in Req, SetPasswordFails(r) PROVE AnswersTrue'
  BY <1>10 DEF SetPasswordFails, Fail
<1>11. ASSUME NEW r \in Req, LoginNew(r) PROVE AnswersTrue'
  BY <1>11 DEF LoginNew, Fail
<1>12. ASSUME NEW r \in Req, Unlock(r) PROVE AnswersTrue'
  BY <1>12 DEF Unlock, Release
<1>13. ASSUME NEW r \in Req, UnlockFails(r) PROVE AnswersTrue'
  BY <1>13 DEF UnlockFails
<1>14. ASSUME NEW r \in Req, Crash(r) PROVE AnswersTrue'
  BY <1>14 DEF Crash
<1>15. ASSUME NEW e \in Email, ExpireLock(e) PROVE AnswersTrue'
  BY <1>15 DEF ExpireLock, Release
<1>16. ASSUME NEW e \in Email, ExpireCode(e) PROVE AnswersTrue'
  BY <1>16 DEF ExpireCode
<1>17. CASE UNCHANGED vars
  BY <1>17 DEF vars
<1> QED
  BY <1>1, <1>2, <1>3, <1>4, <1>5, <1>6, <1>7, <1>8, <1>9, <1>10, <1>11, <1>12, <1>13, <1>14, <1>15, <1>16, <1>17
     DEF Next, Call

\* CreateUser makes a user only when there is no conflict.
LEMMA StepDistinct == TypeOK /\ UserByStep /\ Distinct /\ [Next]_vars => Distinct'
<1> SUFFICES ASSUME TypeOK, UserByStep, Distinct, [Next]_vars PROVE Distinct'
  OBVIOUS
<1> USE DEF TypeOK, UserByStep, Distinct, Conflict, Section, User, inputs, history,
            Goto, Answer, Fault
<1>1. ASSUME NEW r \in Req, Begin(r) PROVE Distinct'
  BY <1>1 DEF Begin, Send, Verify, Direct, Start
<1>2. ASSUME NEW r \in Req, Lookup(r) \/ LookupFails(r) PROVE Distinct'
  BY <1>2 DEF Lookup, LookupFails
<1>3. ASSUME NEW r \in Req, StoreCode(r) \/ StoreCodeFails(r) \/ MailCode(r) PROVE Distinct'
  BY <1>3 DEF StoreCode, StoreCodeFails, MailCode
<1>4. ASSUME NEW r \in Req, ReadCode(r) \/ ConsumeCode(r) PROVE Distinct'
  BY <1>4 DEF ReadCode, ConsumeCode
<1>5. ASSUME NEW r \in Req, TakeLock(r) PROVE Distinct'
  BY <1>5 DEF TakeLock
<1>6. ASSUME NEW r \in Req, TakeLockFails(r) PROVE Distinct'
  BY <1>6 DEF TakeLockFails
<1>7. ASSUME NEW r \in Req, CreateUser(r) PROVE Distinct'
  BY <1>7 DEF CreateUser, Fail
<1>8. ASSUME NEW r \in Req, CreateUserFails(r) PROVE Distinct'
  BY <1>8 DEF CreateUserFails, Fail
<1>9. ASSUME NEW r \in Req, SetPassword(r) PROVE Distinct'
  BY <1>9 DEF SetPassword, Fail
<1>10. ASSUME NEW r \in Req, SetPasswordFails(r) PROVE Distinct'
  BY <1>10 DEF SetPasswordFails, Fail
<1>11. ASSUME NEW r \in Req, LoginNew(r) PROVE Distinct'
  BY <1>11 DEF LoginNew, Fail
<1>12. ASSUME NEW r \in Req, Unlock(r) PROVE Distinct'
  BY <1>12 DEF Unlock, Release
<1>13. ASSUME NEW r \in Req, UnlockFails(r) PROVE Distinct'
  BY <1>13 DEF UnlockFails
<1>14. ASSUME NEW r \in Req, Crash(r) PROVE Distinct'
  BY <1>14 DEF Crash
<1>15. ASSUME NEW e \in Email, ExpireLock(e) PROVE Distinct'
  BY <1>15 DEF ExpireLock, Release
<1>16. ASSUME NEW e \in Email, ExpireCode(e) PROVE Distinct'
  BY <1>16 DEF ExpireCode
<1>17. CASE UNCHANGED vars
  BY <1>17 DEF vars
<1> QED
  BY <1>1, <1>2, <1>3, <1>4, <1>5, <1>6, <1>7, <1>8, <1>9, <1>10, <1>11, <1>12, <1>13, <1>14, <1>15, <1>16, <1>17
     DEF Next, Call

\* A verification in charge goes on under the lock to an end, and stays there.
LEMMA InChargeStays ==
  ASSUME TypeOK, [Next]_vars, NEW q \in Req, InCharge(q)
  PROVE  InCharge(q)'
<1> USE DEF TypeOK, InCharge, Section, inputs, history, Goto, Answer
<1>1. ASSUME NEW r \in Req, Begin(r) PROVE InCharge(q)'
  BY <1>1 DEF Begin, Send, Verify, Direct, Start
<1>2. ASSUME NEW r \in Req,
             Lookup(r) \/ LookupFails(r) \/ StoreCode(r) \/ StoreCodeFails(r)
               \/ MailCode(r) \/ ReadCode(r) \/ ConsumeCode(r)
      PROVE  InCharge(q)'
  BY <1>2 DEF Lookup, LookupFails, StoreCode, StoreCodeFails, MailCode, ReadCode,
              ConsumeCode
<1>3. ASSUME NEW r \in Req, TakeLock(r) \/ TakeLockFails(r) PROVE InCharge(q)'
  BY <1>3 DEF TakeLock, TakeLockFails
<1>4. ASSUME NEW r \in Req, CreateUser(r) \/ CreateUserFails(r) PROVE InCharge(q)'
  BY <1>4 DEF CreateUser, CreateUserFails, Fail
<1>5. ASSUME NEW r \in Req, SetPassword(r) \/ SetPasswordFails(r) PROVE InCharge(q)'
  BY <1>5 DEF SetPassword, SetPasswordFails, Fail
<1>6. ASSUME NEW r \in Req, LoginNew(r) PROVE InCharge(q)'
  BY <1>6 DEF LoginNew, Fail
<1>7. ASSUME NEW r \in Req, Unlock(r) \/ UnlockFails(r) \/ Crash(r) PROVE InCharge(q)'
  BY <1>7 DEF Unlock, UnlockFails, Crash, Release
<1>8. ASSUME NEW e \in Email, ExpireLock(e) \/ ExpireCode(e) PROVE InCharge(q)'
  BY <1>8 DEF ExpireLock, ExpireCode, Release
<1>9. CASE UNCHANGED vars
  BY <1>9 DEF vars
<1> QED
  BY <1>1, <1>2, <1>3, <1>4, <1>5, <1>6, <1>7, <1>8, <1>9 DEF Next, Call

\* SetNX gives a lock to a verification, which is in charge from then on: it
\* creates its user, or has lost the reply and is told so.
LEMMA StepInCharge == TypeOK /\ LockInCharge /\ [Next]_vars => LockInCharge'
<1> SUFFICES ASSUME TypeOK, LockInCharge, [Next]_vars PROVE LockInCharge'
  OBVIOUS
<1> USE DEF inputs, history, Goto, Answer
<1>1. ASSUME NEW r \in Req, pc'[r] \in {"read", "consume", "lock"} PROVE path'[r] = "otp"
  BY <1>1
     DEF TypeOK, LockInCharge, Next, Begin, Call, Send, Verify, Direct, Start, Lookup,
         LookupFails, StoreCode, StoreCodeFails, MailCode, ReadCode, ConsumeCode,
         TakeLock, TakeLockFails, CreateUser, CreateUserFails, SetPassword,
         SetPasswordFails, LoginNew, Fail, Unlock, UnlockFails, Crash, ExpireLock,
         ExpireCode, Release, vars, Section
<1>2. ASSUME NEW e \in Email, NEW r \in Req, lock'[e] = r, lock[e] # r
      PROVE  TakeLock(r) \/ TakeLockFails(r)
  <2> USE FreeAssumption DEF TypeOK
  <2>1. ASSUME NEW q \in Req, TakeLock(q) \/ TakeLockFails(q)
        PROVE  TakeLock(r) \/ TakeLockFails(r)
    BY <1>2, <2>1 DEF TakeLock, TakeLockFails
  <2>2. ASSUME NEW q \in Req, Unlock(q) PROVE FALSE
    BY <1>2, <2>2 DEF Unlock, Release
  <2>3. ASSUME NEW f \in Email, ExpireLock(f) PROVE FALSE
    BY <1>2, <2>3 DEF ExpireLock, Release
  <2> QED
    BY <1>2, <2>1, <2>2, <2>3
       DEF Next, Begin, Call, Send, Verify, Direct, Start, Lookup, LookupFails, StoreCode,
           StoreCodeFails, MailCode, ReadCode, ConsumeCode, CreateUser, CreateUserFails,
           SetPassword, SetPasswordFails, LoginNew, UnlockFails, Crash, ExpireCode, vars
<1>3. ASSUME NEW e \in Email, NEW r \in Req, lock'[e] = r
      PROVE  InCharge(r)'
  <2>1. CASE lock[e] = r
    BY <2>1, InChargeStays DEF LockInCharge
  <2>2. CASE lock[e] # r
    <3>1. TakeLock(r) \/ TakeLockFails(r)
      BY <1>2, <1>3, <2>2
    <3>2. /\ pc[r] = "lock" /\ path'[r] = path[r]
          /\ pc'[r] = "create" \/ result'[r] = "failed" \/ lock' = lock
      BY <3>1 DEF TakeLock, TakeLockFails, TypeOK
    <3> QED
      BY <1>3, <2>2, <3>2 DEF LockInCharge, InCharge, Section
  <2> QED
    BY <2>1, <2>2
<1> QED
  BY <1>1, <1>3 DEF LockInCharge

\* "busy" is answered by SetNX, to a request that finds another in charge.
LEMMA StepBusy ==
  TypeOK /\ UserByStep /\ LockOf /\ LockInCharge /\ BusyForAReason /\ [Next]_vars
    => BusyForAReason'
<1> SUFFICES ASSUME TypeOK, UserByStep, LockOf, LockInCharge, BusyForAReason, [Next]_vars,
                    NEW r \in Req, result'[r] = "busy"
             PROVE  \E q \in Req \ {r} : email'[q] = email'[r] /\ InCharge(q)'
  BY DEF BusyForAReason, InCharge, Locked
<1>1. email' = email
  BY DEF Next, Begin, Call, Send, Verify, Direct, Start, Lookup, LookupFails, StoreCode,
         StoreCodeFails, MailCode, ReadCode, ConsumeCode, TakeLock, TakeLockFails,
         CreateUser, CreateUserFails, SetPassword, SetPasswordFails, LoginNew, Unlock,
         UnlockFails, Crash, ExpireLock, ExpireCode, Release, vars, inputs
<1>2. CASE result[r] = "busy"
  <2>1. PICK q \in Req \ {r} : email[q] = email[r] /\ InCharge(q)
    BY <1>2 DEF BusyForAReason, InCharge, Locked
  <2> QED
    BY <1>1, <2>1, InChargeStays
<1>3. CASE result[r] # "busy"
  <2>1. TakeLock(r) /\ lock[email[r]] # Free
    BY <1>3
       DEF TypeOK, Next, Begin, Call, Send, Verify, Direct, Start, Lookup, LookupFails,
           StoreCode, StoreCodeFails, MailCode, ReadCode, ConsumeCode, TakeLock,
           TakeLockFails, CreateUser, CreateUserFails, SetPassword, SetPasswordFails,
           LoginNew, Fail, Unlock, UnlockFails, Crash, ExpireLock, ExpireCode, vars,
           Goto, Answer
  <2>2. PICK q \in Req : lock[email[r]] = q
    BY <2>1 DEF TypeOK
  <2>3. email[q] = email[r] /\ InCharge(q)
    BY <2>2 DEF LockOf, LockInCharge, TypeOK
  <2>4. q # r
    BY <2>1, <2>3 DEF InCharge, Section, TakeLock, UserByStep
  <2> QED
    BY <1>1, <2>3, <2>4, InChargeStays
<1> QED
  BY <1>2, <1>3

-----------------------------------------------------------------------------
(***************************************************************************)
(* The strengthened invariant holds of every reachable state.              *)
(***************************************************************************)
THEOREM Invariance == Spec => []IInv
<1>1. IInv /\ [Next]_vars => IInv'
  BY StepType, StepLockOf, StepHolds, StepLapsed, StepUserByStep, StepAnswers,
     StepDistinct, StepInCharge, StepBusy DEF IInv
<1> QED
  BY InitInv, <1>1, PTL DEF Spec

\* Every reachable state of registration has the types of TypeOK.
THEOREM TypeCorrect == Spec => []TypeOK
<1>1. IInv => TypeOK
  BY DEF IInv
<1> QED
  BY Invariance, <1>1, PTL

(***************************************************************************)
(* Two registrations of an e-mail overlap only if its lock has run out     *)
(* under one of them: of the two, one does not hold the lock, so it has    *)
(* lapsed, and whoever lapses does so after a lock ran out.                *)
(***************************************************************************)
THEOREM LockExcludesHolds == Spec => []LockExcludes
<1>1. IInv => LockExcludes
  BY DEF IInv, LockExcludes, HoldsUnlessLapsed, LapsedOverrun
<1> QED
  BY Invariance, <1>1, PTL

(***************************************************************************)
(* At most one request is told that it registered an e-mail or a user      *)
(* name, for whoever is told so has a user and users are distinct.         *)
(***************************************************************************)
THEOREM AtMostOneRegisteredHolds == Spec => []AtMostOneRegistered
<1>1. IInv => AtMostOneRegistered
  BY DEF IInv, AtMostOneRegistered, AnswersTrue, Distinct
<1> QED
  BY Invariance, <1>1, PTL

\* "registered" is answered for a user with its password only, and a user
\* without one is the trace of a request that failed or is still at work.
THEOREM AnswersTrueHolds == Spec => []AnswersTrue
<1>1. IInv => AnswersTrue
  BY DEF IInv
<1> QED
  BY Invariance, <1>1, PTL

\* "Registration in progress" is answered only beside another verification of the
\* e-mail that came to the lock and is registering, or is at its end; no failing
\* call and no crash leaves a lock that belongs to nobody.
THEOREM BusyForAReasonHolds == Spec => []BusyForAReason
<1>1. IInv => BusyForAReason
  BY DEF IInv
<1> QED
  BY Invariance, <1>1, PTL
=============================================================================

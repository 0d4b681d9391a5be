----------------------------- MODULE AuthProofs -----------------------------
(* Theorems about Auth, for any number of requests, attempts and instants. *)
EXTENDS Auth, TLAPS

-----------------------------------------------------------------------------
(* Types.  A handler past its first read has a row to update, and the row  *)
(* it counts a wrong password from was not locked, so that the count stays *)
(* within the limit.                                                       *)
Updating == {"otp", "confirm", "unlock", "recheck", "count", "sign", "find",
             "bump", "disable"}

RowInv ==
  /\ LimitMeansLocked
  /\ \A r \in Requests :
       /\ stage[r] \in Updating => user # NoUser
       /\ stage[r] \in {"confirm", "count", "sign", "bump"} => read[r] # NoUser
       /\ stage[r] = "count" => read[r].loginLimit < MaxAttempts
       /\ stage[r] # "done" => result[r] = "none"

TypeInv == TypeOK /\ RowInv

USE DEF Codes

(* The handler of request r stands where it stood, but for r. *)
OnlyRequest(r) ==
  /\ asked' = asked
  /\ \A q \in Requests \ {r} :
       /\ stage'[q] = stage[q]
       /\ read'[q] = read[q]
       /\ token'[q] = token[q]
       /\ began'[q] = began[q]
       /\ result'[q] = result[q]

LEMMA FinishMoves ==
  ASSUME TypeOK, NEW r \in Requests, NEW status \in Statuses, Finish(r, status),
         asked' = asked
  PROVE  /\ OnlyRequest(r)
         /\ stage'[r] = "done" /\ result'[r] = status /\ read'[r] = NoUser
         /\ token'[r] = 0 /\ began'[r] = 0
         /\ stage' \in [Requests -> Stages]
         /\ result' \in [Requests -> Statuses]
         /\ read' \in [Requests -> User \union {NoUser}]
         /\ token' \in [Requests -> Nat]
         /\ began' \in [Requests -> 0..MaxTime]
  BY NumberAssumption DEF Finish, Goto, Read, TypeOK, OnlyRequest, Stages

LEMMA AwaitsMoves ==
  ASSUME TypeOK, NEW r \in Requests, NEW s \in Stages, NEW version \in Nat,
         NEW row \in User \union {NoUser}, Awaits(r, s, version, row),
         asked' = asked
  PROVE  /\ OnlyRequest(r)
         /\ stage'[r] = s /\ result'[r] = result[r] /\ read'[r] = row
         /\ token'[r] = version /\ began'[r] = now
         /\ stage' \in [Requests -> Stages]
         /\ result' \in [Requests -> Statuses]
         /\ read' \in [Requests -> User \union {NoUser}]
         /\ token' \in [Requests -> Nat]
         /\ began' \in [Requests -> 0..MaxTime]
  BY DEF Awaits, Goto, Read, TypeOK, OnlyRequest

LEMMA ContinuesMoves ==
  ASSUME TypeOK, NEW r \in Requests, NEW s \in Stages,
         NEW row \in User \union {NoUser}, Continues(r, s, row), asked' = asked
  PROVE  /\ OnlyRequest(r)
         /\ stage'[r] = s /\ result'[r] = result[r] /\ read'[r] = row
         /\ token'[r] = token[r] /\ began'[r] = began[r]
         /\ stage' \in [Requests -> Stages]
         /\ result' \in [Requests -> Statuses]
         /\ read' \in [Requests -> User \union {NoUser}]
         /\ token' \in [Requests -> Nat]
         /\ began' \in [Requests -> 0..MaxTime]
  BY DEF Continues, Goto, Read, TypeOK, OnlyRequest

(* The rows the updates make. *)
LEMMA NewUserTyped ==
  ASSUME NEW p \in Codes \union {NoCode}
  PROVE  NewUser(p) \in User
  BY NumberAssumption DEF User, NewUser

LEMMA RowsTyped ==
  ASSUME NEW row \in User, NEW t \in Nat
  PROVE  /\ [row EXCEPT !.tokenVersion = t] \in User
         /\ [row EXCEPT !.isActive = FALSE, !.isActivated = FALSE,
                        !.isLocked = TRUE, !.lockedUntil = t] \in User
  BY DEF User

LEMMA OtpTyped ==
  ASSUME NEW row \in User, NEW c \in Codes, NEW t \in Nat
  PROVE  [row EXCEPT !.otp = c, !.otpExpiry = t] \in User
  BY DEF User

LEMMA ActivatedTyped ==
  ASSUME NEW row \in User
  PROVE  Activated(row) \in User
  BY DEF User, Activated

LEMMA UnlockedTyped ==
  ASSUME NEW row \in User
  PROVE  Unlocked(row) \in User
<1>1. 0 \in 0..MaxAttempts
  BY NumberAssumption
<1>2. QED
  BY <1>1 DEF User, Unlocked

LEMMA CountedTyped ==
  ASSUME TypeOK, NEW row \in User, NEW n \in 1..MaxAttempts
  PROVE  Counted(row, n) \in User
<1>1. now + LockTime \in Nat /\ n \in 0..MaxAttempts
  BY NumberAssumption DEF TypeOK
<1>2. QED
  BY <1>1 DEF User, Counted

(* RowInv of the other requests is kept. *)
LEMMA RowFrame ==
  ASSUME RowInv, NEW r \in Requests, OnlyRequest(r),
         user # NoUser => user' # NoUser, LimitMeansLocked',
         stage'[r] \in Updating => user' # NoUser,
         stage'[r] \in {"confirm", "count", "sign", "bump"} => read'[r] # NoUser,
         stage'[r] = "count" => read'[r].loginLimit < MaxAttempts,
         stage'[r] # "done" => result'[r] = "none"
  PROVE  RowInv'
  BY DEF RowInv, OnlyRequest

LEMMA TypeInit == Init => TypeInv
<1>1. ASSUME Init PROVE user \in User \union {NoUser}
  <2>1. CASE user = NoUser
    BY <2>1
  <2>2. CASE user = [NewUser(NoCode) EXCEPT !.isActivated = TRUE]
    <3>1. NewUser(NoCode) \in User
      BY NewUserTyped
    <3>2. QED
      BY <2>2, <3>1 DEF User
  <2>3. QED
    BY <1>1, <2>1, <2>2 DEF Init
<1>2. ASSUME Init PROVE TypeOK
  <2>1. issued \subseteq Nat
    BY <1>2 DEF Init
  <2>4. confirmed \in BOOLEAN /\ banned \in BOOLEAN
    BY <1>2, Zenon DEF Init
  <2>2. 0 \in 0..MaxTime /\ NoUser \in User \union {NoUser}
    BY NumberAssumption
  <2>3. /\ stage \in [Requests -> Stages] /\ result \in [Requests -> Statuses]
        /\ token \in [Requests -> Nat] /\ read \in [Requests -> User \union {NoUser}]
        /\ began \in [Requests -> 0..MaxTime]
    BY <1>2, <2>2 DEF Init, Stages, Statuses
  <2>5. QED
    BY <1>1, <1>2, <2>1, <2>2, <2>3, <2>4, Zenon DEF Init, TypeOK
<1>3. ASSUME Init PROVE RowInv
  BY <1>3, NumberAssumption
  DEF Init, RowInv, LimitMeansLocked, NewUser, Updating
<1>4. QED
  BY <1>2, <1>3 DEF TypeInv

(* A request that ends, and one that goes on, without a new row. *)
LEMMA TypeFinish ==
  ASSUME TypeInv, NEW r \in Requests, NEW status \in Statuses, Finish(r, status),
         asked' = asked, user' = user
  PROVE  RowInv'
<1>1. OnlyRequest(r) /\ stage'[r] = "done"
  BY FinishMoves DEF TypeInv
<1>2. QED
  BY <1>1, RowFrame DEF TypeInv, RowInv, LimitMeansLocked, Updating

LEMMA TypeAwaits ==
  ASSUME TypeInv, NEW r \in Requests, NEW s \in Stages, NEW version \in Nat,
         NEW row \in User \union {NoUser}, Awaits(r, s, version, row),
         stage[r] # "done", asked' = asked, user' = user,
         s \in Updating => user # NoUser,
         s \in {"confirm", "bump"} => row # NoUser,
         s \notin {"count", "sign"}
  PROVE  RowInv'
<1>1. OnlyRequest(r) /\ stage'[r] = s /\ result'[r] = result[r] /\ read'[r] = row
  BY AwaitsMoves DEF TypeInv
<1>2. QED
  BY <1>1, RowFrame DEF TypeInv, RowInv, LimitMeansLocked

LEMMA TypeRegister ==
  ASSUME TypeInv, NEW r \in Requests, Register(r)
  PROVE  TypeInv'
<1>1. /\ asked' = asked /\ user' = user /\ issued' = issued /\ now' = now
      /\ wrong' = wrong /\ confirmed' = confirmed /\ loggedOut' = loggedOut
      /\ banned' = banned /\ crossed' \subseteq Kinds /\ stage[r] = "idle"
  BY DEF Register, Begins, TypeInv, TypeOK, Request, Kinds
<1>2. CASE Finish(r, "conflict")
  <2>1. "conflict" \in Statuses
    BY DEF Statuses
  <2>2. RowInv'
    BY <1>1, <1>2, <2>1, TypeFinish
  <2>3. QED
    BY <1>1, <1>2, <2>1, <2>2, FinishMoves DEF TypeInv, TypeOK
<1>3. CASE Awaits(r, "create", 0, NoUser)
  <2>1. "create" \in Stages /\ "create" \notin Updating /\ 0 \in Nat
    BY DEF Stages, Updating
  <2>2. RowInv'
    BY <1>1, <1>3, <2>1, TypeAwaits
  <2>3. QED
    BY <1>1, <1>3, <2>1, <2>2, AwaitsMoves DEF TypeInv, TypeOK
<1>4. QED
  BY <1>2, <1>3 DEF Register

LEMMA TypeRegistration ==
  ASSUME TypeInv, NEW r \in Requests, Registration(r)
  PROVE  TypeInv'
<1>1. CASE Register(r)
  BY <1>1, TypeRegister
<1>2. CASE Create(r)
  <2>1. /\ asked' = asked /\ issued' = issued /\ now' = now
        /\ wrong' = wrong /\ confirmed' = confirmed /\ loggedOut' = loggedOut
        /\ banned' = banned /\ crossed' = crossed /\ stage[r] = "create"
    BY <1>2 DEF Create, At
  <2>2. CASE user # NoUser
    <3>1. Finish(r, "conflict") /\ user' = user /\ "conflict" \in Statuses
      BY <1>2, <2>2 DEF Create, Statuses
    <3>2. RowInv'
      BY <2>1, <3>1, TypeFinish
    <3>3. QED
      BY <2>1, <3>1, <3>2, FinishMoves DEF TypeInv, TypeOK
  <2>3. CASE user = NoUser
    <3>1. user' = NewUser(r) /\ Continues(r, "otp", NoUser) /\ "otp" \in Stages
      BY <1>2, <2>3 DEF Create, Stages
    <3>2. NewUser(r) \in User
      BY NewUserTyped
    <3>3. user' # NoUser /\ LimitMeansLocked'
      <4>1. user' # NoUser
        BY <3>1, <3>2, NullAssumption
      <4>2. user'.loginLimit = 0
        BY <3>1 DEF NewUser
      <4>3. QED
        BY <4>1, <4>2, NumberAssumption DEF LimitMeansLocked
    <3>4. OnlyRequest(r) /\ stage'[r] = "otp" /\ result'[r] = result[r]
      BY <2>1, <3>1, ContinuesMoves DEF TypeInv
    <3>5. RowInv'
      BY <2>1, <3>3, <3>4, RowFrame DEF TypeInv, RowInv
    <3>6. QED
      BY <2>1, <3>1, <3>2, <3>5, ContinuesMoves DEF TypeInv, TypeOK
  <2>4. QED
    BY <2>2, <2>3
<1>3. CASE StoreOtp(r)
  <2>1. /\ asked' = asked /\ issued' = issued /\ now' = now
        /\ wrong' = wrong /\ confirmed' = confirmed /\ loggedOut' = loggedOut
        /\ banned' = banned /\ crossed' = crossed /\ stage[r] = "otp"
        /\ user' = [user EXCEPT !.otp = r, !.otpExpiry = now + OtpTime]
        /\ Finish(r, "ok") /\ "ok" \in Statuses
    BY <1>3 DEF StoreOtp, At, Statuses
  <2>2. user \in User /\ now + OtpTime \in Nat
    <3>1. user \in User
      BY <2>1 DEF TypeInv, TypeOK, RowInv, Updating
    <3>2. now + OtpTime \in Nat
      BY NumberAssumption DEF TypeInv, TypeOK
    <3>3. QED
      BY <3>1, <3>2
  <2>3. user' \in User /\ user' # NoUser
    <3>1. [user EXCEPT !.otp = r, !.otpExpiry = now + OtpTime] \in User
      BY <2>2, OtpTyped
    <3>2. QED
      BY <2>1, <3>1, NullAssumption
  <2>4. LimitMeansLocked'
    BY <2>1, <2>2, NullAssumption DEF TypeInv, RowInv, LimitMeansLocked, User
  <2>5. OnlyRequest(r) /\ stage'[r] = "done"
    BY <2>1, FinishMoves DEF TypeInv
  <2>6. RowInv'
    BY <2>3, <2>4, <2>5, RowFrame DEF TypeInv, Updating
  <2>7. QED
    BY <2>1, <2>3, <2>6, FinishMoves DEF TypeInv, TypeOK
<1>4. QED
  BY <1>1, <1>2, <1>3 DEF Registration

LEMMA TypeVerification ==
  ASSUME TypeInv, NEW r \in Requests, Verification(r)
  PROVE  TypeInv'
<1>1. CASE Verify(r)
  <2>1. /\ asked' = asked /\ user' = user /\ issued' = issued /\ now' = now
        /\ wrong' = wrong /\ confirmed' = confirmed /\ loggedOut' = loggedOut
        /\ banned' = banned /\ crossed' \subseteq Kinds /\ stage[r] = "idle"
    BY <1>1 DEF Verify, Begins, TypeInv, TypeOK, Kinds
  <2>2. CASE Finish(r, "refused")
    <3>1. RowInv' /\ "refused" \in Statuses
      BY <2>1, <2>2, TypeFinish DEF Statuses
    <3>2. QED
      BY <2>1, <2>2, <3>1, FinishMoves DEF TypeInv, TypeOK
  <2>3. CASE RightCode(asked[r].code) /\ Awaits(r, "confirm", 0, user)
    <3>1. user \in User /\ user # NoUser /\ "confirm" \in Stages
      BY <2>3 DEF RightCode, TypeInv, TypeOK, Stages
    <3>2. RowInv'
      BY <2>1, <2>3, <3>1, TypeAwaits
    <3>3. QED
      BY <2>1, <2>3, <3>1, <3>2, AwaitsMoves DEF TypeInv, TypeOK
  <2>4. QED
    BY <1>1, <2>2, <2>3 DEF Verify
<1>2. CASE Confirm(r)
  <2>1. /\ asked' = asked /\ issued' = issued /\ now' = now
        /\ wrong' = wrong /\ loggedOut' = loggedOut
        /\ banned' = banned /\ crossed' = crossed /\ stage[r] = "confirm"
        /\ user' = Activated(user) /\ Finish(r, "ok") /\ "ok" \in Statuses
    BY <1>2 DEF Confirm, At, Statuses
  <2>2. user \in User
    BY <2>1 DEF TypeInv, TypeOK, RowInv, Updating
  <2>3. user' \in User /\ user' # NoUser
    BY <2>1, <2>2, ActivatedTyped, NullAssumption
  <2>4. LimitMeansLocked'
    BY <2>1, <2>2, NullAssumption
    DEF TypeInv, RowInv, LimitMeansLocked, Activated, User
  <2>5. OnlyRequest(r) /\ stage'[r] = "done"
    BY <2>1, FinishMoves DEF TypeInv
  <2>6. RowInv'
    BY <2>3, <2>4, <2>5, RowFrame DEF TypeInv, Updating
  <2>7. confirmed' \in BOOLEAN
    BY <1>2 DEF Confirm
  <2>8. QED
    BY <2>1, <2>3, <2>6, <2>7, FinishMoves DEF TypeInv, TypeOK
<1>3. QED
  BY <1>1, <1>2 DEF Verification

LEMMA TypeLogsIn ==
  ASSUME TypeInv, NEW r \in Requests, LogsIn(r)
  PROVE  TypeInv'
<1>1. CASE Login(r)
  <2>1. /\ asked' = asked /\ user' = user /\ issued' = issued /\ now' = now
        /\ wrong' = wrong /\ confirmed' = confirmed /\ loggedOut' = loggedOut
        /\ banned' = banned /\ crossed' \subseteq Kinds /\ stage[r] = "idle"
    BY <1>1 DEF Login, Begins, TypeInv, TypeOK, Kinds
  <2>2. CASE Finish(r, "refused")
    <3>1. RowInv' /\ "refused" \in Statuses
      BY <2>1, <2>2, TypeFinish DEF Statuses
    <3>2. QED
      BY <2>1, <2>2, <3>1, FinishMoves DEF TypeInv, TypeOK
  <2>3. CASE \E s \in {"unlock", "recheck"} : user # NoUser /\ Awaits(r, s, 0, user)
    <3>1. PICK s \in {"unlock", "recheck"} : user # NoUser /\ Awaits(r, s, 0, user)
      BY <2>3
    <3>2. user \in User /\ s \in Stages
      BY <3>1 DEF TypeInv, TypeOK, Stages
    <3>3. RowInv'
      BY <2>1, <3>1, <3>2, TypeAwaits
    <3>4. QED
      BY <2>1, <3>1, <3>2, <3>3, AwaitsMoves DEF TypeInv, TypeOK
  <2>4. QED
    BY <1>1, <2>2, <2>3 DEF Login
<1>2. CASE Unlock(r)
  <2>1. /\ asked' = asked /\ issued' = issued /\ now' = now /\ wrong' = 0
        /\ confirmed' = confirmed /\ loggedOut' = loggedOut
        /\ banned' = banned /\ crossed' = crossed /\ stage[r] = "unlock"
        /\ user' = Unlocked(user) /\ Continues(r, "recheck", read[r])
        /\ "recheck" \in Stages
    BY <1>2 DEF Unlock, At, Stages
  <2>2. user \in User /\ read[r] \in User \union {NoUser}
    BY <2>1 DEF TypeInv, TypeOK, RowInv, Updating
  <2>3. user' \in User /\ user' # NoUser
    BY <2>1, <2>2, UnlockedTyped, NullAssumption
  <2>4. user'.loginLimit = 0
    BY <2>1, <2>2 DEF Unlocked, User
  <2>5. LimitMeansLocked'
    BY <2>4, NumberAssumption DEF LimitMeansLocked
  <2>6. OnlyRequest(r) /\ stage'[r] = "recheck" /\ result'[r] = result[r]
    BY <2>1, <2>2, ContinuesMoves DEF TypeInv
  <2>7. RowInv'
    BY <2>1, <2>3, <2>5, <2>6, RowFrame DEF TypeInv, RowInv
  <2>8. QED
    BY <2>1, <2>2, <2>3, <2>7, ContinuesMoves DEF TypeInv, TypeOK
<1>3. CASE Recheck(r)
  <2>1. /\ asked' = asked /\ user' = user /\ issued' = issued /\ now' = now
        /\ wrong' = wrong /\ confirmed' = confirmed /\ loggedOut' = loggedOut
        /\ banned' = banned /\ crossed' = crossed /\ stage[r] = "recheck"
    BY <1>3 DEF Recheck, At
  <2>2. CASE Finish(r, "refused")
    <3>1. RowInv' /\ "refused" \in Statuses
      BY <2>1, <2>2, TypeFinish DEF Statuses
    <3>2. QED
      BY <2>1, <2>2, <3>1, FinishMoves DEF TypeInv, TypeOK
  <2>3. CASE \E s \in {"sign", "count"} : ~user.isLocked /\ Continues(r, s, user)
    <3>1. PICK s \in {"sign", "count"} : ~user.isLocked /\ Continues(r, s, user)
      BY <2>3
    <3>2. user \in User /\ user # NoUser /\ s \in Stages
      BY <2>1, <3>1 DEF TypeInv, TypeOK, RowInv, Updating, Stages
    <3>3. user.loginLimit < MaxAttempts
      <4>1. user.loginLimit \in 0..MaxAttempts
        BY <3>2 DEF User
      <4>2. ~(user.loginLimit >= MaxAttempts)
        BY <3>1, <3>2 DEF TypeInv, RowInv, LimitMeansLocked
      <4>3. QED
        BY <4>1, <4>2, NumberAssumption
    <3>4. /\ OnlyRequest(r) /\ stage'[r] = s /\ result'[r] = result[r]
          /\ read'[r] = user
      BY <2>1, <3>1, <3>2, ContinuesMoves DEF TypeInv
    <3>5. RowInv'
      BY <2>1, <3>1, <3>2, <3>3, <3>4, RowFrame DEF TypeInv, RowInv, LimitMeansLocked
    <3>6. QED
      BY <2>1, <3>1, <3>2, <3>5, ContinuesMoves DEF TypeInv, TypeOK
  <2>4. QED
    BY <1>3, <2>2, <2>3 DEF Recheck
<1>4. CASE CountWrong(r)
  <2>1. /\ asked' = asked /\ issued' = issued /\ now' = now /\ wrong' = wrong + 1
        /\ confirmed' = confirmed /\ loggedOut' = loggedOut
        /\ banned' = banned /\ crossed' = crossed /\ stage[r] = "count"
        /\ user' = Counted(user, read[r].loginLimit + 1)
        /\ Finish(r, "refused") /\ "refused" \in Statuses
    BY <1>4 DEF CountWrong, At, Statuses
  <2>2. user \in User /\ read[r] \in User /\ read[r].loginLimit < MaxAttempts
    BY <2>1 DEF TypeInv, TypeOK, RowInv, Updating
  <2>3. read[r].loginLimit + 1 \in 1..MaxAttempts
    <3>1. read[r].loginLimit \in 0..MaxAttempts
      BY <2>2 DEF User
    <3>2. QED
      BY <2>2, <3>1, NumberAssumption
  <2>4. user' \in User /\ user' # NoUser
    BY <2>1, <2>2, <2>3, CountedTyped, NullAssumption DEF TypeInv
  <2>5. LimitMeansLocked'
    BY <2>1, <2>2, <2>3 DEF LimitMeansLocked, Counted, User
  <2>6. OnlyRequest(r) /\ stage'[r] = "done"
    BY <2>1, FinishMoves DEF TypeInv
  <2>7. RowInv'
    BY <2>4, <2>5, <2>6, RowFrame DEF TypeInv, Updating
  <2>8. QED
    BY <2>1, <2>4, <2>7, FinishMoves DEF TypeInv, TypeOK
<1>5. CASE Sign(r)
  <2>1. /\ asked' = asked /\ user' = user /\ now' = now /\ wrong' = wrong
        /\ issued' = issued \union {read[r].tokenVersion}
        /\ confirmed' = confirmed /\ loggedOut' = loggedOut
        /\ banned' = banned /\ crossed' = crossed /\ stage[r] = "sign"
        /\ Finish(r, "ok") /\ "ok" \in Statuses
    BY <1>5 DEF Sign, At, Statuses
  <2>2. read[r].tokenVersion \in Nat
    BY <2>1 DEF TypeInv, TypeOK, RowInv, User
  <2>3. RowInv'
    BY <2>1, TypeFinish
  <2>4. QED
    BY <2>1, <2>2, <2>3, FinishMoves DEF TypeInv, TypeOK
<1>6. QED
  BY <1>1, <1>2, <1>3, <1>4, <1>5 DEF LogsIn

LEMMA TypeWithToken ==
  ASSUME TypeInv, NEW r \in Requests, WithToken(r)
  PROVE  TypeInv'
<1>1. CASE Authenticate(r) \/ Ban(r)
  <2>1. /\ asked' = asked /\ user' = user /\ issued' = issued /\ now' = now
        /\ wrong' = wrong /\ confirmed' = confirmed /\ loggedOut' = loggedOut
        /\ banned' = banned /\ crossed' \subseteq Kinds /\ stage[r] = "idle"
    BY <1>1 DEF Authenticate, Ban, Begins, TypeInv, TypeOK, Kinds
  <2>2. CASE \E status \in {"ok", "refused"} : Finish(r, status)
    <3>1. PICK status \in {"ok", "refused"} : Finish(r, status)
      BY <2>2
    <3>2. RowInv' /\ status \in Statuses
      BY <2>1, <3>1, TypeFinish DEF Statuses
    <3>3. QED
      BY <2>1, <3>1, <3>2, FinishMoves DEF TypeInv, TypeOK
  <2>3. CASE \E s \in {"find", "disable"}, version \in Nat :
               user # NoUser /\ Awaits(r, s, version, NoUser)
    <3>1. PICK s \in {"find", "disable"}, version \in Nat :
                 user # NoUser /\ Awaits(r, s, version, NoUser)
      BY <2>3
    <3>2. s \in Stages /\ NoUser \in User \union {NoUser}
      BY DEF Stages
    <3>3. RowInv'
      BY <2>1, <3>1, <3>2, TypeAwaits
    <3>4. QED
      BY <2>1, <3>1, <3>2, <3>3, AwaitsMoves DEF TypeInv, TypeOK
  <2>4. CASE Ban(r)
    BY <2>2, <2>3, <2>4 DEF Ban
  <2>5. CASE Authenticate(r)
    <3>1. PICK version \in issued :
            CASE ~Accepts(version) -> Finish(r, "refused")
              [] Accepts(version) /\ asked[r].kind = "access" ->
                   Finish(r, IF Enters THEN "ok" ELSE "refused")
              [] Accepts(version) /\ asked[r].kind # "access" ->
                   Awaits(r, IF asked[r].kind = "logout" THEN "find" ELSE "disable",
                          version, NoUser)
      BY <2>5 DEF Authenticate
    <3>2. version \in Nat
      BY DEF TypeInv, TypeOK
    <3>3. CASE ~Accepts(version)
      BY <2>2, <3>1, <3>3
    <3>4. CASE Accepts(version) /\ asked[r].kind = "access"
      BY <2>2, <3>1, <3>4
    <3>5. CASE Accepts(version) /\ asked[r].kind # "access"
      BY <2>3, <3>1, <3>2, <3>5 DEF Accepts
    <3>6. QED
      BY <3>3, <3>4, <3>5
  <2>6. QED
    BY <1>1, <2>4, <2>5
<1>2. CASE FindUser(r)
  <2>1. /\ asked' = asked /\ user' = user /\ issued' = issued /\ now' = now
        /\ wrong' = wrong /\ confirmed' = confirmed /\ loggedOut' = loggedOut
        /\ banned' = banned /\ crossed' = crossed /\ stage[r] = "find"
        /\ Continues(r, "bump", user) /\ "bump" \in Stages
    BY <1>2 DEF FindUser, At, Stages
  <2>2. user \in User /\ user # NoUser
    BY <2>1 DEF TypeInv, TypeOK, RowInv, Updating
  <2>3. /\ OnlyRequest(r) /\ stage'[r] = "bump" /\ result'[r] = result[r]
        /\ read'[r] = user
    BY <2>1, <2>2, ContinuesMoves DEF TypeInv
  <2>4. RowInv'
    BY <2>1, <2>2, <2>3, RowFrame DEF TypeInv, RowInv, LimitMeansLocked
  <2>5. QED
    BY <2>1, <2>2, <2>4, ContinuesMoves DEF TypeInv, TypeOK
<1>3. CASE BumpVersion(r)
  <2>1. /\ asked' = asked /\ issued' = issued /\ now' = now /\ wrong' = wrong
        /\ confirmed' = confirmed /\ loggedOut' = loggedOut \union {token[r]}
        /\ banned' = banned /\ crossed' = crossed /\ stage[r] = "bump"
        /\ user' = [user EXCEPT !.tokenVersion = NextVersion(read[r])]
        /\ Finish(r, "ok") /\ "ok" \in Statuses
    BY <1>3 DEF BumpVersion, At, Statuses
  <2>2. user \in User /\ read[r] \in User
    BY <2>1 DEF TypeInv, TypeOK, RowInv, Updating
  <2>3. NextVersion(read[r]) \in Nat
    BY <2>2 DEF User, NextVersion
  <2>4. user' \in User /\ user' # NoUser
    BY <2>1, <2>2, <2>3, RowsTyped, NullAssumption
  <2>5. LimitMeansLocked'
    BY <2>1, <2>2, NullAssumption DEF TypeInv, RowInv, LimitMeansLocked, User
  <2>6. OnlyRequest(r) /\ stage'[r] = "done"
    BY <2>1, FinishMoves DEF TypeInv
  <2>7. RowInv'
    BY <2>4, <2>5, <2>6, RowFrame DEF TypeInv, Updating
  <2>8. QED
    BY <2>1, <2>4, <2>7, FinishMoves DEF TypeInv, TypeOK
<1>4. CASE Disable(r)
  <2>1. /\ asked' = asked /\ issued' = issued /\ now' = now /\ wrong' = wrong
        /\ confirmed' = FALSE /\ loggedOut' = loggedOut
        /\ crossed' = crossed /\ stage[r] = "disable"
        /\ user' = [user EXCEPT !.isActive = FALSE, !.isActivated = FALSE,
                                !.isLocked = TRUE, !.lockedUntil = now + BanTime]
        /\ Finish(r, "ok") /\ "ok" \in Statuses
    BY <1>4 DEF Disable, At, Statuses
  <2>2. user \in User /\ now + BanTime \in Nat
    <3>1. user \in User
      BY <2>1 DEF TypeInv, TypeOK, RowInv, Updating
    <3>2. now + BanTime \in Nat
      BY NumberAssumption DEF TypeInv, TypeOK
    <3>3. QED
      BY <3>1, <3>2
  <2>3. user' \in User /\ user' # NoUser
    BY <2>1, <2>2, RowsTyped, NullAssumption
  <2>4. LimitMeansLocked'
    BY <2>1, <2>2 DEF LimitMeansLocked, User
  <2>5. OnlyRequest(r) /\ stage'[r] = "done"
    BY <2>1, FinishMoves DEF TypeInv
  <2>6. RowInv'
    BY <2>3, <2>4, <2>5, RowFrame DEF TypeInv, Updating
  <2>7. banned' \in BOOLEAN
    BY <1>4 DEF Disable
  <2>8. QED
    BY <2>1, <2>3, <2>6, <2>7, FinishMoves DEF TypeInv, TypeOK
<1>5. QED
  BY <1>1, <1>2, <1>3, <1>4 DEF WithToken

LEMMA TypeStep == TypeInv /\ [Next]_vars => TypeInv'
<1> SUFFICES ASSUME TypeInv, [Next]_vars
             PROVE  TypeInv'
  OBVIOUS
<1>1. ASSUME NEW r \in Requests, Fails(r)
      PROVE  TypeInv'
  <2>1. /\ asked' = asked /\ user' = user /\ issued' = issued /\ now' = now
        /\ UNCHANGED history /\ Finish(r, "failed") /\ "failed" \in Statuses
    BY <1>1 DEF Fails, Statuses
  <2>2. RowInv'
    BY <2>1, TypeFinish
  <2>3. QED
    BY <2>1, <2>2, FinishMoves DEF TypeInv, TypeOK, history
<1>2. CASE Tick
  BY <1>2, NumberAssumption
  DEF Tick, TypeInv, TypeOK, RowInv, LimitMeansLocked, handler, history
<1>3. CASE UNCHANGED vars
  BY <1>3 DEF vars, TypeInv, TypeOK, RowInv, LimitMeansLocked, handler, history
<1>4. QED
  BY <1>1, <1>2, <1>3, TypeRegistration, TypeVerification, TypeLogsIn, TypeWithToken
  DEF Next, Quiet

LEMMA TypeInvariant == Spec => []TypeInv
  BY TypeInit, TypeStep, PTL DEF Spec

(* Every reachable state is typed: no overlap of logins takes the count of *)
(* wrong passwords beyond the limit.                                       *)
THEOREM AuthTypeCorrect == Spec => []TypeOK
<1>1. TypeInv => TypeOK
  BY DEF TypeInv
<1>2. QED
  BY <1>1, TypeInvariant, PTL

(* However logins, unlocks and deactivations overlap, a count at the limit *)
(* means a locked account.                                                 *)
THEOREM LimitsLock == Spec => []LimitMeansLocked
<1>1. TypeInv => LimitMeansLocked
  BY DEF TypeInv, RowInv
<1>2. QED
  BY <1>1, TypeInvariant, PTL

-----------------------------------------------------------------------------
(* The steps by what they do to the row: some read it, some write it.      *)
Reads(r) ==
  \/ Register(r) \/ Verify(r) \/ Login(r) \/ Authenticate(r) \/ Ban(r)
  \/ Recheck(r) \/ Sign(r) \/ FindUser(r) \/ Fails(r)

Writes(r) ==
  \/ Create(r) \/ StoreOtp(r) \/ Confirm(r) \/ Unlock(r) \/ CountWrong(r)
  \/ BumpVersion(r) \/ Disable(r)

(* Which requests stand where. *)
KindInv ==
  \A r \in Requests :
    /\ stage[r] \in {"create", "otp"} => asked[r].kind = "register"
    /\ stage[r] = "confirm" => asked[r].kind = "verify"
    /\ stage[r] \in {"unlock", "recheck", "count", "sign"} => asked[r].kind = "login"
    /\ stage[r] \in {"find", "bump"} => asked[r].kind = "logout"
    /\ stage[r] = "disable" => asked[r].kind \in {"deactivate", "ban"}

(* The first step of a request: it ends, or it awaits a statement with     *)
(* what it has read.                                                       *)
FirstStep(r) ==
  \/ stage'[r] = "done" /\ result'[r] # "ok"
  \/ stage'[r] = "done" /\ asked[r].kind = "access" /\ user # NoUser /\ user.isActivated
  \/ stage'[r] = "create" /\ asked[r].kind = "register" /\ user = NoUser
  \/ /\ stage'[r] = "confirm" /\ asked[r].kind = "verify"
     /\ RightCode(asked[r].code) /\ read'[r] = user /\ began'[r] = now
  \/ /\ stage'[r] = "unlock" /\ asked[r].kind = "login"
     /\ began'[r] = now
  \/ /\ stage'[r] = "recheck" /\ asked[r].kind = "login"
     /\ began'[r] = now /\ ~LockExpired(user)
  \/ stage'[r] = "find" /\ asked[r].kind = "logout" /\ Accepts(token'[r])
  \/ stage'[r] = "disable" /\ asked[r].kind \in {"deactivate", "ban"}

Arrived(r) ==
  /\ stage[r] = "idle"
  /\ FirstStep(r)
  /\ crossed' = IF \E s \in InProgress : asked[s].kind = asked[r].kind
                THEN crossed \union {asked[r].kind} ELSE crossed
  /\ issued' = issued

LEMMA ArrivedRegister ==
  ASSUME TypeInv, NEW r \in Requests, Register(r)
  PROVE  OnlyRequest(r) /\ Arrived(r)
<1>1. CASE Finish(r, "conflict")
  BY <1>1, FinishMoves DEF Register, Begins, TypeInv, Statuses, Arrived, FirstStep
<1>2. CASE user = NoUser /\ Awaits(r, "create", 0, NoUser)
  BY <1>2, AwaitsMoves DEF Register, Begins, TypeInv, Stages, Arrived, FirstStep
<1>3. QED
  BY <1>1, <1>2 DEF Register

LEMMA ArrivedVerify ==
  ASSUME TypeInv, NEW r \in Requests, Verify(r)
  PROVE  OnlyRequest(r) /\ Arrived(r)
<1>1. CASE Finish(r, "refused")
  BY <1>1, FinishMoves DEF Verify, Begins, TypeInv, Statuses, Arrived, FirstStep
<1>2. CASE RightCode(asked[r].code) /\ Awaits(r, "confirm", 0, user)
  BY <1>2, AwaitsMoves
  DEF Verify, Begins, TypeInv, TypeOK, Stages, Arrived, FirstStep
<1>3. QED
  BY <1>1, <1>2 DEF Verify

LEMMA ArrivedLogin ==
  ASSUME TypeInv, NEW r \in Requests, Login(r)
  PROVE  OnlyRequest(r) /\ Arrived(r)
<1>1. CASE Finish(r, "refused")
  BY <1>1, FinishMoves DEF Login, Begins, TypeInv, Statuses, Arrived, FirstStep
<1>2. CASE LockExpired(user) /\ Awaits(r, "unlock", 0, user)
  BY <1>2, AwaitsMoves
  DEF Login, Begins, TypeInv, TypeOK, Stages, Arrived, FirstStep
<1>3. CASE ~LockExpired(user) /\ Awaits(r, "recheck", 0, user)
  BY <1>3, AwaitsMoves
  DEF Login, Begins, TypeInv, TypeOK, Stages, Arrived, FirstStep
<1>4. QED
  BY <1>1, <1>2, <1>3 DEF Login

LEMMA ArrivedAuthenticate ==
  ASSUME TypeInv, NEW r \in Requests, Authenticate(r)
  PROVE  OnlyRequest(r) /\ Arrived(r)
<1>1. PICK version \in issued :
        CASE ~Accepts(version) -> Finish(r, "refused")
          [] Accepts(version) /\ asked[r].kind = "access" ->
               Finish(r, IF Enters THEN "ok" ELSE "refused")
          [] Accepts(version) /\ asked[r].kind # "access" ->
               Awaits(r, IF asked[r].kind = "logout" THEN "find" ELSE "disable",
                      version, NoUser)
  BY DEF Authenticate
<1>2. version \in Nat /\ {"ok", "refused"} \subseteq Statuses
      /\ {"find", "disable"} \subseteq Stages
  BY DEF TypeInv, TypeOK, Statuses, Stages
<1>3. CASE Finish(r, "refused")
  BY <1>2, <1>3, FinishMoves DEF Authenticate, Begins, TypeInv, Arrived, FirstStep
<1>4. CASE Accepts(version) /\ asked[r].kind = "access" /\ Enters /\ Finish(r, "ok")
  BY <1>2, <1>4, FinishMoves
  DEF Authenticate, Begins, TypeInv, Arrived, FirstStep, Accepts, Enters
<1>5. CASE Accepts(version) /\ asked[r].kind = "logout" /\ Awaits(r, "find", version, NoUser)
  BY <1>2, <1>5, AwaitsMoves DEF Authenticate, Begins, TypeInv, Arrived, FirstStep
<1>6. CASE asked[r].kind = "deactivate" /\ Awaits(r, "disable", version, NoUser)
  BY <1>2, <1>6, AwaitsMoves DEF Authenticate, Begins, TypeInv, Arrived, FirstStep
<1>7. asked[r].kind \in {"logout", "deactivate", "access"}
  BY DEF Authenticate, Begins
<1>8. QED
  BY <1>1, <1>3, <1>4, <1>5, <1>6, <1>7

LEMMA ArrivedBan ==
  ASSUME TypeInv, NEW r \in Requests, Ban(r)
  PROVE  OnlyRequest(r) /\ Arrived(r)
<1>1. CASE Finish(r, "refused")
  BY <1>1, FinishMoves DEF Ban, Begins, TypeInv, Statuses, Arrived, FirstStep
<1>2. CASE Awaits(r, "disable", 0, NoUser)
  BY <1>2, AwaitsMoves DEF Ban, Begins, TypeInv, Stages, Arrived, FirstStep
<1>3. QED
  BY <1>1, <1>2 DEF Ban

(* A later step that reads: it ends, or goes on with what it has read. *)
LaterStep(r) ==
  /\ stage[r] \notin {"idle", "done"}
  /\ result'[r] = "ok" => asked[r].kind = "login"
  /\ \/ stage'[r] = "done"
     \/ stage[r] = "recheck" /\ stage'[r] \in {"sign", "count"} /\ read'[r] = user
     \/ /\ stage[r] = "find" /\ stage'[r] = "bump"
        /\ read'[r] = user /\ token'[r] = token[r]
  /\ crossed' = crossed

LEMMA Reading ==
  ASSUME TypeInv, KindInv, NEW r \in Requests, Reads(r)
  PROVE  /\ OnlyRequest(r)
         /\ UNCHANGED <<user, now, wrong, confirmed, loggedOut, banned>>
         /\ Arrived(r) \/ LaterStep(r)
<1>1. UNCHANGED <<user, now, wrong, confirmed, loggedOut, banned>>
  BY DEF Reads, Register, Verify, Login, Authenticate, Ban, Recheck, Sign,
         FindUser, Fails, Begins, At, history
<1>2. CASE Recheck(r)
  <2>1. CASE Finish(r, "refused")
    BY <1>2, <2>1, FinishMoves DEF Recheck, At, TypeInv, Statuses, LaterStep
  <2>2. CASE \E s \in {"sign", "count"} : Continues(r, s, user)
    BY <1>2, <2>2, ContinuesMoves
    DEF Recheck, At, TypeInv, TypeOK, RowInv, Stages, LaterStep
  <2>3. QED
    BY <1>1, <1>2, <2>1, <2>2 DEF Recheck
<1>3. CASE Sign(r)
  BY <1>1, <1>3, FinishMoves DEF Sign, At, TypeInv, Statuses, LaterStep, KindInv
<1>4. CASE FindUser(r)
  BY <1>1, <1>4, ContinuesMoves
  DEF FindUser, At, TypeInv, TypeOK, RowInv, Stages, LaterStep
<1>5. CASE Fails(r)
  BY <1>1, <1>5, FinishMoves
  DEF Fails, InProgress, history, TypeInv, Statuses, LaterStep
<1>6. QED
  BY <1>1, <1>2, <1>3, <1>4, <1>5, ArrivedRegister, ArrivedVerify, ArrivedLogin,
     ArrivedAuthenticate, ArrivedBan DEF Reads

LEMMA Ending ==
  ASSUME TypeInv, NEW r \in Requests,
         StoreOtp(r) \/ Confirm(r) \/ CountWrong(r) \/ BumpVersion(r) \/ Disable(r)
  PROVE  /\ OnlyRequest(r) /\ stage'[r] = "done" /\ stage[r] \in Updating
         /\ user \in User /\ user # NoUser /\ user' # NoUser
         /\ crossed' = crossed /\ now' = now
<1>1. PICK status \in Statuses : Finish(r, status)
  BY DEF StoreOtp, Confirm, CountWrong, BumpVersion, Disable, Statuses
<1>2. asked' = asked /\ crossed' = crossed /\ now' = now /\ stage[r] \in Updating
  BY DEF StoreOtp, Confirm, CountWrong, BumpVersion, Disable, At, Updating
<1>3. user # NoUser /\ user \in User
  BY <1>2 DEF TypeInv, TypeOK, RowInv
<1>4. now + OtpTime \in Nat /\ now + LockTime \in Nat /\ now + BanTime \in Nat
  BY NumberAssumption DEF TypeInv, TypeOK
<1>5. user' \in User
  <2>1. CASE StoreOtp(r)
    <3>1. [user EXCEPT !.otp = r, !.otpExpiry = now + OtpTime] \in User
      BY <1>3, <1>4, OtpTyped
    <3>2. QED
      BY <2>1, <3>1 DEF StoreOtp
  <2>2. CASE Confirm(r)
    BY <1>3, <2>2, ActivatedTyped DEF Confirm
  <2>3. CASE CountWrong(r)
    <3>1. /\ read[r] \in User /\ read[r].loginLimit < MaxAttempts
          /\ user' = Counted(user, read[r].loginLimit + 1)
      BY <2>3 DEF CountWrong, At, TypeInv, TypeOK, RowInv
    <3>2. read[r].loginLimit + 1 \in 1..MaxAttempts
      <4>1. read[r].loginLimit \in 0..MaxAttempts
        BY <3>1 DEF User
      <4>2. QED
        BY <3>1, <4>1, NumberAssumption
    <3>3. QED
      BY <1>3, <3>1, <3>2, CountedTyped DEF TypeInv
  <2>4. CASE BumpVersion(r)
    <3>1. read[r] \in User
      BY <2>4 DEF BumpVersion, At, TypeInv, TypeOK, RowInv
    <3>2. NextVersion(read[r]) \in Nat
      BY <3>1 DEF User, NextVersion
    <3>3. QED
      BY <1>3, <2>4, <3>2, RowsTyped DEF BumpVersion
  <2>5. CASE Disable(r)
    BY <1>3, <1>4, <2>5, RowsTyped DEF Disable
  <2>6. QED
    BY <2>1, <2>2, <2>3, <2>4, <2>5
<1>6. QED
  BY <1>1, <1>2, <1>3, <1>5, FinishMoves, NullAssumption DEF TypeInv

LEMMA Unlocking ==
  ASSUME TypeInv, NEW r \in Requests, Unlock(r)
  PROVE  /\ OnlyRequest(r) /\ stage[r] = "unlock" /\ stage'[r] = "recheck"
         /\ user \in User /\ user # NoUser /\ user' # NoUser
         /\ user' = Unlocked(user) /\ began'[r] = began[r]
         /\ wrong' = 0
         /\ UNCHANGED <<crossed, now, confirmed, loggedOut, banned>>
<1>1. /\ asked' = asked /\ Continues(r, "recheck", read[r]) /\ stage[r] = "unlock"
      /\ user' = Unlocked(user) /\ "recheck" \in Stages /\ wrong' = 0
      /\ UNCHANGED <<crossed, now, confirmed, loggedOut, banned>>
  BY DEF Unlock, At, Stages
<1>2. read[r] \in User \union {NoUser} /\ user \in User /\ user # NoUser
  BY <1>1 DEF TypeInv, TypeOK, RowInv, Updating
<1>3. QED
  BY <1>1, <1>2, ContinuesMoves, UnlockedTyped, NullAssumption DEF TypeInv

LEMMA Creating ==
  ASSUME TypeInv, NEW r \in Requests, Create(r)
  PROVE  /\ OnlyRequest(r) /\ stage[r] = "create"
         /\ \/ stage'[r] = "done" /\ user' = user
            \/ stage'[r] = "otp" /\ user = NoUser /\ user' = NewUser(r)
         /\ UNCHANGED <<crossed, now, wrong, confirmed, loggedOut, banned>>
         /\ result'[r] # "ok"
<1>1. /\ asked' = asked /\ stage[r] = "create"
      /\ UNCHANGED <<crossed, now, wrong, confirmed, loggedOut, banned>>
  BY DEF Create, At
<1>2. CASE user' = user /\ Finish(r, "conflict")
  BY <1>1, <1>2, FinishMoves DEF TypeInv, Statuses
<1>3. CASE user = NoUser /\ user' = NewUser(r) /\ Continues(r, "otp", NoUser)
  <2>1. result[r] = "none"
    BY <1>1 DEF TypeInv, RowInv
  <2>2. QED
    BY <1>1, <1>3, <2>1, ContinuesMoves DEF TypeInv, Stages
<1>4. QED
  BY <1>2, <1>3 DEF Create

LEMMA KindStep ==
  ASSUME TypeInv, KindInv, [Next]_vars
  PROVE  KindInv'
<1>1. ASSUME NEW r \in Requests, OnlyRequest(r), stage'[r] = "done"
      PROVE  KindInv'
  BY <1>1 DEF KindInv, OnlyRequest
<1>2. ASSUME NEW r \in Requests, Reads(r) PROVE KindInv'
  <2>1. OnlyRequest(r) /\ (Arrived(r) \/ LaterStep(r))
    BY <1>2, Reading
  <2>2. CASE Arrived(r)
    BY <2>1, <2>2 DEF KindInv, OnlyRequest, Arrived, FirstStep
  <2>3. CASE LaterStep(r)
    BY <2>1, <2>3 DEF KindInv, OnlyRequest, LaterStep
  <2>4. QED
    BY <2>1, <2>2, <2>3
<1>3. ASSUME NEW r \in Requests, Create(r) PROVE KindInv'
  BY <1>3, Creating DEF KindInv, OnlyRequest
<1>4. ASSUME NEW r \in Requests, Unlock(r) PROVE KindInv'
  BY <1>4, Unlocking DEF KindInv, OnlyRequest
<1>5. CASE Tick \/ UNCHANGED vars
  BY <1>5 DEF Tick, vars, handler, KindInv
<1>6. QED
  BY <1>1, <1>2, <1>3, <1>4, <1>5, Ending
  DEF Next, Quiet, Registration, Verification, LogsIn, WithToken, Reads

LEMMA KindInvariant == Spec => [](TypeInv /\ KindInv)
<1>1. Init => KindInv
  BY DEF Init, KindInv
<1>2. QED
  BY <1>1, TypeInvariant, KindStep, PTL DEF Spec

(* A step by what it does to the row: what a case analysis needs of Next.  *)
LEMMA Steps ==
  ASSUME [Next]_vars
  PROVE  \/ \E r \in Requests : Reads(r) \/ Writes(r)
         \/ Tick
         \/ UNCHANGED vars
  BY DEF Next, Quiet, Registration, Verification, LogsIn, WithToken, Reads, Writes

-----------------------------------------------------------------------------
(* The stored code was mailed for the registration that set the password:  *)
(* a registration that is about to store its code is the one that created  *)
(* the row.                                                                *)
CodeInv ==
  /\ CodeBelongsToPassword
  /\ \A r \in Requests : stage[r] = "otp" => user.password = r

LEMMA CodeStep ==
  ASSUME TypeInv, KindInv, CodeInv, [Next]_vars
  PROVE  CodeInv'
<1>1. ASSUME NEW r \in Requests, Reads(r) PROVE CodeInv'
  BY <1>1, Reading
  DEF CodeInv, CodeBelongsToPassword, OnlyRequest, Arrived, FirstStep, LaterStep
<1>2. ASSUME NEW r \in Requests, Create(r) PROVE CodeInv'
  <2>1. CASE user = NoUser /\ user' = NewUser(r) /\ stage'[r] = "otp"
    <3>1. \A q \in Requests : stage[q] # "otp"
      BY <2>1 DEF TypeInv, RowInv, Updating
    <3>2. QED
      BY <1>2, <2>1, <3>1, Creating
      DEF CodeInv, CodeBelongsToPassword, OnlyRequest, NewUser
  <2>2. QED
    BY <1>2, <2>1, Creating DEF CodeInv, CodeBelongsToPassword, OnlyRequest
<1>3. ASSUME NEW r \in Requests, StoreOtp(r) PROVE CodeInv'
  BY <1>3, Ending, NullAssumption
  DEF StoreOtp, At, CodeInv, CodeBelongsToPassword, OnlyRequest, User
<1>4. ASSUME NEW r \in Requests, user # NoUser, user \in User, OnlyRequest(r),
             stage'[r] # "otp", user'.password = user.password,
             user'.otp \in {user.otp, NoCode}
      PROVE  CodeInv'
  BY <1>4 DEF CodeInv, CodeBelongsToPassword, OnlyRequest
<1>5. ASSUME NEW r \in Requests, Confirm(r) PROVE CodeInv'
  BY <1>5, <1>4, Ending DEF Confirm, Activated, User
<1>6. ASSUME NEW r \in Requests, Unlock(r) PROVE CodeInv'
  BY <1>6, <1>4, Unlocking DEF Unlocked, User
<1>7. ASSUME NEW r \in Requests, CountWrong(r) PROVE CodeInv'
  BY <1>7, <1>4, Ending DEF CountWrong, Counted, User
<1>8. ASSUME NEW r \in Requests, BumpVersion(r) \/ Disable(r) PROVE CodeInv'
  BY <1>8, <1>4, Ending DEF BumpVersion, Disable, User
<1>9. CASE Tick \/ UNCHANGED vars
  BY <1>9 DEF Tick, vars, handler, CodeInv, CodeBelongsToPassword
<1>10. QED
  BY Steps, <1>1, <1>2, <1>3, <1>5, <1>6, <1>7, <1>8, <1>9 DEF Writes

(* In whatever order registrations of one address create the row and store *)
(* their codes, the code in the row belongs to its password.               *)
THEOREM CodesMatch == Spec => []CodeBelongsToPassword
<1>1. Init => CodeInv
  BY DEF Init, CodeInv, CodeBelongsToPassword, NewUser
<1>2. CodeInv => CodeBelongsToPassword
  BY DEF CodeInv
<1>3. QED
  BY <1>1, <1>2, KindInvariant, CodeStep, PTL DEF Spec

-----------------------------------------------------------------------------
(* Only a code that was stored and sent in time activates the row: a       *)
(* handler that confirms has compared both.                                *)
AccessInv ==
  /\ user # NoUser /\ user.isActivated => confirmed
  /\ \A r \in Requests :
       stage[r] = "confirm" => /\ read[r].otp # NoCode
                               /\ asked[r].code = read[r].otp
                               /\ began[r] <= read[r].otpExpiry

LEMMA AccessStep ==
  ASSUME TypeInv, KindInv, AccessInv, [Next]_vars
  PROVE  AccessInv'
<1>1. ASSUME NEW r \in Requests, Reads(r) PROVE AccessInv'
  <2>1. /\ OnlyRequest(r) /\ UNCHANGED <<user, confirmed>>
        /\ Arrived(r) \/ LaterStep(r)
    BY <1>1, Reading
  <2>2. CASE stage'[r] = "confirm" /\ RightCode(asked[r].code)
             /\ read'[r] = user /\ began'[r] = now
    BY <2>1, <2>2 DEF AccessInv, OnlyRequest, RightCode
  <2>3. CASE stage'[r] # "confirm"
    BY <2>1, <2>3 DEF AccessInv, OnlyRequest
  <2>4. QED
    BY <2>1, <2>2, <2>3 DEF Arrived, FirstStep, LaterStep
<1>2. ASSUME NEW r \in Requests, OnlyRequest(r), stage'[r] # "confirm",
             user' # NoUser /\ user'.isActivated => confirmed'
      PROVE  AccessInv'
  BY <1>2 DEF AccessInv, OnlyRequest
<1>3. ASSUME NEW r \in Requests, Create(r) PROVE AccessInv'
  BY <1>3, <1>2, Creating DEF AccessInv, NewUser
<1>4. ASSUME NEW r \in Requests, StoreOtp(r) PROVE AccessInv'
  <2>1. user'.isActivated = user.isActivated /\ confirmed' = confirmed
    BY <1>4, Ending DEF StoreOtp, User
  <2>2. QED
    BY <1>4, <1>2, <2>1, Ending DEF AccessInv
<1>5. ASSUME NEW r \in Requests, Confirm(r) PROVE AccessInv'
  <2>1. confirmed'
    BY <1>5 DEF Confirm, At, AccessInv
  <2>2. QED
    BY <1>5, <1>2, <2>1, Ending
<1>6. ASSUME NEW r \in Requests, Unlock(r) PROVE AccessInv'
  <2>1. user'.isActivated = user.isActivated
    BY <1>6, Unlocking DEF Unlocked, User
  <2>2. QED
    BY <1>6, <1>2, <2>1, Unlocking DEF AccessInv
<1>7. ASSUME NEW r \in Requests, CountWrong(r) PROVE AccessInv'
  <2>1. user'.isActivated = user.isActivated /\ confirmed' = confirmed
    BY <1>7, Ending DEF CountWrong, Counted, User
  <2>2. QED
    BY <1>7, <1>2, <2>1, Ending DEF AccessInv
<1>8. ASSUME NEW r \in Requests, BumpVersion(r) PROVE AccessInv'
  <2>1. user'.isActivated = user.isActivated /\ confirmed' = confirmed
    BY <1>8, Ending DEF BumpVersion, User
  <2>2. QED
    BY <1>8, <1>2, <2>1, Ending DEF AccessInv
<1>9. ASSUME NEW r \in Requests, Disable(r) PROVE AccessInv'
  <2>1. ~user'.isActivated
    BY <1>9, Ending DEF Disable, User
  <2>2. QED
    BY <1>9, <1>2, <2>1, Ending
<1>10. CASE Tick \/ UNCHANGED vars
  BY <1>10 DEF Tick, vars, handler, history, AccessInv
<1>11. QED
  BY Steps, <1>1, <1>3, <1>4, <1>5, <1>6, <1>7, <1>8, <1>9, <1>10 DEF Writes

(* The e-mail guard lets nobody through before the stored code was sent in *)
(* time, nor after a deactivation before a code was used again, whatever   *)
(* else updates the row meanwhile.                                         *)
THEOREM GuardHolds == Spec => AccessOnlyWhenVerified
<1>1. Init => AccessInv
  BY DEF Init, AccessInv, NewUser
<1>2. ASSUME TypeInv, KindInv, AccessInv, [Next]_vars,
             NEW r \in Requests, asked[r].kind = "access",
             result[r] # "ok", result'[r] = "ok"
      PROVE  confirmed
  <2>1. ASSUME NEW q \in Requests, OnlyRequest(q) PROVE q = r
    BY <1>2, <2>1 DEF OnlyRequest
  <2>2. ASSUME NEW q \in Requests, Reads(q) PROVE confirmed
    <3>1. OnlyRequest(q) /\ (Arrived(q) \/ LaterStep(q))
      BY <1>2, <2>2, Reading
    <3>2. q = r
      BY <2>1, <3>1
    <3>3. Arrived(r)
      BY <1>2, <3>1, <3>2 DEF LaterStep
    <3>4. user # NoUser /\ user.isActivated
      BY <1>2, <3>1, <3>2, <3>3 DEF Arrived, FirstStep, OnlyRequest, TypeInv, RowInv
    <3>5. QED
      BY <1>2, <3>4 DEF AccessInv
  <2>3. ASSUME NEW q \in Requests, Writes(q) PROVE FALSE
    <3>1. OnlyRequest(q) /\ stage[q] \notin {"idle", "done"}
      BY <1>2, <2>3, Creating, Unlocking, Ending DEF Writes, Updating
    <3>2. q = r
      BY <2>1, <3>1
    <3>3. asked[r].kind # "access"
      BY <1>2, <2>3, <3>2
      DEF KindInv, Writes, Create, StoreOtp, Confirm, Unlock, CountWrong, BumpVersion,
          Disable, At
    <3>4. QED
      BY <1>2, <3>3
  <2>4. ~Tick /\ ~UNCHANGED vars
    BY <1>2 DEF Tick, vars, handler
  <2>5. QED
    BY <1>2, Steps, <2>2, <2>3, <2>4
<1>3. TypeInv /\ KindInv /\ AccessInv /\ [Next]_vars =>
        [\A r \in Requests :
           asked[r].kind = "access" /\ result[r] # "ok" /\ result'[r] = "ok" =>
             confirmed]_vars
  BY <1>2
<1>4. QED
  BY <1>1, <1>3, TypeInvariant, KindInvariant, AccessStep, PTL
  DEF Spec, AccessOnlyWhenVerified

-----------------------------------------------------------------------------
(* After such a deactivation no request can store a code, and none can     *)
(* confirm one: activation needs both.                                     *)
BanInv ==
  banned => /\ user # NoUser /\ ~user.isActive /\ user.otp = NoCode
            /\ \A r \in Requests : stage[r] \notin {"otp", "confirm"}

LEMMA BanStep ==
  ASSUME TypeInv, KindInv, BanInv, [Next]_vars
  PROVE  BanInv'
<1>1. ASSUME NEW r \in Requests, Reads(r) PROVE BanInv'
  BY <1>1, Reading DEF BanInv, OnlyRequest, Arrived, FirstStep, LaterStep, RightCode
<1>2. ASSUME NEW r \in Requests, OnlyRequest(r), banned' = banned,
             stage'[r] \notin {"otp", "confirm"}, user' # NoUser,
             user'.isActive = user.isActive, user'.otp = user.otp
      PROVE  BanInv'
  BY <1>2 DEF BanInv, OnlyRequest
<1>3. ASSUME NEW r \in Requests, Create(r) PROVE BanInv'
  BY <1>3, Creating DEF BanInv, OnlyRequest
<1>4. ASSUME NEW r \in Requests, StoreOtp(r) \/ Confirm(r) PROVE BanInv'
  BY <1>4 DEF StoreOtp, Confirm, At, BanInv
<1>5. ASSUME NEW r \in Requests, Unlock(r) PROVE BanInv'
  BY <1>5, <1>2, Unlocking DEF Unlocked, User
<1>6. ASSUME NEW r \in Requests, CountWrong(r) PROVE BanInv'
  <2>1. /\ user'.isActive = user.isActive /\ user'.otp = user.otp
        /\ banned' = banned
    BY <1>6, Ending DEF CountWrong, Counted, User
  <2>2. QED
    BY <1>6, <1>2, <2>1, Ending
<1>7. ASSUME NEW r \in Requests, BumpVersion(r) PROVE BanInv'
  BY <1>7, <1>2, Ending
  DEF BumpVersion, User
<1>8. ASSUME NEW r \in Requests, Disable(r) PROVE BanInv'
  BY <1>8, Ending
  DEF Disable, BanInv, OnlyRequest, User
<1>9. CASE Tick \/ UNCHANGED vars
  BY <1>9 DEF Tick, vars, handler, history, BanInv
<1>10. QED
  BY Steps, <1>1, <1>3, <1>4, <1>5, <1>6, <1>7, <1>8, <1>9 DEF Writes

(* A deactivation that met no code lasts.                                  *)
THEOREM BanLasts == Spec => []DeactivationLasts
<1>1. Init => BanInv
  BY DEF Init, BanInv
<1>2. BanInv => DeactivationLasts
  BY DEF BanInv, DeactivationLasts
<1>3. QED
  BY <1>1, <1>2, KindInvariant, BanStep, PTL DEF Spec

-----------------------------------------------------------------------------
(* A login that stands before its second read began at the latest now, and *)
(* a lock it would meet there is not one that had expired by then.         *)
ForceInv ==
  \A r \in Requests :
    /\ stage[r] \in {"unlock", "recheck"} => began[r] <= now
    /\ stage[r] = "recheck" /\ user.isLocked => user.lockedUntil >= began[r]

LEMMA ForceStep ==
  ASSUME TypeInv, KindInv, ForceInv, [Next]_vars
  PROVE  ForceInv'
<1>1. ASSUME NEW r \in Requests, Reads(r) PROVE ForceInv'
  <2>1. /\ OnlyRequest(r) /\ UNCHANGED <<user, now>>
        /\ Arrived(r) \/ LaterStep(r)
    BY <1>1, Reading
  <2>2. now \in Int
    BY DEF TypeInv, TypeOK
  <2>3. CASE stage'[r] = "recheck" /\ began'[r] = now /\ ~LockExpired(user)
    <3>1. user.isLocked => user.lockedUntil >= now
      <4>1. user \in User
        BY <2>1, <2>3, TypeStep DEF TypeInv, TypeOK, RowInv, Updating
      <4>2. QED
        BY <2>2, <2>3, <4>1 DEF LockExpired, User
    <3>2. QED
      BY <2>1, <2>2, <2>3, <3>1 DEF ForceInv, OnlyRequest
  <2>4. CASE stage'[r] = "unlock" /\ began'[r] = now
    BY <2>1, <2>2, <2>4 DEF ForceInv, OnlyRequest
  <2>5. CASE stage'[r] \notin {"unlock", "recheck"}
    BY <2>1, <2>5 DEF ForceInv, OnlyRequest
  <2>6. QED
    BY <2>1, <2>3, <2>4, <2>5 DEF Arrived, FirstStep, LaterStep
<1>2. ASSUME NEW r \in Requests, OnlyRequest(r), now' = now,
             stage'[r] \notin {"unlock", "recheck"},
             \/ user'.isLocked = user.isLocked /\ user'.lockedUntil = user.lockedUntil
             \/ user'.lockedUntil \in Nat /\ user'.lockedUntil >= now
      PROVE  ForceInv'
  <2>1. now \in Int /\ \A q \in Requests : began[q] \in Int
    BY DEF TypeInv, TypeOK
  <2>2. QED
    BY <1>2, <2>1 DEF ForceInv, OnlyRequest
<1>3. ASSUME NEW r \in Requests, Create(r) PROVE ForceInv'
  <2>1. CASE user' = user /\ stage'[r] = "done"
    BY <1>2, <1>3, <2>1, Creating
  <2>2. CASE user = NoUser /\ stage'[r] = "otp"
    BY <1>3, <2>2, Creating DEF ForceInv, OnlyRequest, TypeInv, RowInv, Updating
  <2>3. QED
    BY <1>3, <2>1, <2>2, Creating
<1>4. ASSUME NEW r \in Requests, StoreOtp(r) PROVE ForceInv'
  BY <1>4, <1>2, Ending DEF StoreOtp, User
<1>5. ASSUME NEW r \in Requests, Confirm(r) PROVE ForceInv'
  BY <1>5, <1>2, Ending DEF Confirm, Activated, User
<1>6. ASSUME NEW r \in Requests, BumpVersion(r) PROVE ForceInv'
  BY <1>6, <1>2, Ending DEF BumpVersion, User
<1>7. ASSUME NEW r \in Requests, Unlock(r) PROVE ForceInv'
  <2>1. ~user'.isLocked
    BY <1>7, Unlocking DEF Unlocked, User
  <2>2. QED
    BY <1>7, <2>1, Unlocking DEF ForceInv, OnlyRequest
<1>8. now \in Nat /\ LockTime \in Nat /\ BanTime \in Nat
  BY NumberAssumption DEF TypeInv, TypeOK
<1>9. ASSUME NEW r \in Requests, CountWrong(r) PROVE ForceInv'
  <2>1. \/ user'.isLocked = user.isLocked /\ user'.lockedUntil = user.lockedUntil
        \/ user'.lockedUntil = now + LockTime
    BY <1>9, Ending DEF CountWrong, Counted, User
  <2>2. now + LockTime \in Nat /\ now + LockTime >= now
    BY <1>8
  <2>3. QED
    BY <1>9, <1>2, <2>1, <2>2, Ending
<1>10. ASSUME NEW r \in Requests, Disable(r) PROVE ForceInv'
  <2>1. user'.lockedUntil = now + BanTime
    BY <1>10, Ending DEF Disable, User
  <2>2. now + BanTime \in Nat /\ now + BanTime >= now
    BY <1>8
  <2>3. QED
    BY <1>10, <1>2, <2>1, <2>2, Ending
<1>11. CASE Tick
  <2>1. \A q \in Requests : began[q] \in Int
    BY DEF TypeInv, TypeOK
  <2>2. QED
    BY <1>8, <1>11, <2>1 DEF Tick, handler, ForceInv
<1>12. CASE UNCHANGED vars
  BY <1>12 DEF vars, handler, ForceInv
<1>13. QED
  BY Steps, <1>1, <1>3, <1>4, <1>5, <1>6, <1>7, <1>9, <1>10, <1>11, <1>12 DEF Writes

(* A login meets a lock at its second read only if the lock was in force   *)
(* when the login began, or was set since.                                 *)
THEOREM LocksInForce == Spec => OnlyLocksInForceRefuse
<1>1. Init => ForceInv
  BY DEF Init, ForceInv
<1>2. ASSUME TypeInv, KindInv, ForceInv, [Next]_vars
      PROVE  [\A r \in Requests :
                stage[r] = "recheck" /\ result'[r] = "refused" /\ user.isActive =>
                  user.lockedUntil >= began[r]]_vars
  <2> SUFFICES ASSUME NEW r \in Requests, Next,
                      stage[r] = "recheck", result'[r] = "refused", user.isActive
               PROVE  user.isLocked
    BY <1>2 DEF ForceInv
  <2>1. result[r] = "none"
    BY <1>2 DEF TypeInv, RowInv
  <2>2. ASSUME NEW q \in Requests, OnlyRequest(q) PROVE q = r
    BY <2>1, <2>2 DEF OnlyRequest
  <2>3. ASSUME NEW q \in Requests, Reads(q) PROVE user.isLocked
    <3>1. q = r
      BY <1>2, <2>2, <2>3, Reading
    <3>2. Recheck(r) \/ Fails(r)
      BY <2>3, <3>1
      DEF Reads, Register, Verify, Login, Authenticate, Ban, Begins, Sign, FindUser, At
    <3>3. CASE Fails(r)
      BY <1>2, <3>3, FinishMoves DEF Fails, TypeInv, Statuses
    <3>4. CASE Recheck(r) /\ ~user.isLocked
      <4>1. Continues(r, IF asked[r].right THEN "sign" ELSE "count", user)
        BY <3>4 DEF Recheck
      <4>2. QED
        BY <2>1, <4>1 DEF Continues
    <3>5. user.isLocked \in BOOLEAN
      BY <1>2 DEF TypeInv, TypeOK, RowInv, Updating, User
    <3>6. QED
      BY <3>2, <3>3, <3>4
  <2>4. ASSUME NEW q \in Requests, Writes(q) PROVE FALSE
    <3>1. q = r
      BY <1>2, <2>2, <2>4, Creating, Unlocking, Ending DEF Writes
    <3>2. QED
      BY <2>4, <3>1
      DEF Writes, Create, StoreOtp, Confirm, Unlock, CountWrong, BumpVersion, Disable, At
  <2>5. CASE Tick \/ UNCHANGED vars
    BY <2>1, <2>5 DEF Tick, handler, vars
  <2>6. QED
    BY Steps, <2>3, <2>4, <2>5
<1>3. QED
  BY <1>1, <1>2, KindInvariant, ForceStep, PTL DEF Spec, OnlyLocksInForceRefuse

-----------------------------------------------------------------------------
(* While no two requests of a kind overlap, one at most is in progress.    *)
Alone(kind) ==
  \A q, r \in Requests :
    /\ stage[q] \notin {"idle", "done"} /\ asked[q].kind = kind
    /\ stage[r] \notin {"idle", "done"} /\ asked[r].kind = kind
    => q = r

LEMMA AloneStays ==
  ASSUME TypeInv, KindInv, NEW kind \in Kinds, kind \notin crossed => Alone(kind),
         [Next]_vars
  PROVE  kind \notin crossed' => kind \notin crossed /\ Alone(kind)'
<1>1. ASSUME NEW r \in Requests, OnlyRequest(r), crossed' = crossed,
             stage[r] \notin {"idle", "done"}
      PROVE  kind \notin crossed' => kind \notin crossed /\ Alone(kind)'
  BY <1>1 DEF Alone, OnlyRequest
<1>2. ASSUME NEW r \in Requests, OnlyRequest(r), Arrived(r)
      PROVE  kind \notin crossed' => kind \notin crossed /\ Alone(kind)'
  BY <1>2 DEF Alone, OnlyRequest, Arrived, InProgress
<1>3. ASSUME NEW r \in Requests, Writes(r)
      PROVE  OnlyRequest(r) /\ crossed' = crossed /\ stage[r] \notin {"idle", "done"}
  BY <1>3, Creating, Unlocking, Ending DEF Writes, Updating
<1>4. CASE Tick \/ UNCHANGED vars
  BY <1>4 DEF Tick, vars, handler, history, Alone
<1>5. QED
  BY Steps, <1>1, <1>2, <1>3, <1>4, Reading DEF LaterStep

(* While no two logins overlap, the count in the row is the number of      *)
(* wrong passwords, and so is the count a login is about to raise.         *)
AttemptInv ==
  "login" \notin crossed =>
    /\ Alone("login")
    /\ user = NoUser => wrong = 0
    /\ user # NoUser => user.loginLimit = wrong
    /\ \A r \in Requests : stage[r] = "count" => read[r].loginLimit = wrong

LEMMA AttemptStep ==
  ASSUME TypeInv, KindInv, AttemptInv, [Next]_vars
  PROVE  AttemptInv'
<1> SUFFICES ASSUME "login" \notin crossed'
             PROVE  AttemptInv'
  BY DEF AttemptInv
<1>1. "login" \notin crossed /\ Alone("login")' /\ Alone("login")
  BY AloneStays DEF AttemptInv, Kinds
<1>2. ASSUME NEW r \in Requests, Reads(r) PROVE AttemptInv'
  <2>1. /\ OnlyRequest(r) /\ UNCHANGED <<user, wrong>>
        /\ Arrived(r) \/ LaterStep(r)
    BY <1>2, Reading
  <2>2. CASE stage'[r] # "count"
    BY <1>1, <2>1, <2>2 DEF AttemptInv, OnlyRequest
  <2>3. CASE stage'[r] = "count"
    <3>1. stage[r] = "recheck" /\ read'[r] = user
      BY <2>1, <2>3 DEF Arrived, FirstStep, LaterStep
    <3>2. user # NoUser
      BY <3>1 DEF TypeInv, RowInv, Updating
    <3>3. QED
      BY <1>1, <2>1, <3>1, <3>2 DEF AttemptInv, OnlyRequest
  <2>4. QED
    BY <2>2, <2>3
<1>3. ASSUME NEW r \in Requests, OnlyRequest(r), wrong' = wrong, user # NoUser,
             user' # NoUser, user'.loginLimit = user.loginLimit, stage'[r] # "count"
      PROVE  AttemptInv'
  BY <1>1, <1>3 DEF AttemptInv, OnlyRequest
<1>4. ASSUME NEW r \in Requests, Create(r) PROVE AttemptInv'
  BY <1>1, <1>4, Creating DEF AttemptInv, OnlyRequest, NewUser
<1>5. ASSUME NEW r \in Requests, StoreOtp(r) PROVE AttemptInv'
  BY <1>3, <1>5, Ending DEF StoreOtp, User
<1>6. ASSUME NEW r \in Requests, Confirm(r) PROVE AttemptInv'
  BY <1>3, <1>6, Ending DEF Confirm, Activated, User
<1>7. ASSUME NEW r \in Requests, BumpVersion(r) \/ Disable(r) PROVE AttemptInv'
  BY <1>3, <1>7, Ending DEF BumpVersion, Disable, User
<1>8. ASSUME NEW r \in Requests, NEW q \in Requests, q # r,
             stage[r] \in {"unlock", "count"}
      PROVE  stage[q] # "count"
  BY <1>1, <1>8 DEF Alone, KindInv
<1>9. ASSUME NEW r \in Requests, Unlock(r) PROVE AttemptInv'
  <2>1. user'.loginLimit = 0
    BY <1>9, Unlocking DEF Unlocked, User
  <2>2. QED
    BY <1>1, <1>8, <1>9, <2>1, Unlocking DEF AttemptInv, OnlyRequest
<1>10. ASSUME NEW r \in Requests, CountWrong(r) PROVE AttemptInv'
  <2>1. /\ user'.loginLimit = read[r].loginLimit + 1
        /\ wrong' = wrong + 1 /\ stage[r] = "count"
    BY <1>10, Ending DEF CountWrong, Counted, At, User
  <2>2. QED
    BY <1>1, <1>8, <1>10, <2>1, Ending DEF AttemptInv, OnlyRequest
<1>11. CASE Tick \/ UNCHANGED vars
  BY <1>11 DEF Tick, vars, handler, history, AttemptInv, Alone
<1>12. QED
  BY Steps, <1>2, <1>4, <1>5, <1>6, <1>7, <1>9, <1>10, <1>11 DEF Writes

(* MaxAttempts wrong passwords lock the account as long as logins come one *)
(* after another, whatever other requests run between their statements.    *)
THEOREM AttemptsLock == Spec => []AttemptsAreLimited
<1>1. Init => AttemptInv
  BY DEF Init, AttemptInv, Alone, NewUser
<1>2. TypeInv /\ AttemptInv => AttemptsAreLimited
  BY NumberAssumption
  DEF TypeInv, RowInv, AttemptInv, AttemptsAreLimited, LimitMeansLocked
<1>3. QED
  BY <1>1, <1>2, KindInvariant, AttemptStep, PTL DEF Spec

-----------------------------------------------------------------------------
(* While no two logouts overlap, a logout moves the row from the version   *)
(* of its token to the next, which is above every version logged out.      *)
LogoutInv ==
  "logout" \notin crossed =>
    /\ Alone("logout")
    /\ user = NoUser => loggedOut = {}
    /\ user # NoUser => \A version \in loggedOut : version < user.tokenVersion
    /\ \A r \in Requests :
         /\ stage[r] \in {"find", "bump"} => token[r] = user.tokenVersion
         /\ stage[r] = "bump" => read[r].tokenVersion = user.tokenVersion

LEMMA LogoutStep ==
  ASSUME TypeInv, KindInv, LogoutInv, [Next]_vars
  PROVE  LogoutInv'
<1> SUFFICES ASSUME "logout" \notin crossed'
             PROVE  LogoutInv'
  BY DEF LogoutInv
<1>1. "logout" \notin crossed /\ Alone("logout")' /\ Alone("logout")
  BY AloneStays DEF LogoutInv, Kinds
<1>2. ASSUME NEW r \in Requests, Reads(r) PROVE LogoutInv'
  <2>1. /\ OnlyRequest(r) /\ UNCHANGED <<user, loggedOut>>
        /\ Arrived(r) \/ LaterStep(r)
    BY <1>2, Reading
  <2>2. CASE stage'[r] \notin {"find", "bump"}
    BY <1>1, <2>1, <2>2 DEF LogoutInv, OnlyRequest
  <2>3. CASE stage'[r] = "find" /\ Accepts(token'[r])
    BY <1>1, <2>1, <2>3 DEF LogoutInv, OnlyRequest, Accepts
  <2>4. CASE stage[r] = "find" /\ stage'[r] = "bump" /\ read'[r] = user
             /\ token'[r] = token[r]
    BY <1>1, <2>1, <2>4 DEF LogoutInv, OnlyRequest
  <2>5. QED
    BY <2>1, <2>2, <2>3, <2>4 DEF Arrived, FirstStep, LaterStep
<1>3. ASSUME NEW r \in Requests, OnlyRequest(r), loggedOut' = loggedOut, user # NoUser,
             user' # NoUser, user'.tokenVersion = user.tokenVersion,
             stage'[r] \notin {"find", "bump"}
      PROVE  LogoutInv'
  BY <1>1, <1>3 DEF LogoutInv, OnlyRequest
<1>4. ASSUME NEW r \in Requests, Create(r) PROVE LogoutInv'
  <2>1. CASE user' = user /\ stage'[r] = "done"
    BY <1>1, <1>4, <2>1, Creating DEF LogoutInv, OnlyRequest
  <2>2. CASE user = NoUser /\ stage'[r] = "otp"
    BY <1>1, <1>4, <2>2, Creating
    DEF LogoutInv, OnlyRequest, TypeInv, RowInv, Updating
  <2>3. QED
    BY <1>4, <2>1, <2>2, Creating
<1>5. ASSUME NEW r \in Requests, StoreOtp(r) PROVE LogoutInv'
  BY <1>3, <1>5, Ending DEF StoreOtp, User
<1>6. ASSUME NEW r \in Requests, Confirm(r) PROVE LogoutInv'
  BY <1>3, <1>6, Ending DEF Confirm, Activated, User
<1>7. ASSUME NEW r \in Requests, Unlock(r) PROVE LogoutInv'
  BY <1>3, <1>7, Unlocking DEF Unlocked, User
<1>8. ASSUME NEW r \in Requests, CountWrong(r) PROVE LogoutInv'
  BY <1>3, <1>8, Ending DEF CountWrong, Counted, User
<1>9. ASSUME NEW r \in Requests, Disable(r) PROVE LogoutInv'
  BY <1>3, <1>9, Ending DEF Disable, User
<1>10. ASSUME NEW r \in Requests, BumpVersion(r) PROVE LogoutInv'
  <2>1. stage[r] = "bump" /\ loggedOut' = loggedOut \union {token[r]}
    BY <1>10 DEF BumpVersion, At
  <2>2. user'.tokenVersion = user.tokenVersion + 1
    BY <1>1, <1>10, <2>1, Ending DEF BumpVersion, NextVersion, LogoutInv, User
  <2>3. \A q \in Requests : q # r => stage[q] \notin {"find", "bump"}
    BY <1>1, <2>1 DEF Alone, KindInv
  <2>4. user.tokenVersion \in Nat /\ token[r] = user.tokenVersion
        /\ loggedOut \subseteq Nat
    BY <1>1, <1>10, <2>1, Ending DEF LogoutInv, User, TypeInv, TypeOK
  <2>5. \A version \in loggedOut' : version < user'.tokenVersion
    BY <1>1, <1>10, <2>1, <2>2, <2>4, Ending DEF LogoutInv
  <2>6. QED
    BY <1>1, <1>10, <2>3, <2>5, Ending DEF LogoutInv, OnlyRequest
<1>11. CASE Tick \/ UNCHANGED vars
  BY <1>11 DEF Tick, vars, handler, history, LogoutInv, Alone
<1>12. QED
  BY Steps, <1>2, <1>4, <1>5, <1>6, <1>7, <1>8, <1>9, <1>10, <1>11 DEF Writes

(* As long as logouts come one after another, none of their tokens is ever *)
(* accepted again.                                                         *)
THEOREM LogoutsLast == Spec => []LogoutInvalidates
<1>1. Init => LogoutInv
  BY DEF Init, LogoutInv, Alone
<1>2. ASSUME TypeInv, LogoutInv PROVE LogoutInvalidates
  <2>1. user # NoUser => user.tokenVersion \in Nat /\ loggedOut \subseteq Nat
    BY <1>2 DEF TypeInv, TypeOK, User
  <2>2. QED
    BY <1>2, <2>1 DEF LogoutInv, LogoutInvalidates, LoggedOutStaysOut, Accepts
<1>3. QED
  BY <1>1, <1>2, KindInvariant, LogoutStep, PTL DEF Spec
=============================================================================

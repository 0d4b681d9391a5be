-------------------------------- MODULE Auth --------------------------------
(***************************************************************************)
(* AuthService, LocalStrategy and JwtStrategy over the row of one account. *)
(* Each handler reads the row, awaits, and later updates some columns from *)
(* what it read; every statement commits on its own and no row is locked,  *)
(* so that handlers of the same account interleave between any two         *)
(* statements.  The requests all concern one e-mail address.               *)
(*                                                                         *)
(* A code (OTP) and a password are known by the registration they belong   *)
(* to.  A token is known by the tokenVersion it was signed with, the only  *)
(* part of it that is compared with the row.                               *)
(***************************************************************************)
EXTENDS Integers, FiniteSets

CONSTANTS
  Requests,      \* request ids
  Offered,       \* the requests clients may send
  NoUser,        \* null: no row
  NoCode,        \* null: no code
  MaxAttempts,   \* MAX_LOGIN_ATTEMPTS
  LockTime,      \* LOCK_DURATION_MS
  BanTime,       \* a year, the lock of a deactivated account
  OtpTime,       \* OTP_EXPIRY_MINUTES
  MaxTime,       \* bound: the last instant
  Concurrency    \* bound: requests in progress at the same time

Codes == Requests

(* access stands for every request that needs a token and a verified       *)
(* e-mail address; ban is an administrator's deactivation of this account. *)
Kinds   == {"register", "verify", "login", "logout", "deactivate", "ban", "access"}
Request == [kind : Kinds,
            right : BOOLEAN,                \* login: the password is right
            code : Codes \union {NoCode}]   \* verify: the code; NoCode is none's

User == [password : Codes \union {NoCode},
         isActive : BOOLEAN, isActivated : BOOLEAN,
         isLocked : BOOLEAN, lockedUntil : Nat, loginLimit : 0..MaxAttempts,
         otp : Codes \union {NoCode}, otpExpiry : Nat,
         tokenVersion : Nat]

ASSUME OfferedAssumption == Offered \subseteq Request
ASSUME NullAssumption    == NoCode \notin Codes /\ NoUser \notin User
ASSUME NumberAssumption  == /\ MaxAttempts \in Nat \ {0}
                            /\ LockTime \in Nat /\ BanTime \in Nat /\ OtpTime \in Nat
                            /\ MaxTime \in Nat /\ Concurrency \in Nat

VARIABLES
  asked,      \* what each request asks for
  stage,      \* the statement each request issues next
  token,      \* tokenVersion of the token each request presented
  read,       \* the row as each handler read it last
  result,     \* how each request ended
  user,       \* users: the row of the account
  issued,     \* versions of the tokens clients hold
  now,        \* the clock
  began,      \* history: when each request began
  crossed,    \* history: kinds of which two requests have overlapped
  wrong,      \* history: wrong passwords counted since the last unlock
  confirmed,  \* history: the stored code came in time, since the last deactivation
  loggedOut,  \* history: versions of tokens that a logout was answered with
  banned      \* history: deactivated when no code was stored or on its way

handler == <<asked, stage, token, read, result, began>>
history == <<crossed, wrong, confirmed, loggedOut, banned>>
vars    == <<handler, user, issued, now, history>>

Stages   == {"idle", "create", "otp", "confirm", "unlock", "recheck", "count",
             "sign", "find", "bump", "disable", "done"}
Statuses == {"none", "ok", "refused", "conflict", "failed"}

InProgress == {r \in Requests : stage[r] \notin {"idle", "done"}}

TypeOK ==
  /\ asked \in [Requests -> Offered]
  /\ stage \in [Requests -> Stages]
  /\ token \in [Requests -> Nat]
  /\ read \in [Requests -> User \union {NoUser}]
  /\ result \in [Requests -> Statuses]
  /\ user \in User \union {NoUser}
  /\ issued \subseteq Nat
  /\ now \in 0..MaxTime
  /\ began \in [Requests -> 0..MaxTime]
  /\ crossed \subseteq Kinds
  /\ wrong \in Nat
  /\ confirmed \in BOOLEAN
  /\ loggedOut \subseteq Nat
  /\ banned \in BOOLEAN

(* userRepository.create: the row of a registration, with its defaults. *)
NewUser(password) ==
  [password |-> password, isActive |-> TRUE, isActivated |-> FALSE,
   isLocked |-> FALSE, lockedUntil |-> 0, loginLimit |-> 0,
   otp |-> NoCode, otpExpiry |-> 0, tokenVersion |-> 0]

(* The account does not exist yet, or was verified some time ago, and a    *)
(* client holds a token of it.                                             *)
Init ==
  /\ asked \in [Requests -> Offered]
  /\ \/ user = NoUser /\ issued = {} /\ confirmed = FALSE
     \/ user = [NewUser(NoCode) EXCEPT !.isActivated = TRUE]
        /\ issued = {0} /\ confirmed = TRUE
  /\ stage = [r \in Requests |-> "idle"]
  /\ token = [r \in Requests |-> 0]
  /\ read = [r \in Requests |-> NoUser]
  /\ result = [r \in Requests |-> "none"]
  /\ now = 0
  /\ began = [r \in Requests |-> 0]
  /\ crossed = {}
  /\ wrong = 0
  /\ loggedOut = {}
  /\ banned = FALSE

-----------------------------------------------------------------------------
Goto(r, s) == stage' = [stage EXCEPT ![r] = s]

Read(r, row) == read' = [read EXCEPT ![r] = row]

(* The handler ends; what it had read is gone. *)
Finish(r, status) ==
  /\ Goto(r, "done")
  /\ result' = [result EXCEPT ![r] = status]
  /\ Read(r, NoUser)
  /\ token' = [token EXCEPT ![r] = 0]
  /\ began' = [began EXCEPT ![r] = 0]

(* Request r of one of the kinds arrives. *)
Begins(r, kinds) ==
  /\ stage[r] = "idle"
  /\ asked[r].kind \in kinds
  /\ Cardinality(InProgress) < Concurrency
  /\ crossed' = IF \E s \in InProgress : asked[s].kind = asked[r].kind
                THEN crossed \union {asked[r].kind} ELSE crossed
  /\ UNCHANGED <<asked, now, wrong, loggedOut>>

(* Its handler awaits the statement at s. *)
Awaits(r, s, version, row) ==
  /\ Goto(r, s)
  /\ began' = [began EXCEPT ![r] = now]
  /\ token' = [token EXCEPT ![r] = version]
  /\ Read(r, row)
  /\ UNCHANGED result

(* Request r takes its step at s. *)
At(r, s) == stage[r] = s /\ UNCHANGED <<asked, now, crossed>>

(* It goes on to t with the row it has read. *)
Continues(r, t, row) == Goto(r, t) /\ Read(r, row) /\ UNCHANGED <<result, token, began>>

-----------------------------------------------------------------------------
(* POST /auth/register. *)

(* createUser: findByEmail, 'Email already registered', hashPassword. *)
Register(r) ==
  /\ Begins(r, {"register"})
  /\ IF user # NoUser THEN Finish(r, "conflict")
                       ELSE Awaits(r, "create", 0, NoUser)
  /\ UNCHANGED <<user, issued, confirmed, banned>>

(* Fault: a registration that comes second goes on. *)
CreateOrGet(r) ==
  /\ At(r, "create")
  /\ user' = IF user = NoUser THEN NewUser(r) ELSE user
  /\ Continues(r, "otp", NoUser)
  /\ UNCHANGED <<issued, wrong, confirmed, loggedOut, banned>>

(* createUser: the INSERT, against the unique index on the address. *)
Create(r) ==
  /\ At(r, "create")
  /\ IF user = NoUser
     THEN user' = NewUser(r) /\ Continues(r, "otp", NoUser)
     ELSE Finish(r, "conflict") /\ UNCHANGED user
  /\ UNCHANGED <<issued, wrong, confirmed, loggedOut, banned>>

(* The code is stored and mailed. *)
StoreOtp(r) ==
  /\ At(r, "otp")
  /\ user' = [user EXCEPT !.otp = r, !.otpExpiry = now + OtpTime]
  /\ Finish(r, "ok")
  /\ UNCHANGED <<issued, wrong, confirmed, loggedOut, banned>>

-----------------------------------------------------------------------------
(* POST /auth/verify. *)

(* Fault: the expiry is not compared. *)
LateCode(code) == user # NoUser /\ user.otp # NoCode /\ user.otp = code

RightCode(code) ==
  /\ user # NoUser
  /\ user.otp # NoCode
  /\ now <= user.otpExpiry
  /\ user.otp = code

(* findByEmail and the comparison of code, type and expiry. *)
Verify(r) ==
  /\ Begins(r, {"verify"})
  /\ IF RightCode(asked[r].code)
     THEN Awaits(r, "confirm", 0, user)
     ELSE Finish(r, "refused")
  /\ UNCHANGED <<user, issued, confirmed, banned>>

Activated(row) ==
  [row EXCEPT !.otp = NoCode, !.otpExpiry = 0, !.isActivated = TRUE, !.isActive = TRUE]

Confirm(r) ==
  /\ At(r, "confirm")
  /\ user' = Activated(user)
  /\ confirmed' = (confirmed \/ (/\ read[r].otp # NoCode
                                 /\ asked[r].code = read[r].otp
                                 /\ began[r] <= read[r].otpExpiry))
  /\ Finish(r, "ok")
  /\ UNCHANGED <<issued, wrong, loggedOut, banned>>

-----------------------------------------------------------------------------
(* POST /auth/login: LocalStrategy.validate, then AuthService.login. *)

LockExpired(row) == row.isLocked /\ now > row.lockedUntil

(* findByEmail, and checkLockedStatus up to its update. *)
Login(r) ==
  /\ Begins(r, {"login"})
  /\ IF user = NoUser THEN Finish(r, "refused")
     ELSE Awaits(r, IF LockExpired(user) THEN "unlock" ELSE "recheck", 0, user)
  /\ UNCHANGED <<user, issued, confirmed, banned>>

(* Fault: activateAccount serves to clear the lock. *)
ActivatedToo(row) ==
  [row EXCEPT !.isLocked = FALSE, !.lockedUntil = 0, !.loginLimit = 0,
              !.isActivated = TRUE, !.isActive = TRUE]

(* Fault: the lock goes, the count stays. *)
LockCleared(row) == [row EXCEPT !.isLocked = FALSE, !.lockedUntil = 0]

(* Fault: the count goes back to zero, the lock stays. *)
CountCleared(row) == [row EXCEPT !.loginLimit = 0]

Unlocked(row) == [row EXCEPT !.isLocked = FALSE, !.lockedUntil = 0, !.loginLimit = 0]

(* checkLockedStatus: the lock has expired. *)
Unlock(r) ==
  /\ At(r, "unlock")
  /\ user' = Unlocked(user)
  /\ wrong' = 0
  /\ Continues(r, "recheck", read[r])
  /\ UNCHANGED <<issued, confirmed, loggedOut, banned>>

(* The second findByEmail; the password is compared with what it returns. *)
Recheck(r) ==
  /\ At(r, "recheck")
  /\ IF ~user.isActive \/ user.isLocked THEN Finish(r, "refused")
     ELSE Continues(r, IF asked[r].right THEN "sign" ELSE "count", user)
  /\ UNCHANGED <<user, issued, wrong, confirmed, loggedOut, banned>>

(* Fault: one attempt too many before the lock. *)
CountedLate(row, n) ==
  IF n > MaxAttempts
  THEN [row EXCEPT !.loginLimit = n, !.isLocked = TRUE, !.lockedUntil = now + LockTime]
  ELSE [row EXCEPT !.loginLimit = n]

Counted(row, n) ==
  IF n >= MaxAttempts
  THEN [row EXCEPT !.loginLimit = n, !.isLocked = TRUE, !.lockedUntil = now + LockTime]
  ELSE [row EXCEPT !.loginLimit = n]

(* increaseLoginLimit: the successor of the count that was read. *)
CountWrong(r) ==
  /\ At(r, "count")
  /\ user' = Counted(user, read[r].loginLimit + 1)
  /\ wrong' = wrong + 1
  /\ Finish(r, "refused")
  /\ UNCHANGED <<issued, confirmed, loggedOut, banned>>

(* updateLastLogin, then sign with the version that was read. *)
Sign(r) ==
  /\ At(r, "sign")
  /\ issued' = issued \union {read[r].tokenVersion}
  /\ Finish(r, "ok")
  /\ UNCHANGED <<user, wrong, confirmed, loggedOut, banned>>

-----------------------------------------------------------------------------
(* Requests with a token: JwtStrategy.validate, then the handler. *)

Accepts(version) ==
  user # NoUser /\ user.isActive /\ user.tokenVersion = version

(* EmailVerifiedGuard, with what validate returned. *)
Enters == user.isActivated

Authenticate(r) ==
  /\ Begins(r, {"logout", "deactivate", "access"})
  /\ \E version \in issued :
       CASE ~Accepts(version) -> Finish(r, "refused")
         [] Accepts(version) /\ asked[r].kind = "access" ->
              Finish(r, IF Enters THEN "ok" ELSE "refused")
         [] Accepts(version) /\ asked[r].kind # "access" ->
              Awaits(r, IF asked[r].kind = "logout" THEN "find" ELSE "disable",
                     version, NoUser)
  /\ UNCHANGED <<user, issued, confirmed, banned>>

(* logout: findById. *)
FindUser(r) ==
  /\ At(r, "find")
  /\ Continues(r, "bump", user)
  /\ UNCHANGED <<user, issued, wrong, confirmed, loggedOut, banned>>

(* Fault: the version is written back as it was read. *)
SameVersion(row) == row.tokenVersion

NextVersion(row) == row.tokenVersion + 1

(* logout: the successor of the version that was read. *)
BumpVersion(r) ==
  /\ At(r, "bump")
  /\ user' = [user EXCEPT !.tokenVersion = NextVersion(read[r])]
  /\ loggedOut' = loggedOut \union {token[r]}
  /\ Finish(r, "ok")
  /\ UNCHANGED <<issued, wrong, confirmed, banned>>

(* POST /auth/deactivate of this account by an administrator. *)
Ban(r) ==
  /\ Begins(r, {"ban"})
  /\ IF user = NoUser THEN Finish(r, "refused")
                       ELSE Awaits(r, "disable", 0, NoUser)
  /\ UNCHANGED <<user, issued, confirmed, banned>>

(* deactivateAccount; the row is read before and not used. *)
Disable(r) ==
  /\ At(r, "disable")
  /\ user' = [user EXCEPT !.isActive = FALSE, !.isActivated = FALSE,
                          !.isLocked = TRUE, !.lockedUntil = now + BanTime]
  /\ banned' = (banned \/ (/\ user.otp = NoCode
                           /\ \A s \in Requests : stage[s] \notin {"otp", "confirm"}))
  /\ confirmed' = FALSE
  /\ Finish(r, "ok")
  /\ UNCHANGED <<issued, wrong, loggedOut>>

-----------------------------------------------------------------------------
(* A statement fails or the server dies: the statements before it stay. *)
Fails(r) ==
  /\ r \in InProgress
  /\ Finish(r, "failed")
  /\ UNCHANGED <<asked, user, issued, now, history>>

Tick ==
  /\ now < MaxTime
  /\ now' = now + 1
  /\ UNCHANGED <<handler, user, issued, history>>

(* Every request has ended, or nobody holds a token to send it with. *)
Quiet ==
  /\ now = MaxTime
  /\ InProgress = {}
  /\ \A r \in Requests :
       \/ stage[r] = "done"
       \/ asked[r].kind \in {"logout", "deactivate", "access"} /\ issued = {}
  /\ UNCHANGED vars

Registration(r) == Register(r) \/ Create(r) \/ StoreOtp(r)
Verification(r) == Verify(r) \/ Confirm(r)
LogsIn(r)       == Login(r) \/ Unlock(r) \/ Recheck(r) \/ CountWrong(r) \/ Sign(r)
WithToken(r)    == Authenticate(r) \/ FindUser(r) \/ BumpVersion(r) \/ Ban(r) \/ Disable(r)

Next ==
  \/ \E r \in Requests :
       Registration(r) \/ Verification(r) \/ LogsIn(r) \/ WithToken(r) \/ Fails(r)
  \/ Tick
  \/ Quiet

Spec == Init /\ [][Next]_vars

-----------------------------------------------------------------------------
(* Properties. *)

(* Whatever logins, expiring locks and deactivations overlap, an account   *)
(* whose count stands at the limit is locked.                              *)
LimitMeansLocked ==
  user # NoUser /\ user.loginLimit >= MaxAttempts => user.isLocked

(* As long as no two logins overlap, MaxAttempts wrong passwords since     *)
(* the last unlock lock the account, whatever else runs meanwhile.         *)
AttemptsAreLimited ==
  "login" \notin crossed /\ wrong >= MaxAttempts => user.isLocked

(* A login on an active account is turned away before its password is      *)
(* looked at only for a lock that was in force when the login began or     *)
(* was set since: checkLockedStatus and the second read see to it that an  *)
(* expired lock is gone.                                                   *)
OnlyLocksInForceRefuse ==
  [][\A r \in Requests :
       stage[r] = "recheck" /\ result'[r] = "refused" /\ user.isActive =>
         user.lockedUntil >= began[r]]_vars

(* Nobody passes the e-mail guard unless the stored code was sent before   *)
(* it expired, and used after the account was deactivated last, in         *)
(* whatever order codes are stored, sent and used up.                      *)
AccessOnlyWhenVerified ==
  [][\A r \in Requests :
       asked[r].kind = "access" /\ result[r] # "ok" /\ result'[r] = "ok" =>
         confirmed]_vars

(* The code that opens the account was mailed for the registration that    *)
(* set its password, also when several register the address at once.       *)
CodeBelongsToPassword ==
  user # NoUser /\ user.otp # NoCode => user.otp = user.password

(* An account that was deactivated when no code was stored, and none was   *)
(* being stored or confirmed, stays inactive.                              *)
DeactivationLasts == banned => ~user.isActive

(* "Invalidate token" (README.md:343): a token is not accepted again once  *)
(* a logout was answered with it.  Logouts that overlap write stale        *)
(* versions, and a late one brings a version back.                         *)
LoggedOutStaysOut == \A version \in loggedOut : ~Accepts(version)

(* It is so as long as no two logouts overlap, whatever else runs.         *)
LogoutInvalidates == "logout" \notin crossed => LoggedOutStaysOut
=============================================================================

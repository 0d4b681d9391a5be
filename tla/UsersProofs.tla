---------------------------- MODULE UsersProofs ----------------------------
(* Theorems about Users and ListQuery, for any number of users, requests   *)
(* and pages, every page size and every time to live.                      *)
EXTENDS Users, FiniteSetTheorems, TLAPS

-----------------------------------------------------------------------------
(* Pages of a finite list. *)

LEMMA Counted ==
  ASSUME NEW V \in SUBSET Rows
  PROVE  IsFiniteSet(V) /\ Cardinality(V) \in Nat
  BY RankAssumption, FS_Subset, FS_CardinalityType

LEMMA PlaceTyped ==
  ASSUME NEW V \in SUBSET Rows, NEW a \in V
  PROVE  Place(a, V) \in 1..Cardinality(V)
<1> DEFINE P == {b \in V : Rank[b] <= Rank[a]}
<1>1. IsFiniteSet(P) /\ Cardinality(P) \in Nat /\ Cardinality(V) \in Nat
  BY Counted
<1>2. Cardinality(P) <= Cardinality(V)
  BY Counted, FS_Subset
<1>3. a \in P
  BY RankAssumption
<1>4. Cardinality(P) # 0
  BY <1>1, <1>3, FS_EmptySet
<1>5. QED
  BY <1>1, <1>2, <1>4 DEF Place

LEMMA PlaceRises ==
  ASSUME NEW V \in SUBSET Rows, NEW a \in V, NEW b \in V, Rank[a] < Rank[b]
  PROVE  Place(a, V) < Place(b, V)
<1> DEFINE P == {c \in V : Rank[c] <= Rank[a]}
           Q == {c \in V : Rank[c] <= Rank[b]}
<1>1. \A c \in V : Rank[c] \in Int
  BY RankAssumption
<1>2. P \subseteq Q /\ b \in Q /\ b \notin P
  BY <1>1
<1>3. Cardinality(P) <= Cardinality(Q) /\ (Cardinality(P) = Cardinality(Q) => Q = P)
  <2>1. IsFiniteSet(Q) /\ P \in SUBSET Q
    BY <1>2, Counted
  <2>2. QED
    BY <2>1, FS_Subset
<1>4. Cardinality(P) \in Nat /\ Cardinality(Q) \in Nat
  BY Counted
<1>5. Cardinality(P) < Cardinality(Q)
  BY <1>2, <1>3, <1>4
<1>6. QED
  BY <1>5 DEF Place

LEMMA PlaceGrows ==
  ASSUME NEW W \in SUBSET Rows, NEW V \in SUBSET W, NEW a \in V
  PROVE  Place(a, V) <= Place(a, W)
<1> DEFINE P == {c \in V : Rank[c] <= Rank[a]}
           Q == {c \in W : Rank[c] <= Rank[a]}
<1>1. IsFiniteSet(Q) /\ P \in SUBSET Q
  BY Counted
<1>2. Cardinality(P) <= Cardinality(Q)
  BY <1>1, FS_Subset
<1>3. QED
  BY <1>2 DEF Place

(* Every place is taken: places are as many as rows, and all differ.       *)
LEMMA EveryPlace ==
  ASSUME NEW V \in SUBSET Rows, NEW m \in 1..Cardinality(V)
  PROVE  \E a \in V : Place(a, V) = m
<1> DEFINE T == 1..Cardinality(V)
           f == [a \in V |-> Place(a, V)]
<1>1. f \in [V -> T]
  BY PlaceTyped
<1>2. \A a, b \in V : f[a] = f[b] => a = b
  <2>1. SUFFICES ASSUME NEW a \in V, NEW b \in V, a # b
                 PROVE  Place(a, V) # Place(b, V)
    OBVIOUS
  <2>2. Rank[a] \in Int /\ Rank[b] \in Int /\ Rank[a] # Rank[b]
    BY <2>1, RankAssumption
  <2>3. Rank[a] < Rank[b] \/ Rank[b] < Rank[a]
    BY <2>2
  <2>4. Place(a, V) \in Int /\ Place(b, V) \in Int
    BY PlaceTyped, Counted
  <2>5. QED
    BY <2>3, <2>4, PlaceRises
<1>3. f \in Injection(V, T)
  BY <1>1, <1>2 DEF Injection, IsInjective
<1>4. IsFiniteSet(T) /\ Cardinality(T) = Cardinality(V)
  <2>1. Cardinality(V) \in Nat
    BY Counted
  <2>2. QED
    BY <2>1, FS_Interval
<1>5. f \in Surjection(V, T)
  BY <1>3, <1>4, FS_Injection
<1>6. QED
  BY <1>5 DEF Surjection

(* A page that rows follow is full. *)
LEMMA FullSlice ==
  ASSUME NEW V \in SUBSET Rows, NEW page \in Nat \ {0}, NEW limit \in Nat \ {0},
         NEW a \in V, Place(a, V) > Skipped(page, limit) + limit
  PROVE  Cardinality(Slice(V, page, limit)) >= limit
<1> DEFINE skipped == Skipped(page, limit)
           S == Slice(V, page, limit)
           T == (skipped + 1)..(skipped + limit)
           f == [b \in S |-> Place(b, V)]
<1>1. skipped \in Nat
  BY DEF Skipped
<1>2. Place(a, V) \in 1..Cardinality(V) /\ Cardinality(V) \in Nat
  BY PlaceTyped, Counted
<1>3. T \subseteq 1..Cardinality(V)
  BY <1>1, <1>2
<1>4. f \in [S -> T]
  <2>1. \A b \in S : b \in V /\ Place(b, V) > skipped /\ Place(b, V) <= skipped + limit
    BY DEF Slice
  <2>2. \A b \in S : Place(b, V) \in Int
    BY <2>1, PlaceTyped, <1>2
  <2>3. QED
    BY <1>1, <2>1, <2>2
<1>5. \A m \in T : \E b \in S : f[b] = m
  <2>1. SUFFICES ASSUME NEW m \in T PROVE \E b \in S : Place(b, V) = m
    OBVIOUS
  <2>2. PICK b \in V : Place(b, V) = m
    BY <1>3, EveryPlace
  <2>3. m > skipped /\ m <= skipped + limit
    BY <1>1
  <2>4. b \in S
    BY <2>2, <2>3 DEF Slice
  <2>5. QED
    BY <2>2, <2>4
<1>6. f \in Surjection(S, T)
  BY <1>4, <1>5 DEF Surjection
<1>7. IsFiniteSet(S) /\ S \subseteq Rows
  <2>1. S \in SUBSET Rows
    BY DEF Slice
  <2>2. QED
    BY <2>1, Counted
<1>8. Cardinality(T) <= Cardinality(S)
  BY <1>6, <1>7, FS_Surjection
<1>9. Cardinality(T) = limit
  <2>1. skipped + 1 \in Int /\ skipped + limit \in Int /\ skipped + 1 <= skipped + limit
    BY <1>1
  <2>2. QED
    BY <1>1, <2>1, FS_Interval
<1>10. QED
  BY <1>8, <1>9

(* Pages and limits are positive, and limits no greater than the maximum.  *)
LEMMA ParseTyped ==
  ASSUME NEW value \in Raw
  PROVE  ParsePage(value) \in Nat \ {0} /\ ParseLimit(value) \in 1..MaxLimit
<1>1. Or(value, 1) \in Int /\ Or(value, DefaultLimit) \in Int
  BY LimitAssumption DEF Or, Raw
<1>2. QED
  BY <1>1, LimitAssumption DEF ParsePage, ParseLimit, AtLeastOne, AtMost

-----------------------------------------------------------------------------
(* Type correctness. *)

StagesFit ==
  \A r \in Requests :
    /\ stage[r] \in {"keep", "hide", "forget"} => user[Who(r)] # NoUser
    /\ stage[r] = "check" => asked[r].kind = "seed"
    /\ stage[r] = "insert" /\ asked[r].kind = "bulk" => my[r].entry \in Rows
    /\ stage[r] \in {"get", "items", "count", "cache"} =>
         asked[r].kind = "list" /\ my[r].key.all = asked[r].all
    /\ asked[r].kind = "list" =>
         stage[r] \in {"idle", "get", "items", "count", "cache", "done"}
    /\ stage[r] = "done" <=> result[r] # "none"

TypeInv == TypeOK /\ StagesFit

LEMMA AskedTyped ==
  ASSUME TypeOK, NEW r \in Requests
  PROVE  /\ asked[r].kind \in Kinds /\ Who(r) \in Rows
         /\ asked[r].entries \in SUBSET Rows /\ asked[r].isNew \in BOOLEAN
         /\ asked[r].page \in Raw /\ asked[r].limit \in Raw /\ asked[r].all \in BOOLEAN
  BY OfferedAssumption DEF TypeOK, Request, Who

LEMMA KeyTyped ==
  ASSUME TypeOK, NEW r \in Requests
  PROVE  KeyOf(asked[r]) \in Key /\ KeyOf(asked[r]).all = asked[r].all
  BY AskedTyped, ParseTyped DEF KeyOf, Key

LEMMA NullUser == NoUser \notin User /\ NoUser \notin Rows
  BY NullAssumption

LEMMA LocalTyped ==
  ASSUME TypeOK, NEW r \in Requests
  PROVE  /\ my[r] \in Local
         /\ my[r].key \in Key /\ my[r].items \in SUBSET Rows /\ my[r].total \in Nat
         /\ my[r].left \in SUBSET Rows /\ my[r].copy \in BOOLEAN
         /\ my[r].key.page \in Nat \ {0} /\ my[r].key.limit \in Nat \ {0}
         /\ my[r].key.limit \in 1..MaxLimit /\ my[r].key.all \in BOOLEAN
  BY LimitAssumption DEF TypeOK, Local, Key

LEMMA UnsetTyped == Unset \in Local
  BY LimitAssumption DEF Unset, Local, Key

LEMMA VisibleTyped ==
  ASSUME NEW all
  PROVE  Visible(all) \in SUBSET Rows /\ Cardinality(Visible(all)) \in Nat
<1>1. Visible(all) \in SUBSET Rows
  BY DEF Visible, Existing
<1>2. QED
  BY <1>1, Counted

LEMMA RowsOfTyped ==
  ASSUME NEW k
  PROVE  RowsOf(k) \in SUBSET Rows
  BY VisibleTyped DEF RowsOf, Slice

LEMMA FinishTyped ==
  ASSUME TypeOK, NEW r \in Requests, NEW status \in Statuses, Finish(r, status)
  PROVE  /\ stage' \in [Requests -> Stages] /\ result' \in [Requests -> Statuses]
         /\ my' \in [Requests -> Local]
         /\ stage'[r] = "done" /\ result'[r] = status /\ my'[r] = Unset
         /\ \A q \in Requests :
              q # r => stage'[q] = stage[q] /\ result'[q] = result[q] /\ my'[q] = my[q]
  BY UnsetTyped DEF Finish, TypeOK, Stages

LEMMA AwaitsTyped ==
  ASSUME TypeOK, NEW r \in Requests, NEW s \in Stages, NEW mine \in Local, Awaits(r, s, mine)
  PROVE  /\ stage' \in [Requests -> Stages] /\ result' \in [Requests -> Statuses]
         /\ my' \in [Requests -> Local]
         /\ stage'[r] = s /\ result'[r] = result[r] /\ my'[r] = mine
         /\ \A q \in Requests :
              q # r => stage'[q] = stage[q] /\ result'[q] = result[q] /\ my'[q] = my[q]
  BY DEF Awaits, TypeOK

(* Where a request may go: it ends, or awaits a statement of its kind.     *)
Goes(r) ==
  \/ \E status \in Statuses \ {"none"} : Finish(r, status)
  \/ \E s \in Stages \ {"idle", "done"}, mine \in Local :
       /\ Awaits(r, s, mine) /\ result[r] = "none"
       /\ s \in {"keep", "hide", "forget"} => user[Who(r)] # NoUser
       /\ s = "check" => asked[r].kind = "seed"
       /\ s = "insert" /\ asked[r].kind = "bulk" => mine.entry \in Rows
       /\ s \in {"get", "items", "count", "cache"} =>
            asked[r].kind = "list" /\ mine.key.all = asked[r].all
       /\ asked[r].kind = "list" => s \in {"get", "items", "count", "cache"}

LEMMA GoesTyped ==
  ASSUME TypeInv, NEW r \in Requests, Goes(r), asked' = asked,
         \A a \in Rows : user[a] # NoUser => user'[a] # NoUser
  PROVE  /\ stage' \in [Requests -> Stages] /\ result' \in [Requests -> Statuses]
         /\ my' \in [Requests -> Local]
         /\ StagesFit'
         /\ \A q \in Requests :
              q # r => stage'[q] = stage[q] /\ result'[q] = result[q] /\ my'[q] = my[q]
<1>0. TypeOK /\ \A q \in Requests : Who(q) \in Rows /\ Who(q)' = Who(q)
  BY AskedTyped DEF TypeInv, Who
<1>1. CASE \E status \in Statuses \ {"none"} : Finish(r, status)
  <2>1. PICK status \in Statuses \ {"none"} : Finish(r, status)
    BY <1>1
  <2>2. /\ stage' \in [Requests -> Stages] /\ result' \in [Requests -> Statuses]
        /\ my' \in [Requests -> Local]
        /\ stage'[r] = "done" /\ result'[r] # "none"
        /\ \A q \in Requests :
             q # r => stage'[q] = stage[q] /\ result'[q] = result[q] /\ my'[q] = my[q]
    BY <1>0, <2>1, FinishTyped
  <2>3. StagesFit'
    BY <1>0, <2>2 DEF StagesFit, TypeInv
  <2>4. QED
    BY <2>2, <2>3
<1>2. ASSUME NEW s \in Stages \ {"idle", "done"}, NEW mine \in Local,
             Awaits(r, s, mine), result[r] = "none",
             s \in {"keep", "hide", "forget"} => user[Who(r)] # NoUser,
             s = "check" => asked[r].kind = "seed",
             s = "insert" /\ asked[r].kind = "bulk" => mine.entry \in Rows,
             s \in {"get", "items", "count", "cache"} =>
               asked[r].kind = "list" /\ mine.key.all = asked[r].all,
             asked[r].kind = "list" => s \in {"get", "items", "count", "cache"}
      PROVE  /\ stage' \in [Requests -> Stages] /\ result' \in [Requests -> Statuses]
             /\ my' \in [Requests -> Local]
             /\ StagesFit'
             /\ \A q \in Requests :
                  q # r => stage'[q] = stage[q] /\ result'[q] = result[q] /\ my'[q] = my[q]
  <2>1. /\ stage' \in [Requests -> Stages] /\ result' \in [Requests -> Statuses]
        /\ my' \in [Requests -> Local]
        /\ stage'[r] = s /\ result'[r] = result[r] /\ my'[r] = mine
        /\ \A q \in Requests :
             q # r => stage'[q] = stage[q] /\ result'[q] = result[q] /\ my'[q] = my[q]
    BY <1>0, <1>2, AwaitsTyped
  <2>2. StagesFit'
    BY <1>0, <1>2, <2>1 DEF StagesFit, TypeInv
  <2>3. QED
    BY <2>1, <2>2
<1>3. QED
  BY <1>1, <1>2 DEF Goes

LEMMA TypeInit == Init => TypeInv
<1> SUFFICES ASSUME Init PROVE TypeInv
  OBVIOUS
<1>1. NewUser(FALSE) \in User
  BY DEF NewUser, User
<1>2. TypeOK
  <2>1. user \in [Rows -> User \union {NoUser}]
    BY <1>1 DEF Init
  <2>2. my \in [Requests -> Local]
    BY UnsetTyped DEF Init
  <2>3. \A k \in DOMAIN list : k \in Key /\ list[k] \in Listed
    BY DEF Init
  <2>4. /\ now \in 0..MaxTime /\ changed \in [Rows -> 0..MaxTime]
        /\ relisted \in 0..MaxTime
    BY NumberAssumption DEF Init
  <2>5. /\ asked \in [Requests -> Offered] /\ stage \in [Requests -> Stages]
        /\ result \in [Requests -> Statuses]
    BY DEF Init, Stages, Statuses
  <2>6. /\ counted \in [Requests -> SUBSET Rows] /\ connected \in BOOLEAN
        /\ profile \in [Rows -> Profile \union {NoEntry}]
        /\ expected \in [Requests -> SUBSET Rows] /\ seen \in [Requests -> SUBSET Rows]
        /\ mixed \subseteq Requests /\ creator \in [Rows -> SUBSET Requests]
    BY DEF Init
  <2>7. QED
    BY <2>1, <2>2, <2>3, <2>4, <2>5, <2>6 DEF TypeOK
<1>3. StagesFit
  BY DEF Init, StagesFit
<1>4. QED
  BY <1>2, <1>3 DEF TypeInv

LEMMA Ends ==
  ASSUME NEW r \in Requests, NEW status \in {"ok", "refused", "failed"}, Finish(r, status)
  PROVE  Goes(r)
  BY DEF Goes, Statuses

LEMMA NotYet ==
  ASSUME TypeInv, NEW r \in Requests, stage[r] # "done"
  PROVE  result[r] = "none"
  BY DEF TypeInv, StagesFit

(* The rows are there for good. *)
RowsStay == \A a \in Rows : user[a] # NoUser => user'[a] # NoUser

(* What the table, Redis, the clock and the histories hold. *)
DataOK ==
  /\ counted \in [Requests -> SUBSET Rows]
  /\ user \in [Rows -> User \union {NoUser}]
  /\ profile \in [Rows -> Profile \union {NoEntry}]
  /\ \A k \in DOMAIN list : k \in Key /\ list[k] \in Listed
  /\ connected \in BOOLEAN
  /\ now \in 0..MaxTime
  /\ expected \in [Requests -> SUBSET Rows]
  /\ seen \in [Requests -> SUBSET Rows]
  /\ mixed \subseteq Requests
  /\ creator \in [Rows -> SUBSET Requests]
  /\ changed \in [Rows -> 0..MaxTime]
  /\ relisted \in 0..MaxTime

LEMMA DataTyped == TypeInv => DataOK
  BY DEF TypeInv, TypeOK, DataOK

LEMMA RequestTyped ==
  ASSUME TypeInv, NEW r \in Requests, Goes(r), asked' = asked, RowsStay, DataOK'
  PROVE  TypeInv'
<1>1. /\ stage' \in [Requests -> Stages] /\ result' \in [Requests -> Statuses]
      /\ my' \in [Requests -> Local] /\ StagesFit'
  BY GoesTyped DEF RowsStay
<1>2. QED
  BY <1>1 DEF TypeInv, TypeOK, DataOK

LEMMA DataStays ==
  ASSUME TypeInv, UNCHANGED <<db, redis, now, walks, times>>
  PROVE  DataOK' /\ RowsStay
  BY DataTyped DEF DataOK, RowsStay, db, redis, walks, times

LEMMA ProfilesTyped ==
  ASSUME TypeInv, NEW r \in Requests, Profiles(r)
  PROVE  TypeInv'
<1>0. TypeOK /\ Who(r) \in Rows /\ my[r] \in Local /\ my[r].copy \in BOOLEAN
  BY AskedTyped, LocalTyped DEF TypeInv
<1>1. CASE GetProfile(r)
  <2>1. DataOK' /\ RowsStay
    BY <1>1, DataStays DEF GetProfile
  <2>2. asked' = asked /\ asked[r].kind = "profile" /\ result[r] = "none"
    BY <1>1, NotYet DEF GetProfile, Begins
  <2>3. Finish(r, "ok") \/ Awaits(r, "find", my[r])
    BY <1>1 DEF GetProfile
  <2>4. Goes(r)
    BY <1>0, <2>2, <2>3, Ends DEF Goes, Stages
  <2>5. QED
    BY <2>1, <2>2, <2>4, RequestTyped
<1>2. CASE FindProfile(r)
  <2>1. DataOK' /\ RowsStay
    BY <1>2, DataStays DEF FindProfile
  <2>2. asked' = asked /\ asked[r].kind # "list" /\ result[r] = "none"
    BY <1>2, NotYet DEF FindProfile, At, TypeInv, StagesFit
  <2>3. user[Who(r)] # NoUser => user[Who(r)] \in User /\ user[Who(r)].shown \in BOOLEAN
    BY <1>0 DEF TypeOK, User
  <2>4. \/ Finish(r, "refused")
        \/ /\ user[Who(r)] # NoUser
           /\ Awaits(r, "keep", [my[r] EXCEPT !.copy = user[Who(r)].shown])
    BY <1>2 DEF FindProfile
  <2>5. user[Who(r)] # NoUser => [my[r] EXCEPT !.copy = user[Who(r)].shown] \in Local
    BY <1>0, <2>3 DEF Local
  <2>6. Goes(r)
    BY <2>2, <2>4, <2>5, Ends DEF Goes, Stages
  <2>7. QED
    BY <2>1, <2>2, <2>6, RequestTyped
<1>3. CASE KeepProfile(r)
  <2>1. asked' = asked /\ Goes(r)
    BY <1>3, Ends DEF KeepProfile, At
  <2>2. user[Who(r)] # NoUser /\ user[Who(r)] \in User
    BY <1>0, <1>3 DEF KeepProfile, At, TypeInv, StagesFit, TypeOK
  <2>3. [shown |-> my[r].copy, until |-> now + ProfileTime,
         late |-> my[r].copy # user[Who(r)].shown] \in Profile
    BY <1>0, NumberAssumption DEF Profile, TypeOK
  <2>4. profile' \in [Rows -> Profile \union {NoEntry}]
    BY <1>3, <2>3, DataTyped DEF KeepProfile, DataOK
  <2>5. DataOK' /\ RowsStay
    BY <1>3, <2>4, DataTyped DEF KeepProfile, DataOK, RowsStay, db, walks, times
  <2>6. QED
    BY <2>1, <2>5, RequestTyped
<1>4. QED
  BY <1>1, <1>2, <1>3 DEF Profiles

LEMMA DeactivatesTyped ==
  ASSUME TypeInv, NEW r \in Requests, Deactivates(r)
  PROVE  TypeInv'
<1>0. TypeOK /\ Who(r) \in Rows /\ my[r] \in Local
  BY AskedTyped, LocalTyped DEF TypeInv
<1>1. CASE Deactivate(r)
  <2>1. DataOK' /\ RowsStay
    BY <1>1, DataStays DEF Deactivate
  <2>2. asked' = asked /\ asked[r].kind = "deactivate" /\ result[r] = "none"
    BY <1>1, NotYet DEF Deactivate, Begins
  <2>3. Finish(r, "refused") \/ (user[Who(r)] # NoUser /\ Awaits(r, "hide", my[r]))
    BY <1>1 DEF Deactivate
  <2>4. Goes(r)
    BY <1>0, <2>2, <2>3, Ends DEF Goes, Stages
  <2>5. QED
    BY <2>1, <2>2, <2>4, RequestTyped
<1>2. CASE Hide(r)
  <2>1. asked' = asked /\ asked[r].kind # "list" /\ result[r] = "none"
    BY <1>2, NotYet DEF Hide, At, TypeInv, StagesFit
  <2>2. user[Who(r)] # NoUser /\ user[Who(r)] \in User
    BY <1>0, <1>2 DEF Hide, At, TypeInv, StagesFit, TypeOK
  <2>3. Goes(r)
    BY <1>0, <1>2, <2>1, <2>2 DEF Hide, Goes, Stages
  <2>4. [user[Who(r)] EXCEPT !.isDeactivated = TRUE] \in User
    BY <2>2 DEF User
  <2>5. user' = [user EXCEPT ![Who(r)] = [user[Who(r)] EXCEPT !.isDeactivated = TRUE]]
    BY <1>2 DEF Hide
  <2>6. user' \in [Rows -> User \union {NoUser}] /\ RowsStay
    BY <1>0, <2>4, <2>5, NullUser DEF TypeOK, RowsStay
  <2>7. mixed' \subseteq Requests /\ relisted' \in 0..MaxTime
    BY <1>0, <1>2 DEF Hide, TypeOK, InProgress
  <2>8. DataOK'
    BY <1>2, <2>6, <2>7, DataTyped DEF Hide, DataOK, redis
  <2>9. QED
    BY <2>1, <2>3, <2>6, <2>8, RequestTyped
<1>3. CASE Forget(r)
  <2>1. asked' = asked /\ Goes(r)
    BY <1>3, Ends DEF Forget, At
  <2>2. profile' \in [Rows -> Profile \union {NoEntry}]
    BY <1>0, <1>3 DEF Forget, TypeOK
  <2>3. DataOK' /\ RowsStay
    BY <1>3, <2>2, DataTyped DEF Forget, DataOK, RowsStay, db, walks, times
  <2>4. QED
    BY <2>1, <2>3, RequestTyped
<1>4. QED
  BY <1>1, <1>2, <1>3 DEF Deactivates

LEMMA AnswersTyped ==
  ASSUME TypeInv, NEW r \in Requests, asked[r].kind = "list", result[r] = "none",
         my[r].key.all = asked[r].all,
         NEW page \in SUBSET Rows, NEW total, Answers(r, page, total)
  PROVE  Goes(r) /\ seen' \in [Requests -> SUBSET Rows]
<1>0. TypeOK /\ my[r].key \in Key
  BY LocalTyped DEF TypeInv
<1>1. seen' \in [Requests -> SUBSET Rows]
  BY <1>0 DEF Answers, TypeOK
<1>2. DEFINE next == [my[r].key EXCEPT !.page = @ + 1]
             mine == [Unset EXCEPT !.key = next]
<1>3. next \in Key /\ next.all = my[r].key.all
  BY <1>0 DEF Key
<1>4. mine \in Local /\ mine.key = next
  BY <1>3, UnsetTyped DEF Local, Unset
<1>5. Finish(r, "ok") \/ Awaits(r, "get", mine)
  BY DEF Answers
<1>6. Goes(r)
  <2>1. CASE Finish(r, "ok")
    BY <2>1, Ends
  <2>2. CASE Awaits(r, "get", mine)
    <3> HIDE DEF mine
    <3>1. mine.key.all = asked[r].all
      BY <1>3, <1>4
    <3>2. "get" \in Stages \ {"idle", "done"}
      BY DEF Stages
    <3>3. QED
      BY <2>2, <1>4, <3>1, <3>2 DEF Goes
  <2>3. QED
    BY <1>5, <2>1, <2>2
<1>7. QED
  BY <1>1, <1>6

LEMMA WithTyped ==
  ASSUME TypeOK, NEW k \in Key, NEW value \in Listed, list' = With(list, k, value)
  PROVE  \A x \in DOMAIN list' : x \in Key /\ list'[x] \in Listed
  BY DEF TypeOK, With

LEMMA ListsTyped ==
  ASSUME TypeInv, NEW r \in Requests, Lists(r)
  PROVE  TypeInv'
<1>0. /\ TypeOK /\ my[r] \in Local /\ my[r].key \in Key
      /\ my[r].items \in SUBSET Rows /\ my[r].total \in Nat
  BY LocalTyped DEF TypeInv
<1> DEFINE k == my[r].key
<1>1. CASE StartList(r)
  <2>1. asked' = asked /\ asked[r].kind = "list" /\ result[r] = "none"
    BY <1>1, NotYet DEF StartList, Begins
  <2>2. [my[r] EXCEPT !.key = KeyOf(asked[r])] \in Local
    BY <1>0, KeyTyped DEF Local
  <2>3. [my[r] EXCEPT !.key = KeyOf(asked[r])].key.all = asked[r].all
    BY <1>0, KeyTyped DEF Local
  <2>4. Goes(r)
    BY <1>1, <2>1, <2>2, <2>3 DEF StartList, Goes, Stages
  <2>5. From(KeyOf(asked[r])) \in SUBSET Rows
    BY VisibleTyped DEF From
  <2>6. expected' \in [Requests -> SUBSET Rows]
    BY <1>0, <1>1, <2>5 DEF StartList, TypeOK
  <2>7. DataOK' /\ RowsStay
    BY <1>1, <2>6, DataTyped DEF StartList, DataOK, RowsStay, db, redis, times
  <2>8. QED
    BY <2>1, <2>4, <2>7, RequestTyped
<1>2. ASSUME stage[r] \in {"get", "items", "count", "cache"}
      PROVE  asked[r].kind = "list" /\ k.all = asked[r].all /\ result[r] = "none"
  BY <1>2, NotYet DEF TypeInv, StagesFit
<1>3. CASE GetList(r)
  <2>1. /\ asked' = asked /\ asked[r].kind = "list" /\ result[r] = "none"
        /\ k.all = asked[r].all
    BY <1>2, <1>3 DEF GetList, At
  <2>2. Goes(r) /\ seen' \in [Requests -> SUBSET Rows] /\ mixed' \subseteq Requests
    <3>1. CASE connected /\ k \in DOMAIN list
      <4>1. list[k].items \in SUBSET Rows
        BY <1>0, <3>1 DEF TypeOK, Listed
      <4>2. Answers(r, list[k].items, list[k].total) /\ mixed' = mixed \union {r}
        BY <1>3, <3>1 DEF GetList
      <4>3. QED
        BY <1>0, <2>1, <4>1, <4>2, AnswersTyped DEF TypeOK
    <3>2. CASE ~(connected /\ k \in DOMAIN list)
      BY <1>0, <1>3, <2>1, <3>2 DEF GetList, TypeOK, Goes, Stages
    <3>3. QED
      BY <3>1, <3>2
  <2>3. DataOK' /\ RowsStay
    BY <1>3, <2>2, DataTyped DEF GetList, DataOK, RowsStay, db, redis, times
  <2>4. QED
    BY <2>1, <2>2, <2>3, RequestTyped
<1>4. CASE FindItems(r)
  <2>1. /\ asked' = asked /\ asked[r].kind = "list" /\ result[r] = "none"
        /\ k.all = asked[r].all
    BY <1>2, <1>4 DEF FindItems, At
  <2>2. [my[r] EXCEPT !.items = RowsOf(k)] \in Local /\ [my[r] EXCEPT !.items = RowsOf(k)].key = k
    BY <1>0, RowsOfTyped DEF Local
  <2>3. Goes(r)
    BY <1>4, <2>1, <2>2 DEF FindItems, Goes, Stages
  <2>4. DataOK' /\ RowsStay
    BY <1>4, DataStays DEF FindItems
  <2>5. QED
    BY <2>1, <2>3, <2>4, RequestTyped
<1>5. CASE CountRows(r)
  <2>1. /\ asked' = asked /\ asked[r].kind = "list" /\ result[r] = "none"
        /\ k.all = asked[r].all
    BY <1>2, <1>5 DEF CountRows, At
  <2> DEFINE n == Cardinality(my[r].items)
             total == IF IsLast(n, k) THEN Skipped(k.page, k.limit) + n ELSE CountOf(k)
  <2>2. total \in Nat
    <3>1. n \in Nat /\ CountOf(k) \in Nat
      BY <1>0, Counted, VisibleTyped DEF CountOf
    <3>2. k.page \in Nat \ {0} /\ k.limit \in Nat
      BY <1>0, LocalTyped
    <3>3. Skipped(k.page, k.limit) \in Nat
      BY <3>2 DEF Skipped
    <3>4. QED
      BY <3>1, <3>3
  <2>3. Awaits(r, "cache", [my[r] EXCEPT !.total = total])
    BY <1>5 DEF CountRows
  <2> HIDE DEF total
  <2>4. [my[r] EXCEPT !.total = total] \in Local /\ [my[r] EXCEPT !.total = total].key = k
    BY <1>0, <2>2 DEF Local
  <2>5. Goes(r)
    BY <2>1, <2>3, <2>4 DEF Goes, Stages
  <2>6. DataOK' /\ RowsStay
    BY <1>5, DataStays DEF CountRows
  <2>7. QED
    BY <2>1, <2>5, <2>6, RequestTyped
<1>6. CASE KeepList(r)
  <2>1. /\ asked' = asked /\ asked[r].kind = "list" /\ result[r] = "none"
        /\ k.all = asked[r].all
    BY <1>2, <1>6 DEF KeepList, At
  <2>2. Goes(r) /\ seen' \in [Requests -> SUBSET Rows]
    BY <1>0, <1>6, <2>1, AnswersTyped DEF KeepList
  <2> DEFINE value == [items |-> my[r].items, total |-> my[r].total,
                       until |-> now + ListTime,
                       late |-> my[r].items # RowsOf(k) \/ my[r].total # CountOf(k)]
  <2>3. value \in Listed
    BY <1>0, NumberAssumption DEF Listed, TypeOK
  <2>4. list' = list \/ list' = With(list, k, value)
    BY <1>6 DEF KeepList
  <2> HIDE DEF value
  <2>5. \A x \in DOMAIN list' : x \in Key /\ list'[x] \in Listed
    <3>1. CASE list' = list
      BY <1>0, <3>1 DEF TypeOK
    <3>2. CASE list' = With(list, k, value)
      BY <1>0, <2>3, <3>2, WithTyped
    <3>3. QED
      BY <2>4, <3>1, <3>2
  <2>6. DataOK' /\ RowsStay
    BY <1>6, <2>2, <2>5, DataTyped DEF KeepList, DataOK, RowsStay, db, times
  <2>7. QED
    BY <2>1, <2>2, <2>6, RequestTyped
<1>7. QED
  BY <1>1, <1>3, <1>4, <1>5, <1>6 DEF Lists

LEMMA CreateTyped ==
  ASSUME TypeInv, NEW r \in Requests, NEW a \in Rows, NEW admin \in BOOLEAN,
         Create(r, a, admin)
  PROVE  /\ user' \in [Rows -> User \union {NoUser}] /\ RowsStay
         /\ creator' \in [Rows -> SUBSET Requests] /\ relisted' \in 0..MaxTime
<1>1. NewUser(admin) \in User
  BY DEF NewUser, User
<1>2. NewUser(admin) # NoUser
  BY <1>1, NullUser
<1>3. QED
  BY <1>1, <1>2 DEF Create, TypeInv, TypeOK, RowsStay

LEMMA CreatesTyped ==
  ASSUME TypeInv, NEW r \in Requests, Creates(r)
  PROVE  TypeInv'
<1>0. TypeOK /\ my[r] \in Local /\ my[r].left \in SUBSET Rows
  BY LocalTyped DEF TypeInv
<1>1. CASE StartBulk(r)
  <2>1. asked' = asked /\ asked[r].kind = "bulk" /\ result[r] = "none"
    BY <1>1, NotYet DEF StartBulk, Begins
  <2>2. [my[r] EXCEPT !.left = asked[r].entries] \in Local
    BY <1>0, AskedTyped DEF Local
  <2>3. Goes(r)
    BY <1>1, <2>1, <2>2 DEF StartBulk, Goes, Stages
  <2>4. DataOK' /\ RowsStay
    BY <1>1, DataStays DEF StartBulk
  <2>5. QED
    BY <2>1, <2>3, <2>4, RequestTyped
<1>2. CASE TakeEntry(r)
  <2>1. asked' = asked /\ asked[r].kind # "list" /\ result[r] = "none"
    BY <1>2, NotYet DEF TakeEntry, At, TypeInv, StagesFit
  <2>2. PICK a \in my[r].left :
          \/ Awaits(r, "entry", [my[r] EXCEPT !.left = my[r].left \ {a}])
          \/ Awaits(r, "insert", [my[r] EXCEPT !.left = my[r].left \ {a}, !.entry = a])
    BY <1>2 DEF TakeEntry
  <2>3. [my[r] EXCEPT !.left = my[r].left \ {a}] \in Local
    BY <1>0 DEF Local
  <2>4. /\ [my[r] EXCEPT !.left = my[r].left \ {a}, !.entry = a] \in Local
        /\ [my[r] EXCEPT !.left = my[r].left \ {a}, !.entry = a].entry \in Rows
    BY <1>0 DEF Local
  <2>5. Goes(r)
    <3>1. CASE Awaits(r, "entry", [my[r] EXCEPT !.left = my[r].left \ {a}])
      BY <2>1, <2>3, <3>1 DEF Goes, Stages
    <3>2. CASE Awaits(r, "insert", [my[r] EXCEPT !.left = my[r].left \ {a}, !.entry = a])
      <4> DEFINE mine == [my[r] EXCEPT !.left = my[r].left \ {a}, !.entry = a]
      <4>1. mine \in Local /\ mine.entry \in Rows /\ Awaits(r, "insert", mine)
        BY <2>4, <3>2
      <4> HIDE DEF mine
      <4>2. "insert" \in Stages \ {"idle", "done"}
        BY DEF Stages
      <4>3. QED
        BY <2>1, <4>1, <4>2 DEF Goes
    <3>3. QED
      BY <2>2, <3>1, <3>2
  <2>6. DataOK' /\ RowsStay
    BY <1>2, DataStays DEF TakeEntry
  <2>7. QED
    BY <2>1, <2>5, <2>6, RequestTyped
<1>3. CASE EndBulk(r)
  <2>1. DataOK' /\ RowsStay
    BY <1>3, DataStays DEF EndBulk
  <2>2. QED
    BY <1>3, <2>1, Ends, RequestTyped DEF EndBulk, At
<1>4. CASE Insert(r)
  <2>1. asked' = asked /\ asked[r].kind = "bulk" /\ result[r] = "none"
    BY <1>4, NotYet DEF Insert, At
  <2>2. my[r].entry \in Rows
    BY <1>4 DEF Insert, At, TypeInv, StagesFit
  <2>3. [my[r] EXCEPT !.entry = NoUser] \in Local
    BY <1>0 DEF Local
  <2>4. Goes(r)
    BY <1>4, <2>1, <2>3 DEF Insert, Goes, Stages
  <2>5. counted' \in [Requests -> SUBSET Rows]
    <3>1. counted' = counted \/ counted' = [counted EXCEPT ![r] = counted[r] \union {my[r].entry}]
      BY <1>4 DEF Insert, Count
    <3>2. QED
      BY <1>0, <2>2, <3>1 DEF TypeOK
  <2>6. /\ user' \in [Rows -> User \union {NoUser}] /\ RowsStay
        /\ creator' \in [Rows -> SUBSET Requests] /\ relisted' \in 0..MaxTime
    <3>1. CASE Create(r, my[r].entry, FALSE)
      BY <2>2, <3>1, CreateTyped
    <3>2. CASE UNCHANGED <<user, creator, relisted>>
      BY <1>0, <3>2 DEF TypeOK, RowsStay
    <3>3. QED
      BY <1>4, <3>1, <3>2 DEF Insert
  <2>7. DataOK'
    BY <1>4, <2>5, <2>6, DataTyped DEF Insert, DataOK, redis, walks
  <2>8. QED
    BY <2>1, <2>4, <2>6, <2>7, RequestTyped
<1>5. QED
  BY <1>1, <1>2, <1>3, <1>4 DEF Creates

LEMMA SeedsTyped ==
  ASSUME TypeInv, NEW r \in Requests, Seeds(r)
  PROVE  TypeInv'
<1>0. TypeOK /\ my[r] \in Local /\ Who(r) \in Rows
  BY AskedTyped, LocalTyped DEF TypeInv
<1>1. CASE StartSeed(r)
  <2>1. asked' = asked /\ asked[r].kind = "seed" /\ result[r] = "none"
    BY <1>1, NotYet DEF StartSeed, Begins
  <2>2. Finish(r, "ok") \/ Awaits(r, "check", my[r])
    BY <1>1 DEF StartSeed
  <2>3. Goes(r)
    BY <1>0, <2>1, <2>2, Ends DEF Goes, Stages
  <2>4. DataOK' /\ RowsStay
    BY <1>1, DataStays DEF StartSeed
  <2>5. QED
    BY <2>1, <2>3, <2>4, RequestTyped
<1>2. CASE CheckSeed(r)
  <2>1. asked' = asked /\ asked[r].kind # "list" /\ result[r] = "none"
    BY <1>2, NotYet DEF CheckSeed, At, TypeInv, StagesFit
  <2>2. Finish(r, "failed") \/ Awaits(r, "insert", my[r])
    BY <1>2 DEF CheckSeed
  <2>3. asked[r].kind # "bulk"
    BY <1>2 DEF CheckSeed, At, TypeInv, StagesFit
  <2>4. Goes(r)
    BY <1>0, <2>1, <2>2, <2>3, Ends DEF Goes, Stages
  <2>5. DataOK' /\ RowsStay
    BY <1>2, DataStays DEF CheckSeed
  <2>6. QED
    BY <2>1, <2>4, <2>5, RequestTyped
<1>3. CASE InsertAdmin(r)
  <2>1. asked' = asked /\ (Finish(r, "ok") \/ Finish(r, "failed"))
    BY <1>3 DEF InsertAdmin, At
  <2>2. Goes(r)
    BY <2>1, Ends
  <2>3. counted' \in [Requests -> SUBSET Rows]
    <3>1. counted' = counted \/ counted' = [counted EXCEPT ![r] = counted[r] \union {Who(r)}]
      BY <1>3 DEF InsertAdmin, Count
    <3>2. QED
      BY <1>0, <3>1 DEF TypeOK
  <2>4. /\ user' \in [Rows -> User \union {NoUser}] /\ RowsStay
        /\ creator' \in [Rows -> SUBSET Requests] /\ relisted' \in 0..MaxTime
    <3>1. CASE Create(r, Who(r), TRUE)
      BY <1>0, <3>1, CreateTyped
    <3>2. CASE UNCHANGED <<user, creator, relisted>>
      BY <1>0, <3>2 DEF TypeOK, RowsStay
    <3>3. QED
      BY <1>3, <3>1, <3>2 DEF InsertAdmin
  <2>5. DataOK'
    BY <1>3, <2>3, <2>4, DataTyped DEF InsertAdmin, DataOK, redis, walks
  <2>6. QED
    BY <2>1, <2>2, <2>4, <2>5, RequestTyped
<1>4. QED
  BY <1>1, <1>2, <1>3 DEF Seeds

LEMMA TypeStep == TypeInv /\ [Next]_vars => TypeInv'
<1> SUFFICES ASSUME TypeInv, [Next]_vars PROVE TypeInv'
  OBVIOUS
<1>0. TypeOK /\ DataOK
  BY DataTyped DEF TypeInv
<1>1. ASSUME NEW r \in Requests, Fails(r) PROVE TypeInv'
  <2>1. DataOK' /\ RowsStay
    BY <1>1, DataStays DEF Fails
  <2>2. QED
    BY <1>1, <2>1, Ends, RequestTyped DEF Fails
<1>2. ASSUME NEW a \in Changing, Change(a) PROVE TypeInv'
  <2>1. a \in Rows /\ user[a] \in User
    BY <1>0, <1>2, NumberAssumption DEF Change, TypeOK
  <2>2. /\ user' = [user EXCEPT ![a] = [user[a] EXCEPT !.shown = ~user[a].shown]]
        /\ changed' = [changed EXCEPT ![a] = now]
        /\ UNCHANGED <<asked, stage, result, my, counted, creator, redis, now, walks, relisted>>
    BY <1>2 DEF Change
  <2>3. [user[a] EXCEPT !.shown = ~user[a].shown] \in User
    BY <2>1 DEF User
  <2>4. user' \in [Rows -> User \union {NoUser}] /\ RowsStay
    BY <1>0, <2>1, <2>2, <2>3, NullUser DEF TypeOK, RowsStay
  <2>5. changed' \in [Rows -> 0..MaxTime]
    BY <1>0, <2>2 DEF TypeOK
  <2>6. TypeOK'
    BY <1>0, <2>2, <2>4, <2>5 DEF TypeOK, redis, walks
  <2>7. \A r \in Requests : Who(r) \in Rows /\ Who(r)' = Who(r)
    BY <1>0, <2>2, AskedTyped DEF Who
  <2>8. StagesFit'
    BY <2>2, <2>4, <2>7 DEF StagesFit, TypeInv, RowsStay
  <2>9. QED
    BY <2>6, <2>8 DEF TypeInv
<1>3. ASSUME UNCHANGED <<asked, stage, result, my, db, walks, times>>, DataOK' PROVE TypeInv'
  <2>1. TypeOK'
    BY <1>0, <1>3 DEF TypeOK, DataOK
  <2>2. StagesFit'
    BY <1>3 DEF StagesFit, TypeInv, Who, db
  <2>3. QED
    BY <2>1, <2>2 DEF TypeInv
<1>4. CASE Tick
  <2>1. profile' \in [Rows -> Profile \union {NoEntry}]
    BY <1>0, <1>4 DEF Tick, DataOK
  <2>2. \A k \in DOMAIN list' : k \in Key /\ list'[k] \in Listed
    BY <1>0, <1>4 DEF Tick, DataOK
  <2>3. now' \in 0..MaxTime
    BY <1>0, <1>4, NumberAssumption DEF Tick, DataOK
  <2>4. DataOK'
    BY <1>0, <1>4, <2>1, <2>2, <2>3 DEF Tick, DataOK, db, walks, times
  <2>5. QED
    BY <1>3, <1>4, <2>4 DEF Tick
<1>5. CASE Disconnect
  <2>1. DataOK'
    BY <1>0, <1>5 DEF Disconnect, DataOK, db, walks, times
  <2>2. QED
    BY <1>3, <1>5, <2>1 DEF Disconnect
<1>6. CASE UNCHANGED vars
  BY <1>0, <1>3, <1>6 DEF vars, db, redis, walks, times, DataOK
<1>7. QED
  BY <1>1, <1>2, <1>4, <1>5, <1>6, ProfilesTyped, DeactivatesTyped, ListsTyped,
     CreatesTyped, SeedsTyped DEF Next, Quiet

(* The table, the cache, the handlers and the histories always have their  *)
(* types, and every statement finds the row and the query it works on.     *)
THEOREM TypeCorrect == Spec => []TypeOK
<1>1. TypeInv => TypeOK
  BY DEF TypeInv
<1>2. Spec => []TypeInv
  BY TypeInit, TypeStep, PTL DEF Spec
<1>3. QED
  BY <1>1, <1>2, PTL

-----------------------------------------------------------------------------
(* Who creates, and what is cached. *)

Inserted(r, a) ==
  /\ \E admin \in BOOLEAN : Create(r, a, admin)
  /\ counted' = counted \/ Count(r, a)

(* What a step does to the users table. *)
LEMMA DbSteps ==
  ASSUME TypeInv, [Next]_vars
  PROVE  \/ UNCHANGED <<user, creator, counted, relisted, changed>>
         \/ \E r \in Requests : Hide(r)
         \/ \E a \in Changing : Change(a)
         \/ \E r \in Requests, a \in Rows :
              /\ Inserted(r, a)
              /\ UNCHANGED <<redis, now, changed>>
<1>1. ASSUME NEW r \in Requests, Profiles(r) \/ Lists(r) \/ Fails(r)
      PROVE  UNCHANGED <<user, creator, counted, relisted, changed>>
  BY <1>1 DEF Profiles, Lists, Fails, GetProfile, FindProfile, KeepProfile,
     StartList, GetList, FindItems, CountRows, KeepList, db, times
<1>2. ASSUME NEW r \in Requests, Deactivates(r)
      PROVE  UNCHANGED <<user, creator, counted, relisted, changed>> \/ Hide(r)
  BY <1>2 DEF Deactivates, Deactivate, Forget, db, times
<1>3. ASSUME NEW r \in Requests, Creates(r)
      PROVE  \/ UNCHANGED <<user, creator, counted, relisted, changed>>
             \/ \E a \in Rows : Inserted(r, a) /\ UNCHANGED <<redis, now, changed>>
  <2>1. CASE StartBulk(r) \/ TakeEntry(r) \/ EndBulk(r)
    BY <2>1 DEF StartBulk, TakeEntry, EndBulk, db, times
  <2>2. CASE Insert(r)
    <3>1. my[r].entry \in Rows
      BY <2>2 DEF Insert, At, TypeInv, StagesFit
    <3>2. UNCHANGED <<redis, now, changed>>
      BY <2>2 DEF Insert
    <3>3. \/ UNCHANGED <<user, creator, relisted, counted>>
          \/ Inserted(r, my[r].entry)
      BY <2>2 DEF Insert, Inserted
    <3>4. QED
      BY <3>1, <3>2, <3>3
  <2>3. QED
    BY <1>3, <2>1, <2>2 DEF Creates
<1>4. ASSUME NEW r \in Requests, Seeds(r)
      PROVE  \/ UNCHANGED <<user, creator, counted, relisted, changed>>
             \/ \E a \in Rows : Inserted(r, a) /\ UNCHANGED <<redis, now, changed>>
  <2>1. CASE StartSeed(r) \/ CheckSeed(r)
    BY <2>1 DEF StartSeed, CheckSeed, db, times
  <2>2. CASE InsertAdmin(r)
    <3>1. Who(r) \in Rows
      BY AskedTyped DEF TypeInv
    <3>2. UNCHANGED <<redis, now, changed>>
      BY <2>2 DEF InsertAdmin
    <3>3. \/ UNCHANGED <<user, creator, relisted, counted>>
          \/ Inserted(r, Who(r))
      BY <2>2 DEF InsertAdmin, Inserted
    <3>4. QED
      BY <3>1, <3>2, <3>3
  <2>3. QED
    BY <1>4, <2>1, <2>2 DEF Seeds
<1>5. CASE Tick \/ Disconnect \/ UNCHANGED vars
  BY <1>5 DEF Tick, Disconnect, vars, db, times
<1>6. QED
  BY <1>1, <1>2, <1>3, <1>4, <1>5 DEF Next, Quiet

(* Neither hiding an account nor a change by Auth touches what exists.     *)
LEMMA RowsAsBefore ==
  ASSUME TypeInv,
         (\E r \in Requests : Hide(r)) \/ (\E b \in Changing : Change(b))
  PROVE  /\ \A a \in Rows : user'[a] = NoUser <=> user[a] = NoUser
         /\ UNCHANGED <<creator, counted, redis, now>>
<1>0. TypeOK
  BY DEF TypeInv
<1>1. ASSUME NEW r \in Requests, Hide(r)
      PROVE  /\ \A a \in Rows : user'[a] = NoUser <=> user[a] = NoUser
             /\ UNCHANGED <<creator, counted, redis, now>>
  <2>1. user[Who(r)] # NoUser /\ user[Who(r)] \in User /\ Who(r) \in Rows
    BY <1>0, <1>1, AskedTyped DEF Hide, At, TypeInv, StagesFit, TypeOK
  <2>2. [user[Who(r)] EXCEPT !.isDeactivated = TRUE] \in User
    BY <2>1 DEF User
  <2>3. user' = [user EXCEPT ![Who(r)] = [user[Who(r)] EXCEPT !.isDeactivated = TRUE]]
    BY <1>1 DEF Hide
  <2>4. QED
    BY <1>0, <1>1, <2>1, <2>2, <2>3, NullUser DEF Hide, TypeOK, redis
<1>2. ASSUME NEW b \in Changing, Change(b)
      PROVE  /\ \A a \in Rows : user'[a] = NoUser <=> user[a] = NoUser
             /\ UNCHANGED <<creator, counted, redis, now>>
  <2>1. user[b] # NoUser /\ user[b] \in User /\ b \in Rows
    BY <1>0, <1>2, NumberAssumption DEF Change, TypeOK
  <2>2. [user[b] EXCEPT !.shown = ~user[b].shown] \in User
    BY <2>1 DEF User
  <2>3. user' = [user EXCEPT ![b] = [user[b] EXCEPT !.shown = ~user[b].shown]]
    BY <1>2 DEF Change
  <2>4. QED
    BY <1>0, <1>2, <2>1, <2>2, <2>3, NullUser DEF Change, TypeOK, redis
<1>3. QED
  BY <1>1, <1>2

CreatorInv ==
  /\ \A a \in Rows : user[a] = NoUser => creator[a] = {}
  /\ CreationsAreCounted

LEMMA CreatorStep == TypeInv /\ CreatorInv /\ [Next]_vars => CreatorInv'
<1> SUFFICES ASSUME TypeInv, CreatorInv, [Next]_vars PROVE CreatorInv'
  OBVIOUS
<1>0. TypeOK /\ \A r \in Requests : counted[r] \in SUBSET Rows
  BY DEF TypeInv, TypeOK
<1>1. CASE UNCHANGED <<user, creator, counted>>
  BY <1>1 DEF CreatorInv, CreationsAreCounted
<1>2. CASE (\E r \in Requests : Hide(r)) \/ (\E a \in Changing : Change(a))
  BY <1>0, <1>2, RowsAsBefore DEF CreatorInv, CreationsAreCounted
<1>3. ASSUME NEW r \in Requests, NEW a \in Rows, Inserted(r, a) PROVE CreatorInv'
  <2>1. PICK admin \in BOOLEAN : Create(r, a, admin)
    BY <1>3 DEF Inserted
  <2>2. user[a] = NoUser /\ creator[a] = {}
    BY <2>1 DEF Create, CreatorInv
  <2>3. NewUser(admin) # NoUser
    <3>1. NewUser(admin) \in User
      BY DEF NewUser, User
    <3>2. QED
      BY <3>1, NullUser
  <2>4. /\ user'[a] # NoUser /\ creator'[a] = {r}
        /\ \A b \in Rows \ {a} : user'[b] = user[b] /\ creator'[b] = creator[b]
    BY <1>0, <2>1, <2>2, <2>3 DEF Create, TypeOK
  <2>5. \A q \in Requests : a \notin counted[q]
    BY <2>2 DEF CreatorInv, CreationsAreCounted
  <2>6. /\ counted'[r] \subseteq counted[r] \union {a}
        /\ \A q \in Requests \ {r} : counted'[q] = counted[q]
    BY <1>0, <1>3 DEF Inserted, Count, TypeOK
  <2>7. CreationsAreCounted'
    <3>1. SUFFICES ASSUME NEW q \in Requests, NEW b \in counted'[q]
                   PROVE  user'[b] # NoUser /\ creator'[b] = {q}
      BY DEF CreationsAreCounted
    <3>2. CASE b = a
      BY <2>4, <2>5, <2>6, <3>1, <3>2
    <3>3. CASE b # a
      <4>1. b \in counted[q]
        BY <2>6, <3>1, <3>3
      <4>2. user[b] # NoUser /\ creator[b] = {q} /\ b \in Rows
        BY <1>0, <4>1 DEF CreatorInv, CreationsAreCounted
      <4>3. QED
        BY <2>4, <3>3, <4>2
    <3>4. QED
      BY <3>2, <3>3
  <2>8. QED
    BY <2>4, <2>7 DEF CreatorInv
<1>4. QED
  BY <1>1, <1>2, <1>3, DbSteps

(* However many bulk creations and seeds run at the same time, each user   *)
(* that one of them counts is there and was created by it alone.           *)
THEOREM NoCreationCountsTwice == Spec => []CreationsAreCounted
<1>1. Init => CreatorInv
  BY DEF Init, CreatorInv, CreationsAreCounted
<1>2. CreatorInv => CreationsAreCounted
  BY DEF CreatorInv
<1>3. Spec => []CreatorInv
  BY <1>1, TypeInit, TypeStep, CreatorStep, PTL DEF Spec
<1>4. QED
  BY <1>2, <1>3, PTL

-----------------------------------------------------------------------------
(* How long a key may differ from the table. *)

ProfilesFit ==
  \A a \in Rows : profile[a] # NoEntry =>
    /\ user[a] # NoUser
    /\ now < profile[a].until /\ profile[a].until <= now + ProfileTime
    /\ \/ profile[a].late
       \/ profile[a].shown = user[a].shown
       \/ profile[a].until <= changed[a] + ProfileTime

ListsFit ==
  \A k \in DOMAIN list :
    /\ now < list[k].until /\ list[k].until <= now + ListTime
    /\ \/ list[k].late
       \/ list[k].items = RowsOf(k) /\ list[k].total = CountOf(k)
       \/ list[k].until <= relisted + ListTime

LEMMA TimesTyped ==
  ASSUME TypeInv
  PROVE  /\ now \in Nat /\ relisted \in Nat /\ ProfileTime \in Nat \ {0}
         /\ ListTime \in Nat \ {0}
         /\ \A a \in Rows : changed[a] \in Nat
         /\ \A a \in Rows : profile[a] # NoEntry => profile[a] \in Profile /\ profile[a].until \in Nat
         /\ \A k \in DOMAIN list : list[k] \in Listed /\ list[k].until \in Nat
<1>1. TypeOK
  BY DEF TypeInv
<1>2. /\ now \in Nat /\ relisted \in Nat /\ ProfileTime \in Nat \ {0}
      /\ ListTime \in Nat \ {0} /\ \A a \in Rows : changed[a] \in Nat
  BY <1>1, NumberAssumption DEF TypeOK
<1>3. \A a \in Rows : profile[a] # NoEntry => profile[a] \in Profile /\ profile[a].until \in Nat
  BY <1>1 DEF TypeOK, Profile
<1>4. \A k \in DOMAIN list : list[k] \in Listed /\ list[k].until \in Nat
  BY <1>1 DEF TypeOK, Listed
<1>5. QED
  BY <1>2, <1>3, <1>4

LEMMA LagFollows == TypeInv /\ ProfilesFit /\ ListsFit => CacheLagIsBounded
<1> SUFFICES ASSUME TypeInv, ProfilesFit, ListsFit PROVE CacheLagIsBounded
  OBVIOUS
<1>1. ASSUME NEW a \in Rows, profile[a] # NoEntry
      PROVE  \/ profile[a].late
             \/ profile[a].shown = user[a].shown
             \/ now < changed[a] + ProfileTime
  BY <1>1, TimesTyped DEF ProfilesFit
<1>2. ASSUME NEW k \in DOMAIN list
      PROVE  \/ list[k].late
             \/ list[k].items = RowsOf(k) /\ list[k].total = CountOf(k)
             \/ now < relisted + ListTime
  BY <1>2, TimesTyped DEF ListsFit
<1>3. QED
  BY <1>1, <1>2 DEF CacheLagIsBounded

LEMMA VisibleSame ==
  ASSUME UNCHANGED user
  PROVE  /\ \A all : Visible(all)' = Visible(all)
         /\ \A k : RowsOf(k)' = RowsOf(k) /\ CountOf(k)' = CountOf(k)
<1>1. \A all : Visible(all)' = Visible(all)
  BY DEF Visible, Existing
<1>2. QED
  BY <1>1 DEF RowsOf, CountOf, Slice, Place

LEMMA VisibleAfterChange ==
  ASSUME TypeInv, NEW a \in Changing, Change(a)
  PROVE  /\ \A all : Visible(all)' = Visible(all)
         /\ \A k : RowsOf(k)' = RowsOf(k) /\ CountOf(k)' = CountOf(k)
<1>1. a \in Rows /\ user[a] \in User /\ user[a] # NoUser /\ user \in [Rows -> User \union {NoUser}]
  BY NumberAssumption DEF Change, TypeInv, TypeOK
<1>2. user' = [user EXCEPT ![a] = [user[a] EXCEPT !.shown = ~user[a].shown]]
  BY DEF Change
<1>3. /\ [user[a] EXCEPT !.shown = ~user[a].shown] \in User
      /\ [user[a] EXCEPT !.shown = ~user[a].shown].isDeactivated = user[a].isDeactivated
  BY <1>1 DEF User
<1>4. \A b \in Rows : /\ user'[b] # NoUser <=> user[b] # NoUser
                      /\ user[b] # NoUser => user'[b].isDeactivated = user[b].isDeactivated
  BY <1>1, <1>2, <1>3, NullUser
<1>5. \A all : Visible(all)' = Visible(all)
  BY <1>4 DEF Visible, Existing
<1>6. QED
  BY <1>5 DEF RowsOf, CountOf, Slice, Place

(* Expiry leaves the keys whose time has not come. *)
LEMMA TickKeeps ==
  ASSUME TypeInv, ProfilesFit, ListsFit, Tick
  PROVE  ProfilesFit' /\ ListsFit'
<1>0. now' = now + 1 /\ UNCHANGED <<user, changed, relisted>>
  BY DEF Tick, db, times
<1>1. ProfilesFit'
  <2>1. SUFFICES ASSUME NEW a \in Rows, profile'[a] # NoEntry
                 PROVE  /\ user[a] # NoUser
                        /\ now' < profile'[a].until /\ profile'[a].until <= now' + ProfileTime
                        /\ \/ profile'[a].late
                           \/ profile'[a].shown = user[a].shown
                           \/ profile'[a].until <= changed[a] + ProfileTime
    BY <1>0 DEF ProfilesFit
  <2>2. profile[a] # NoEntry /\ profile'[a] = profile[a] /\ ~Expired(profile[a].until, now + 1)
    BY <2>1 DEF Tick
  <2>3. QED
    BY <1>0, <2>2, TimesTyped DEF ProfilesFit, Expired
<1>2. ListsFit'
  <2>1. SUFFICES ASSUME NEW k \in DOMAIN list'
                 PROVE  /\ now' < list'[k].until /\ list'[k].until <= now' + ListTime
                        /\ \/ list'[k].late
                           \/ list'[k].items = RowsOf(k) /\ list'[k].total = CountOf(k)
                           \/ list'[k].until <= relisted + ListTime
    BY <1>0, VisibleSame DEF ListsFit
  <2>2. k \in DOMAIN list /\ list'[k] = list[k] /\ ~Expired(list[k].until, now + 1)
    BY <2>1 DEF Tick
  <2>3. QED
    BY <1>0, <2>2, TimesTyped DEF ListsFit, Expired
<1>3. QED
  BY <1>1, <1>2

(* A handler writes to Redis what is so, or marks what is late.            *)
LEMMA KeepsFit ==
  ASSUME TypeInv, ProfilesFit, ListsFit, NEW r \in Requests,
         KeepProfile(r) \/ Forget(r) \/ KeepList(r)
  PROVE  ProfilesFit' /\ ListsFit'
<1>0. TypeOK /\ Who(r) \in Rows /\ my[r].copy \in BOOLEAN
  BY AskedTyped, LocalTyped DEF TypeInv
<1>a. UNCHANGED <<user, now, changed, relisted>>
  BY DEF KeepProfile, Forget, KeepList, db, times
<1>1. CASE KeepProfile(r)
  <2> DEFINE value == [shown |-> my[r].copy, until |-> now + ProfileTime,
                       late |-> my[r].copy # user[Who(r)].shown]
  <2>1. profile' = profile \/ profile' = [profile EXCEPT ![Who(r)] = value]
    BY <1>1 DEF KeepProfile
  <2>2. list' = list
    BY <1>1 DEF KeepProfile
  <2>3. user[Who(r)] # NoUser
    BY <1>1 DEF KeepProfile, At, TypeInv, StagesFit
  <2>4. /\ now < value.until /\ value.until <= now + ProfileTime
        /\ value.late \/ value.shown = user[Who(r)].shown
    <3>1. now < value.until /\ value.until <= now + ProfileTime
      BY TimesTyped
    <3>2. value.late = (my[r].copy # user[Who(r)].shown) /\ value.shown = my[r].copy
      BY Zenon
    <3>3. QED
      BY <3>1, <3>2, Zenon
  <2> HIDE DEF value
  <2>5. \A a \in Rows : profile'[a] = profile[a] \/ (a = Who(r) /\ profile'[a] = value)
    BY <1>0, <2>1 DEF TypeOK
  <2>6. ProfilesFit'
    BY <1>0, <1>a, <2>3, <2>4, <2>5 DEF ProfilesFit
  <2>7. ListsFit'
    BY <1>a, <2>2, VisibleSame DEF ListsFit
  <2>8. QED
    BY <2>6, <2>7
<1>2. CASE Forget(r)
  <2>1. list' = list /\ \A a \in Rows : profile'[a] = profile[a] \/ profile'[a] = NoEntry
    BY <1>0, <1>2 DEF Forget, TypeOK
  <2>2. ProfilesFit'
    BY <1>a, <2>1 DEF ProfilesFit
  <2>3. ListsFit'
    BY <1>a, <2>1, VisibleSame DEF ListsFit
  <2>4. QED
    BY <2>2, <2>3
<1>3. CASE KeepList(r)
  <2> DEFINE k == my[r].key
             value == [items |-> my[r].items, total |-> my[r].total,
                       until |-> now + ListTime,
                       late |-> my[r].items # RowsOf(k) \/ my[r].total # CountOf(k)]
  <2>1. list' = list \/ list' = With(list, k, value)
    BY <1>3 DEF KeepList
  <2>2. profile' = profile
    BY <1>3 DEF KeepList
  <2>3. /\ now < value.until /\ value.until <= now + ListTime
        /\ value.late \/ (value.items = RowsOf(k) /\ value.total = CountOf(k))
    <3>1. now < value.until /\ value.until <= now + ListTime
      BY TimesTyped
    <3>2. /\ value.late = (my[r].items # RowsOf(k) \/ my[r].total # CountOf(k))
          /\ value.items = my[r].items /\ value.total = my[r].total
      BY Zenon
    <3>3. QED
      BY <3>1, <3>2, Zenon
  <2> HIDE DEF value
  <2>4. \A x \in DOMAIN list' :
          \/ x \in DOMAIN list /\ list'[x] = list[x]
          \/ x = k /\ list'[x] = value
    <3>1. CASE list' = list
      BY <3>1
    <3>2. CASE list' = With(list, k, value)
      BY <3>2 DEF With
    <3>3. QED
      BY <2>1, <3>1, <3>2
  <2>5. ProfilesFit'
    BY <1>a, <2>2 DEF ProfilesFit
  <2>6. ListsFit'
    <3>1. SUFFICES ASSUME NEW x \in DOMAIN list'
                   PROVE  /\ now < list'[x].until /\ list'[x].until <= now + ListTime
                          /\ \/ list'[x].late
                             \/ list'[x].items = RowsOf(x) /\ list'[x].total = CountOf(x)
                             \/ list'[x].until <= relisted + ListTime
      BY <1>a, VisibleSame DEF ListsFit
    <3>2. CASE x \in DOMAIN list /\ list'[x] = list[x]
      BY <3>2 DEF ListsFit
    <3>3. CASE x = k /\ list'[x] = value
      BY <2>3, <3>3
    <3>4. QED
      BY <2>4, <3>2, <3>3
  <2>7. QED
    BY <2>5, <2>6
<1>4. QED
  BY <1>1, <1>2, <1>3

(* When a row changes, the time of every key that now differs runs.        *)
LEMMA HideFits ==
  ASSUME TypeInv, ProfilesFit, ListsFit, NEW r \in Requests, Hide(r)
  PROVE  ProfilesFit' /\ ListsFit'
<1>1. relisted' = now /\ UNCHANGED <<profile, list, now, changed>>
  BY DEF Hide, redis
<1>2. user[Who(r)] # NoUser /\ user[Who(r)] \in User /\ Who(r) \in Rows
  BY AskedTyped DEF Hide, At, TypeInv, StagesFit, TypeOK
<1>3. user' = [user EXCEPT ![Who(r)] = [user[Who(r)] EXCEPT !.isDeactivated = TRUE]]
  BY DEF Hide
<1>4. /\ [user[Who(r)] EXCEPT !.isDeactivated = TRUE] \in User
      /\ [user[Who(r)] EXCEPT !.isDeactivated = TRUE].shown = user[Who(r)].shown
  BY <1>2 DEF User
<1>5. \A a \in Rows : user[a] # NoUser => user'[a] # NoUser /\ user'[a].shown = user[a].shown
  BY <1>2, <1>3, <1>4, NullUser DEF TypeInv, TypeOK
<1>6. ProfilesFit'
  BY <1>1, <1>5 DEF ProfilesFit
<1>7. ListsFit'
  BY <1>1, TimesTyped DEF ListsFit
<1>8. QED
  BY <1>6, <1>7

LEMMA ChangeFits ==
  ASSUME TypeInv, ProfilesFit, ListsFit, NEW b \in Changing, Change(b)
  PROVE  ProfilesFit' /\ ListsFit'
<1>1. /\ changed' = [changed EXCEPT ![b] = now]
      /\ UNCHANGED <<profile, list, now, relisted>>
  BY DEF Change, redis
<1>2. \A a \in Rows : user'[a] = NoUser <=> user[a] = NoUser
  BY RowsAsBefore
<1>3. \A a \in Rows : \/ user'[a] = user[a] /\ changed'[a] = changed[a]
                     \/ changed'[a] = now
  BY <1>1 DEF Change, TypeInv, TypeOK
<1>4. ProfilesFit'
  BY <1>1, <1>2, <1>3, TimesTyped DEF ProfilesFit
<1>5. ListsFit'
  BY <1>1, VisibleAfterChange DEF ListsFit
<1>6. QED
  BY <1>4, <1>5

LEMMA InsertedFits ==
  ASSUME TypeInv, ProfilesFit, ListsFit, NEW r \in Requests, NEW b \in Rows,
         Inserted(r, b), UNCHANGED <<redis, now, changed>>
  PROVE  ProfilesFit' /\ ListsFit'
<1>1. PICK admin \in BOOLEAN : Create(r, b, admin)
  BY DEF Inserted
<1>2. relisted' = now /\ UNCHANGED <<profile, list, now, changed>> /\ user[b] = NoUser
  BY <1>1 DEF Create, redis
<1>3. profile[b] = NoEntry /\ \A a \in Rows \ {b} : user'[a] = user[a]
  BY <1>1, <1>2 DEF ProfilesFit, Create, TypeInv, TypeOK
<1>4. ProfilesFit'
  BY <1>2, <1>3 DEF ProfilesFit
<1>5. ListsFit'
  BY <1>2, TimesTyped DEF ListsFit
<1>6. QED
  BY <1>4, <1>5

(* What a step does to Redis and the clock. *)
LEMMA RedisSteps ==
  ASSUME [Next]_vars
  PROVE  \/ UNCHANGED <<profile, list, now>>
         \/ Tick
         \/ \E r \in Requests : KeepProfile(r) \/ Forget(r) \/ KeepList(r)
<1>1. ASSUME NEW r \in Requests, Profiles(r) \/ Deactivates(r)
      PROVE  UNCHANGED <<profile, list, now>> \/ KeepProfile(r) \/ Forget(r)
  BY <1>1 DEF Profiles, GetProfile, FindProfile, Deactivates, Deactivate, Hide, redis
<1>2. ASSUME NEW r \in Requests, Lists(r)
      PROVE  UNCHANGED <<profile, list, now>> \/ KeepList(r)
  BY <1>2 DEF Lists, StartList, GetList, FindItems, CountRows, redis
<1>3. ASSUME NEW r \in Requests, Creates(r) \/ Seeds(r) \/ Fails(r)
      PROVE  UNCHANGED <<profile, list, now>>
  BY <1>3 DEF Creates, StartBulk, TakeEntry, EndBulk, Insert, Seeds, StartSeed,
     CheckSeed, InsertAdmin, Fails, redis
<1>4. ASSUME NEW a \in Changing, Change(a) PROVE UNCHANGED <<profile, list, now>>
  BY <1>4 DEF Change, redis
<1>5. CASE Disconnect \/ UNCHANGED vars
  BY <1>5 DEF Disconnect, vars, redis
<1>6. QED
  BY <1>1, <1>2, <1>3, <1>4, <1>5 DEF Next, Quiet

LEMMA CacheStep ==
  TypeInv /\ ProfilesFit /\ ListsFit /\ [Next]_vars => ProfilesFit' /\ ListsFit'
<1> SUFFICES ASSUME TypeInv, ProfilesFit, ListsFit, [Next]_vars
             PROVE  ProfilesFit' /\ ListsFit'
  OBVIOUS
<1>1. CASE /\ UNCHANGED <<user, creator, counted, relisted, changed>>
           /\ UNCHANGED <<profile, list, now>>
  BY <1>1, VisibleSame DEF ProfilesFit, ListsFit
<1>2. CASE Tick
  BY <1>2, TickKeeps
<1>3. CASE \E r \in Requests : KeepProfile(r) \/ Forget(r) \/ KeepList(r)
  BY <1>3, KeepsFit
<1>4. CASE \E r \in Requests : Hide(r)
  BY <1>4, HideFits
<1>5. CASE \E a \in Changing : Change(a)
  BY <1>5, ChangeFits
<1>6. CASE \E r \in Requests, a \in Rows : Inserted(r, a) /\ UNCHANGED <<redis, now, changed>>
  BY <1>6, InsertedFits
<1>7. QED
  BY <1>1, <1>2, <1>3, <1>4, <1>5, <1>6, DbSteps, RedisSteps

(* A key that was written in time differs from the table for less than its *)
(* time to live after the table has changed, whatever the times to live.   *)
THEOREM CacheIsBounded == Spec => []CacheLagIsBounded
<1>1. Init => ProfilesFit /\ ListsFit
  BY DEF Init, ProfilesFit, ListsFit
<1>2. Spec => [](TypeInv /\ ProfilesFit /\ ListsFit)
  BY <1>1, TypeInit, TypeStep, CacheStep, PTL DEF Spec
<1>3. QED
  BY <1>2, LagFollows, PTL

-----------------------------------------------------------------------------
(* Walks over the pages of a list. *)

LEMMA SkippedNext ==
  ASSUME NEW page \in Nat \ {0}, NEW limit \in Nat \ {0}
  PROVE  /\ Skipped(page, limit) \in Nat
         /\ Skipped(page + 1, limit) = Skipped(page, limit) + limit
         /\ page * limit = Skipped(page, limit) + limit
  BY DEF Skipped

Unseen(r)  == expected[r] \ seen[r]
Pending(r) == Unseen(r) \ my[r].items
Skips(r)   == Skipped(my[r].key.page, my[r].key.limit)

LEMMA SkipsTyped ==
  ASSUME TypeInv, NEW r \in Requests
  PROVE  /\ Skips(r) \in Nat /\ Skips(r) + my[r].key.limit \in Nat
         /\ my[r].key.page * my[r].key.limit = Skips(r) + my[r].key.limit
         /\ Skipped(my[r].key.page + 1, my[r].key.limit) = Skips(r) + my[r].key.limit
<1> DEFINE page == my[r].key.page
           limit == my[r].key.limit
<1>1. page \in Nat \ {0} /\ limit \in Nat \ {0}
  BY LocalTyped DEF TypeInv
<1>2. Skips(r) = Skipped(page, limit)
  BY DEF Skips
<1> HIDE DEF page, limit
<1>3. /\ Skipped(page, limit) \in Nat
      /\ Skipped(page + 1, limit) = Skipped(page, limit) + limit
      /\ page * limit = Skipped(page, limit) + limit
  BY <1>1, SkippedNext
<1>4. /\ Skips(r) \in Nat /\ Skips(r) + limit \in Nat /\ page * limit = Skips(r) + limit
      /\ Skipped(page + 1, limit) = Skips(r) + limit
  BY <1>1, <1>2, <1>3
<1>5. QED
  BY <1>4 DEF page, limit

(* What a walk has not shown yet lies behind the rows that it has skipped, *)
(* and as long as something is pending the page is full and not the last.  *)
WalkOf(r) ==
  LET V == Visible(asked[r].all)
  IN  /\ stage[r] \in {"get", "items", "count", "cache"} => expected[r] \subseteq V
      /\ stage[r] \in {"get", "items"} => \A a \in Unseen(r) : Place(a, V) > Skips(r)
      /\ stage[r] \in {"count", "cache"} =>
           \A a \in Pending(r) : Place(a, V) > Skips(r) + my[r].key.limit
      /\ stage[r] = "count" =>
           \A a \in Pending(r) : Cardinality(my[r].items) >= my[r].key.limit
      /\ stage[r] = "cache" =>
           \A a \in Pending(r) : my[r].total > Skips(r) + my[r].key.limit
      /\ result[r] = "ok" => expected[r] \subseteq seen[r]

WalkInv == \A r \in Requests : asked[r].kind = "list" /\ r \notin mixed => WalkOf(r)

(* A step of others: rows may be added, none taken away. *)
LEMMA WalkWaits ==
  ASSUME TypeInv, NEW r \in Requests, WalkOf(r), asked' = asked,
         stage'[r] = stage[r], my'[r] = my[r], result'[r] = result[r],
         expected'[r] = expected[r], seen'[r] = seen[r],
         Visible(asked[r].all) \subseteq Visible(asked[r].all)',
         Visible(asked[r].all)' \subseteq Rows
  PROVE  WalkOf(r)'
<1> DEFINE V == Visible(asked[r].all)
           W == Visible(asked[r].all)'
<1>1. V \in SUBSET Rows /\ Skips(r) \in Int /\ my[r].key.limit \in Nat
  <2>1. my[r].key.page \in Nat \ {0} /\ my[r].key.limit \in Nat \ {0}
    BY LocalTyped DEF TypeInv
  <2>2. Skips(r) \in Int
    BY SkipsTyped
  <2>3. QED
    BY <2>1, <2>2, VisibleTyped
<1>2. Unseen(r)' = Unseen(r) /\ Pending(r)' = Pending(r) /\ Skips(r)' = Skips(r)
  BY DEF Unseen, Pending, Skips
<1>3. Visible(asked[r].all)' = W /\ W \in SUBSET Rows
  OBVIOUS
<1>4. \A a \in V : a \in W /\ Place(a, V) <= Place(a, W) /\ Place(a, V) \in Int /\ Place(a, W) \in Int
  <2>1. \A a \in V : Place(a, V) \in 1..Cardinality(V) /\ Place(a, W) \in 1..Cardinality(W)
    BY <1>1, PlaceTyped
  <2>2. Cardinality(V) \in Nat /\ Cardinality(W) \in Nat
    BY <1>1, Counted
  <2>3. QED
    BY <1>1, <2>1, <2>2, PlaceGrows
<1>5. stage[r] \in {"get", "items", "count", "cache"} =>
        Unseen(r) \subseteq V /\ Pending(r) \subseteq V
  BY DEF WalkOf, Unseen, Pending
<1> HIDE DEF V, W
<1>6. stage[r] \in {"get", "items"} => \A a \in Unseen(r) : Place(a, W) > Skips(r)
  <2>1. SUFFICES ASSUME stage[r] \in {"get", "items"}, NEW a \in Unseen(r)
                 PROVE  Place(a, W) > Skips(r)
    OBVIOUS
  <2>2. Place(a, V) > Skips(r)
    BY <2>1 DEF WalkOf, V
  <2>3. QED
    BY <1>1, <1>4, <1>5, <2>1, <2>2
<1>7. stage[r] \in {"count", "cache"} =>
        \A a \in Pending(r) : Place(a, W) > Skips(r) + my[r].key.limit
  <2>1. SUFFICES ASSUME stage[r] \in {"count", "cache"}, NEW a \in Pending(r)
                 PROVE  Place(a, W) > Skips(r) + my[r].key.limit
    OBVIOUS
  <2>2. Place(a, V) > Skips(r) + my[r].key.limit
    BY <2>1 DEF WalkOf, V
  <2>3. QED
    BY <1>1, <1>4, <1>5, <2>1, <2>2
<1>8. stage[r] \in {"get", "items", "count", "cache"} => expected[r] \subseteq W
  BY DEF WalkOf, V, W
<1>9. /\ stage[r] = "count" =>
           \A a \in Pending(r) : Cardinality(my[r].items) >= my[r].key.limit
      /\ stage[r] = "cache" =>
           \A a \in Pending(r) : my[r].total > Skips(r) + my[r].key.limit
      /\ result[r] = "ok" => expected[r] \subseteq seen[r]
  BY DEF WalkOf
<1>10. QED
  BY <1>2, <1>6, <1>7, <1>8, <1>9 DEF WalkOf, W

(* The next page begins where this one ends. *)
LEMMA WalkAnswers ==
  ASSUME TypeInv, NEW r \in Requests, stage[r] = "cache", result[r] = "none",
         my[r].key.all = asked[r].all, WalkOf(r), asked' = asked,
         UNCHANGED user, expected' = expected,
         Answers(r, my[r].items, my[r].total)
  PROVE  WalkOf(r)'
<1>0. /\ TypeOK /\ my[r].key \in Key /\ my[r].total \in Nat
      /\ my[r].key.page \in Nat \ {0} /\ my[r].key.limit \in Nat \ {0}
  BY LocalTyped DEF TypeInv
<1> DEFINE V == Visible(asked[r].all)
           k == my[r].key
           next == [k EXCEPT !.page = k.page + 1]
           mine == [Unset EXCEPT !.key = next]
<1>1. seen'[r] = seen[r] \union my[r].items
  BY <1>0 DEF Answers, TypeOK
<1>2. Unseen(r)' = Pending(r)
  BY <1>1 DEF Unseen, Pending
<1>3. Visible(asked[r].all)' = V
  BY VisibleSame
<1>4. CASE HasNext(k.page, k.limit, my[r].total)
  <2>1. Awaits(r, "get", mine)
    BY <1>4 DEF Answers
  <2>2. stage'[r] = "get" /\ my'[r] = mine /\ result'[r] = "none"
    BY <1>0, <2>1 DEF Awaits, TypeOK
  <2>3. mine.key = next
    BY DEF Unset
  <2>4. next.page = k.page + 1 /\ next.limit = k.limit
    BY <1>0 DEF Key
  <2>5. Skips(r)' = Skips(r) + k.limit
    <3>1. Skips(r)' = Skipped(k.page + 1, k.limit)
      BY <2>2, <2>3, <2>4 DEF Skips
    <3>2. QED
      BY <3>1, SkipsTyped
  <2>6. \A a \in Pending(r) : Place(a, V) > Skips(r) + k.limit
    BY DEF WalkOf
  <2>7. expected[r] \subseteq V
    BY DEF WalkOf
  <2> HIDE DEF V, mine
  <2>8. QED
    BY <1>2, <1>3, <2>2, <2>5, <2>6, <2>7 DEF WalkOf
<1>5. CASE ~HasNext(k.page, k.limit, my[r].total)
  <2>1. Finish(r, "ok")
    BY <1>5 DEF Answers
  <2>2. stage'[r] = "done" /\ result'[r] = "ok"
    BY <1>0, <2>1 DEF Finish, TypeOK
  <2>3. ~(Skips(r) + k.limit < my[r].total)
    BY <1>5, SkipsTyped DEF HasNext
  <2>4. Skips(r) + k.limit \in Int
    BY SkipsTyped
  <2>5. \A a \in Pending(r) : my[r].total > Skips(r) + k.limit
    BY DEF WalkOf
  <2>6. Pending(r) = {}
    BY <1>0, <2>3, <2>4, <2>5
  <2>7. expected[r] \subseteq seen'[r]
    BY <1>1, <2>6 DEF Pending, Unseen
  <2>8. QED
    BY <2>2, <2>7 DEF WalkOf
<1>6. QED
  BY <1>4, <1>5

(* The steps of a walk itself. *)
LEMMA WalkMoves ==
  ASSUME TypeInv, NEW r \in Requests, asked[r].kind = "list", r \notin mixed',
         r \notin mixed => WalkOf(r),
         Lists(r) \/ Fails(r)
  PROVE  WalkOf(r)'
<1>0. /\ TypeOK /\ my[r] \in Local /\ my[r].key \in Key
      /\ my[r].key.page \in Nat \ {0} /\ my[r].key.limit \in Nat \ {0}
  BY LocalTyped DEF TypeInv
<1> DEFINE k == my[r].key
           V == Visible(asked[r].all)
<1>a. asked' = asked /\ UNCHANGED user
  BY DEF Lists, StartList, GetList, FindItems, CountRows, KeepList, Fails, Begins, At, db
<1>b. V' = V
  BY <1>a, VisibleSame
<1>c. V \in SUBSET Rows /\ Cardinality(V) \in Nat
  BY VisibleTyped
<1>1. CASE StartList(r)
  <2> DEFINE first == KeyOf(asked[r])
             mine == [my[r] EXCEPT !.key = first]
  <2>1. first \in Key /\ first.all = asked[r].all
    BY KeyTyped DEF TypeInv
  <2>2. stage'[r] = "get" /\ my'[r] = mine /\ result'[r] = "none"
    BY <1>0, <1>1, NotYet DEF StartList, Begins, Awaits, TypeOK
  <2>3. mine.key = first
    BY <1>0 DEF Local
  <2>4. expected'[r] = From(first) /\ seen' = seen
    BY <1>0, <1>1 DEF StartList, TypeOK
  <2>5. Skips(r)' = Skipped(first.page, first.limit)
    BY <2>2, <2>3 DEF Skips
  <2>6. From(first) = {a \in V : Place(a, V) > Skipped(first.page, first.limit)}
    BY <2>1 DEF From
  <2> HIDE DEF V, mine, first
  <2>7. /\ Unseen(r)' \subseteq From(first) /\ expected'[r] \subseteq V
        /\ \A a \in Unseen(r)' : Place(a, V) > Skips(r)'
    BY <2>4, <2>5, <2>6 DEF Unseen
  <2>8. Visible(asked[r].all)' = V
    BY <1>b DEF V
  <2>9. QED
    BY <2>2, <2>7, <2>8 DEF WalkOf
<1>2. ASSUME stage[r] \in {"get", "items", "count", "cache"}
      PROVE  k.all = asked[r].all /\ result[r] = "none"
  BY <1>2, NotYet DEF TypeInv, StagesFit
<1>3. CASE GetList(r)
  <2>1. WalkOf(r) /\ stage[r] = "get" /\ result[r] = "none"
    BY <1>2, <1>3 DEF GetList, At
  <2>2. Awaits(r, "items", my[r]) /\ UNCHANGED <<seen, expected>>
    BY <1>3 DEF GetList
  <2>3. stage'[r] = "items" /\ my'[r] = my[r] /\ result'[r] = "none"
    BY <1>0, <2>1, <2>2 DEF Awaits, TypeOK
  <2>4. Unseen(r)' = Unseen(r) /\ Skips(r)' = Skips(r) /\ Visible(asked[r].all)' = V
    BY <1>b, <2>2, <2>3 DEF Unseen, Skips
  <2>5. expected[r] \subseteq V /\ \A a \in Unseen(r) : Place(a, V) > Skips(r)
    BY <2>1 DEF WalkOf
  <2> HIDE DEF V
  <2>6. QED
    BY <2>2, <2>3, <2>4, <2>5 DEF WalkOf
<1>4. CASE FindItems(r)
  <2> DEFINE page == RowsOf(k)
             mine == [my[r] EXCEPT !.items = page]
  <2>1. WalkOf(r) /\ stage[r] = "items" /\ result[r] = "none" /\ k.all = asked[r].all
    BY <1>2, <1>4 DEF FindItems, At, walks
  <2>2. Awaits(r, "count", mine) /\ UNCHANGED <<seen, expected>>
    BY <1>4 DEF FindItems, walks
  <2>3. stage'[r] = "count" /\ my'[r] = mine /\ result'[r] = "none"
    BY <1>0, <2>1, <2>2 DEF Awaits, TypeOK
  <2>4. mine.key = k /\ mine.items = page
    BY <1>0 DEF Local
  <2>5. page = Slice(V, k.page, k.limit)
    BY <2>1 DEF RowsOf
  <2>6. Pending(r)' = Unseen(r) \ page /\ Skips(r)' = Skips(r)
    BY <2>2, <2>3, <2>4 DEF Pending, Unseen, Skips
  <2>7. expected[r] \subseteq V /\ \A a \in Unseen(r) : Place(a, V) > Skips(r)
    BY <2>1 DEF WalkOf
  <2>8. ASSUME NEW a \in Unseen(r) \ page
        PROVE  Place(a, V) > Skips(r) + k.limit /\ Cardinality(page) >= k.limit
    <3>1. a \in V /\ Place(a, V) > Skips(r)
      BY <2>7, <2>8 DEF Unseen
    <3>2. Skips(r) = Skipped(k.page, k.limit)
      BY DEF Skips
    <3>3. Place(a, V) \in Int /\ Skips(r) + k.limit \in Int
      BY <1>c, <3>1, PlaceTyped, SkipsTyped
    <3>4. ~(Place(a, V) <= Skips(r) + k.limit)
      BY <2>5, <2>8, <3>1, <3>2 DEF Slice
    <3>5. Place(a, V) > Skips(r) + k.limit
      BY <3>3, <3>4
    <3>6. Cardinality(Slice(V, k.page, k.limit)) >= k.limit
      <4> HIDE DEF k, V
      <4>1. k.page \in Nat \ {0} /\ k.limit \in Nat \ {0}
        BY <1>0 DEF k
      <4>2. QED
        BY <1>c, <3>1, <3>2, <3>5, <4>1, FullSlice
    <3>7. QED
      BY <2>5, <3>5, <3>6
  <2>9. Visible(asked[r].all)' = V
    BY <1>b
  <2> HIDE DEF V, page, mine
  <2>10. QED
    BY <2>2, <2>3, <2>4, <2>6, <2>7, <2>8, <2>9 DEF WalkOf
<1>5. CASE CountRows(r)
  <2> DEFINE n == Cardinality(my[r].items)
             total == IF IsLast(n, k) THEN Skipped(k.page, k.limit) + n ELSE CountOf(k)
             mine == [my[r] EXCEPT !.total = total]
  <2>1. WalkOf(r) /\ stage[r] = "count" /\ result[r] = "none" /\ k.all = asked[r].all
    BY <1>2, <1>5 DEF CountRows, At, walks
  <2>2. Awaits(r, "cache", mine) /\ UNCHANGED <<seen, expected>>
    BY <1>5 DEF CountRows, walks
  <2>3. stage'[r] = "cache" /\ my'[r] = mine /\ result'[r] = "none"
    BY <1>0, <2>1, <2>2 DEF Awaits, TypeOK
  <2>4. mine.key = k /\ mine.items = my[r].items /\ mine.total = total
    BY <1>0 DEF Local
  <2>5. Pending(r)' = Pending(r) /\ Skips(r)' = Skips(r)
    BY <2>2, <2>3, <2>4 DEF Pending, Unseen, Skips
  <2>6. /\ expected[r] \subseteq V
        /\ \A a \in Pending(r) : Place(a, V) > Skips(r) + k.limit
        /\ \A a \in Pending(r) : n >= k.limit
    BY <2>1 DEF WalkOf
  <2>7. n \in Nat
    BY LocalTyped, Counted DEF TypeInv
  <2>8. ASSUME NEW a \in Pending(r) PROVE total > Skips(r) + k.limit
    <3>1. ~IsLast(n, k)
      BY <1>0, <2>6, <2>7, <2>8 DEF IsLast
    <3>2. total = Cardinality(V)
      BY <2>1, <3>1 DEF CountOf
    <3>3. a \in V
      BY <2>6, <2>8 DEF Pending, Unseen
    <3>4. Place(a, V) \in 1..Cardinality(V)
      BY <1>c, <3>3, PlaceTyped
    <3>5. Skips(r) + k.limit \in Nat
      BY SkipsTyped
    <3>6. Place(a, V) > Skips(r) + k.limit
      BY <2>6, <2>8
    <3> HIDE DEF total, V
    <3>7. QED
      BY <1>c, <3>2, <3>4, <3>5, <3>6
  <2>9. Visible(asked[r].all)' = V
    BY <1>b
  <2> HIDE DEF V, n, total, mine
  <2>10. QED
    BY <2>2, <2>3, <2>4, <2>5, <2>6, <2>8, <2>9 DEF WalkOf
<1>6. CASE KeepList(r)
  <2>1. WalkOf(r) /\ stage[r] = "cache" /\ result[r] = "none" /\ k.all = asked[r].all
    BY <1>2, <1>6 DEF KeepList, At
  <2>2. Answers(r, my[r].items, my[r].total) /\ expected' = expected
    BY <1>6 DEF KeepList
  <2>3. QED
    BY <1>a, <2>1, <2>2, WalkAnswers
<1>7. CASE Fails(r)
  <2>1. stage'[r] = "done" /\ result'[r] = "failed"
    BY <1>0, <1>7 DEF Fails, Finish, TypeOK
  <2>2. QED
    BY <2>1 DEF WalkOf
<1>8. QED
  BY <1>1, <1>3, <1>4, <1>5, <1>6, <1>7 DEF Lists

(* A request moves alone. *)
Moved(r) ==
  \A q \in Requests \ {r} :
    stage'[q] = stage[q] /\ result'[q] = result[q] /\ my'[q] = my[q]

LEMMA FinishMoves ==
  ASSUME TypeOK, NEW r \in Requests, NEW status, Finish(r, status)
  PROVE  Moved(r)
  BY DEF Finish, Moved, TypeOK

LEMMA AwaitsMoves ==
  ASSUME TypeOK, NEW r \in Requests, NEW s, NEW mine, Awaits(r, s, mine)
  PROVE  Moved(r)
  BY DEF Awaits, Moved, TypeOK

LEMMA AnswersMoves ==
  ASSUME TypeOK, NEW r \in Requests, NEW page, NEW total, Answers(r, page, total)
  PROVE  Moved(r) /\ \A q \in Requests \ {r} : seen'[q] = seen[q]
  BY FinishMoves, AwaitsMoves DEF Answers, TypeOK

LEMMA StepMoves ==
  ASSUME TypeOK, NEW r \in Requests,
         Profiles(r) \/ Deactivates(r) \/ Lists(r) \/ Creates(r) \/ Seeds(r) \/ Fails(r)
  PROVE  /\ Moved(r) /\ asked' = asked
         /\ \A q \in Requests \ {r} : expected'[q] = expected[q] /\ seen'[q] = seen[q]
         /\ mixed \subseteq mixed'
         /\ ~(Lists(r) \/ Fails(r)) => UNCHANGED <<expected, seen>>
<1>1. CASE Profiles(r)
  BY <1>1, FinishMoves, AwaitsMoves
     DEF Profiles, GetProfile, FindProfile, KeepProfile, Begins, At, walks
<1>2. CASE Deactivates(r)
  BY <1>2, FinishMoves, AwaitsMoves
     DEF Deactivates, Deactivate, Hide, Forget, Begins, At, walks
<1>3. CASE Lists(r)
  <2>1. CASE StartList(r)
    BY <1>3, <2>1, AwaitsMoves DEF StartList, Begins, TypeOK
  <2>2. CASE GetList(r)
    <3>1. asked' = asked /\ expected' = expected /\ mixed \subseteq mixed'
      BY <2>2 DEF GetList, At
    <3>2. CASE connected /\ my[r].key \in DOMAIN list
      BY <1>3, <2>2, <3>1, <3>2, AnswersMoves DEF GetList
    <3>3. CASE ~(connected /\ my[r].key \in DOMAIN list)
      BY <1>3, <2>2, <3>1, <3>3, AwaitsMoves DEF GetList
    <3>4. QED
      BY <3>2, <3>3
  <2>3. CASE FindItems(r) \/ CountRows(r)
    BY <1>3, <2>3, AwaitsMoves DEF FindItems, CountRows, At, walks
  <2>4. CASE KeepList(r)
    BY <1>3, <2>4, AnswersMoves DEF KeepList, At
  <2>5. QED
    BY <1>3, <2>1, <2>2, <2>3, <2>4 DEF Lists
<1>4. CASE Creates(r)
  <2>1. CASE StartBulk(r) \/ EndBulk(r) \/ Insert(r)
    BY <2>1, FinishMoves, AwaitsMoves DEF StartBulk, EndBulk, Insert, Begins, At, walks
  <2>2. CASE TakeEntry(r)
    BY <2>2, AwaitsMoves DEF TakeEntry, At, walks
  <2>3. QED
    BY <1>4, <2>1, <2>2 DEF Creates
<1>5. CASE Seeds(r)
  BY <1>5, FinishMoves, AwaitsMoves
     DEF Seeds, StartSeed, CheckSeed, InsertAdmin, Begins, At, walks
<1>6. CASE Fails(r)
  BY <1>6, FinishMoves DEF Fails, walks
<1>7. QED
  BY <1>1, <1>2, <1>3, <1>4, <1>5, <1>6

(* Rows leave a list only when one is hidden, and those whose list that    *)
(* changes are noted.                                                      *)
LEMMA ListsGrow ==
  ASSUME TypeInv, [Next]_vars, NEW q \in Requests, asked[q].kind = "list",
         stage[q] \in {"get", "items", "count", "cache"}
  PROVE  q \in mixed' \/ Visible(asked[q].all) \subseteq Visible(asked[q].all)'
<1>0. TypeOK /\ asked[q].all \in BOOLEAN
  BY AskedTyped DEF TypeInv
<1>a. asked' = asked
  BY <1>0, StepMoves DEF Next, Change, Tick, Disconnect, Quiet, vars
<1>1. CASE UNCHANGED <<user, creator, counted, relisted, changed>>
  BY <1>1, <1>a, VisibleSame
<1>2. ASSUME NEW r \in Requests, Hide(r)
      PROVE  q \in mixed' \/ Visible(asked[q].all) \subseteq Visible(asked[q].all)'
  <2>1. CASE ~asked[q].all
    BY <1>2, <2>1 DEF Hide, InProgress
  <2>2. CASE asked[q].all
    <3>1. \A a \in Rows : user'[a] = NoUser <=> user[a] = NoUser
      BY <1>2, RowsAsBefore
    <3>2. asked'[q].all
      BY <1>2, <2>2 DEF Hide, At
    <3>3. QED
      BY <2>2, <3>1, <3>2 DEF Visible, Existing
  <2>3. QED
    BY <1>0, <2>1, <2>2
<1>3. CASE \E a \in Changing : Change(a)
  <2>1. asked' = asked
    BY <1>3 DEF Change
  <2>2. QED
    BY <1>3, <2>1, VisibleAfterChange
<1>4. ASSUME NEW r \in Requests, NEW a \in Rows, Inserted(r, a)
      PROVE  Visible(asked[q].all) \subseteq Visible(asked[q].all)'
  <2>1. PICK admin \in BOOLEAN : Create(r, a, admin)
    BY <1>4 DEF Inserted
  <2>2. user[a] = NoUser /\ \A b \in Rows \ {a} : user'[b] = user[b]
    BY <1>0, <2>1 DEF Create, TypeOK
  <2>3. a \notin Visible(asked[q].all)
    BY <2>2 DEF Visible, Existing
  <2>4. asked' = asked
    BY <1>a
  <2>5. QED
    BY <2>2, <2>3, <2>4 DEF Visible, Existing
<1>5. QED
  BY <1>1, <1>2, <1>3, <1>4, DbSteps

LEMMA WalkStep == TypeInv /\ WalkInv /\ [Next]_vars => WalkInv'
<1> SUFFICES ASSUME TypeInv, WalkInv, [Next]_vars,
                    NEW q \in Requests, asked'[q].kind = "list", q \notin mixed'
             PROVE  WalkOf(q)'
  BY DEF WalkInv
<1>0. TypeOK
  BY DEF TypeInv
<1>1. asked' = asked /\ mixed \subseteq mixed'
  BY <1>0, StepMoves DEF Next, Change, Tick, Disconnect, Quiet, vars, walks
<1>2. asked[q].kind = "list" /\ WalkOf(q)
  BY <1>1 DEF WalkInv
<1>3. CASE Lists(q) \/ Fails(q)
  BY <1>1, <1>2, <1>3, WalkMoves
<1>4. CASE ~(Lists(q) \/ Fails(q))
  <2>1. \/ \E r \in Requests \ {q} :
             Profiles(r) \/ Deactivates(r) \/ Lists(r) \/ Creates(r) \/ Seeds(r) \/ Fails(r)
        \/ UNCHANGED <<stage, my, result, expected, seen>>
    <3>1. ~(Profiles(q) \/ Deactivates(q) \/ Creates(q) \/ Seeds(q))
      <4>1. stage[q] \in {"idle", "get", "items", "count", "cache", "done"}
        BY <1>2 DEF TypeInv, StagesFit
      <4>2. ~Profiles(q) /\ ~Deactivates(q)
        BY <1>2, <4>1 DEF Profiles, GetProfile, FindProfile, KeepProfile,
           Deactivates, Deactivate, Hide, Forget, Begins, At
      <4>3. ~Creates(q)
        BY <1>2, <4>1 DEF Creates, StartBulk, TakeEntry, EndBulk, Insert, Begins, At
      <4>4. ~Seeds(q)
        BY <1>2, <4>1 DEF Seeds, StartSeed, CheckSeed, InsertAdmin, Begins, At
      <4>5. QED
        BY <4>2, <4>3, <4>4
    <3>2. CASE \E r \in Requests :
                 Profiles(r) \/ Deactivates(r) \/ Lists(r) \/ Creates(r) \/ Seeds(r) \/ Fails(r)
      BY <1>4, <3>1, <3>2
    <3>3. CASE (\E a \in Changing : Change(a)) \/ Tick \/ Disconnect \/ UNCHANGED vars
      BY <3>3 DEF Change, Tick, Disconnect, vars, walks
    <3>4. QED
      BY <3>2, <3>3 DEF Next, Quiet
  <2>2. /\ stage'[q] = stage[q] /\ my'[q] = my[q] /\ result'[q] = result[q]
        /\ expected'[q] = expected[q] /\ seen'[q] = seen[q]
    BY <1>0, <2>1, StepMoves DEF Moved
  <2>3. CASE stage[q] \in {"get", "items", "count", "cache"}
    <3>1. Visible(asked[q].all) \subseteq Visible(asked[q].all)'
      BY <1>2, <2>3, ListsGrow
    <3>2. Visible(asked[q].all)' \subseteq Rows
      BY DEF Visible, Existing
    <3>3. QED
      BY <1>1, <1>2, <2>2, <3>1, <3>2, WalkWaits
  <2>4. CASE stage[q] \notin {"get", "items", "count", "cache"}
    BY <1>2, <2>2, <2>4 DEF WalkOf
  <2>5. QED
    BY <2>3, <2>4
<1>5. QED
  BY <1>3, <1>4

(* Whatever the page sizes, however many users are created meanwhile: who  *)
(* reads on to the last page has seen every row that was there at first.   *)
THEOREM WalksAreComplete == Spec => []WalkSeesAll
<1>1. Init => WalkInv
  BY DEF Init, WalkInv, WalkOf
<1>2. WalkInv => WalkSeesAll
  BY DEF WalkInv, WalkOf, WalkSeesAll
<1>3. Spec => []WalkInv
  BY <1>1, TypeInit, TypeStep, WalkStep, PTL DEF Spec
<1>4. QED
  BY <1>2, <1>3, PTL
=============================================================================

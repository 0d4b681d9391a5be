-------------------------------- MODULE Users --------------------------------
(***************************************************************************)
(* UserService over the users table and the Redis cache: profiles and user *)
(* lists read through the cache, deactivation, bulk creation and the seed  *)
(* of the first administrator.  Nothing is locked, and between the read of *)
(* a handler and its write to the cache the row may change.                *)
(*                                                                         *)
(* Rows are known by their e-mail addresses.  Of the columns a profile     *)
(* shows, one value stands for those that Auth changes (isActive and       *)
(* isActivated).  A list shows which accounts it has.                      *)
(***************************************************************************)
EXTENDS ListQuery

CONSTANTS
  Requests,      \* request ids
  Offered,       \* the requests clients may send
  NoUser,        \* null: no row
  NoEntry,       \* null: no key in Redis
  ProfileTime,   \* PROFILE_CACHE_TTL
  ListTime,      \* LIST_CACHE_TTL
  Changing,      \* bound: the rows that Auth changes
  MaxTime,       \* bound: the last instant
  Concurrency    \* bound: requests in progress at the same time

(* list stands for a client that follows the next links of GET /users from *)
(* a page on; seed for a server that starts.                               *)
Kinds   == {"profile", "deactivate", "list", "bulk", "seed"}
Request == [kind : Kinds,
            who : Rows,                  \* of the token; SUPERADMIN_EMAIL
            entries : SUBSET Rows,       \* bulk: the users to create
            isNew : BOOLEAN,             \* bulk: options.isNew
            page : Raw, limit : Raw,     \* list: the raw parameters
            all : BOOLEAN]               \* list: includeDeactivated

User    == [admin : BOOLEAN, isDeactivated : BOOLEAN, shown : BOOLEAN]
Key     == [page : Nat \ {0}, limit : 1..MaxLimit, all : BOOLEAN]

Local   == [copy : BOOLEAN,                 \* profile: as it was read
            key : Key,                      \* list: the page asked for
            items : SUBSET Rows,            \* list: the rows of that page
            total : Nat,                    \* list: the rows of all pages
            left : SUBSET Rows,             \* bulk: the entries still to do
            entry : Rows \union {NoUser}]   \* bulk: the entry at hand

(* late is history: what is written to Redis is no longer so. *)
Profile == [shown : BOOLEAN, until : Nat, late : BOOLEAN]
Listed  == [items : SUBSET Rows, total : Nat, until : Nat, late : BOOLEAN]

ASSUME OfferedAssumption == Offered \subseteq Request
ASSUME NullAssumption    == NoUser \notin User \union Rows /\ NoEntry \notin Profile
ASSUME NumberAssumption  == /\ ProfileTime \in Nat \ {0} /\ ListTime \in Nat \ {0}
                            /\ MaxTime \in Nat /\ Concurrency \in Nat
                            /\ Changing \subseteq Rows

VARIABLES
  asked,      \* what each request asks for
  stage,      \* the statement each request issues next
  result,     \* how each request ended
  my,         \* the variables of each handler
  counted,    \* the users that the request has counted as created
  user,       \* users: one row per address
  profile,    \* Redis: user:profile:<id>
  list,       \* Redis: users:list:<query>
  connected,  \* RedisService.client is there
  now,        \* the clock
  expected,   \* history: the rows from the first page on when a list began
  seen,       \* history: the rows a list has returned
  mixed,      \* history: lists with a page from the cache, or a row hidden
  creator,    \* history: the requests that inserted each row
  changed,    \* history: when the columns of a profile changed last
  relisted    \* history: when a row was inserted or hidden last

redis   == <<profile, list, connected>>
walks   == <<expected, seen, mixed>>
times   == <<changed, relisted>>
db      == <<user, counted, creator>>
vars    == <<asked, stage, result, my, db, redis, now, walks, times>>

Stages   == {"idle", "find", "keep", "hide", "forget", "get", "items", "count",
             "cache", "entry", "insert", "check", "done"}
Statuses == {"none", "ok", "refused", "failed"}
Unset    == [copy |-> FALSE, key |-> [page |-> 1, limit |-> 1, all |-> FALSE],
             items |-> {}, total |-> 0, left |-> {}, entry |-> NoUser]

InProgress == {r \in Requests : stage[r] \notin {"idle", "done"}}

TypeOK ==
  /\ asked \in [Requests -> Offered]
  /\ stage \in [Requests -> Stages]
  /\ result \in [Requests -> Statuses]
  /\ my \in [Requests -> Local]
  /\ counted \in [Requests -> SUBSET Rows]
  /\ user \in [Rows -> User \union {NoUser}]
  /\ profile \in [Rows -> Profile \union {NoEntry}]
  /\ \A k \in DOMAIN list : k \in Key /\ list[k] \in Listed
  /\ connected \in BOOLEAN
  /\ now \in 0..MaxTime
  /\ expected \in [Requests -> SUBSET Rows]
  /\ seen \in [Requests -> SUBSET Rows]
  /\ mixed \subseteq Requests
  /\ creator \in [Rows -> SUBSET Requests]
  /\ changed \in [Rows -> 0..MaxTime]
  /\ relisted \in 0..MaxTime

NewUser(admin) == [admin |-> admin, isDeactivated |-> FALSE, shown |-> FALSE]

Init ==
  /\ asked \in [Requests -> Offered]
  /\ user \in [Rows -> {NewUser(FALSE), NoUser}]
  /\ stage = [r \in Requests |-> "idle"]
  /\ result = [r \in Requests |-> "none"]
  /\ my = [r \in Requests |-> Unset]
  /\ counted = [r \in Requests |-> {}]
  /\ profile = [a \in Rows |-> NoEntry]
  /\ list = [k \in {} |-> NoEntry]
  /\ connected = TRUE
  /\ now = 0
  /\ expected = [r \in Requests |-> {}]
  /\ seen = [r \in Requests |-> {}]
  /\ mixed = {}
  /\ creator = [a \in Rows |-> {}]
  /\ changed = [a \in Rows |-> 0]
  /\ relisted = 0

-----------------------------------------------------------------------------
(* The handler ends; its variables are gone. *)
Finish(r, status) ==
  /\ stage' = [stage EXCEPT ![r] = "done"]
  /\ result' = [result EXCEPT ![r] = status]
  /\ my' = [my EXCEPT ![r] = Unset]

(* It awaits the statement at s, with its variables as in mine. *)
Awaits(r, s, mine) ==
  /\ stage' = [stage EXCEPT ![r] = s]
  /\ my' = [my EXCEPT ![r] = mine]
  /\ UNCHANGED result

(* Request r of a kind arrives, among those in progress. *)
Begins(r, kind) ==
  /\ stage[r] = "idle"
  /\ asked[r].kind = kind
  /\ Cardinality(InProgress) < Concurrency
  /\ UNCHANGED asked

(* Request r takes its step at s. *)
At(r, s) == stage[r] = s /\ UNCHANGED asked

Who(r) == asked[r].who

-----------------------------------------------------------------------------
(* GET /user/profile: getProfileWithCache. *)

(* redis.get *)
GetProfile(r) ==
  /\ Begins(r, "profile")
  /\ IF connected /\ profile[Who(r)] # NoEntry THEN Finish(r, "ok")
                                               ELSE Awaits(r, "find", my[r])
  /\ UNCHANGED <<db, redis, now, walks, times>>

FindProfile(r) ==
  /\ At(r, "find")
  /\ IF user[Who(r)] = NoUser THEN Finish(r, "refused")
     ELSE Awaits(r, "keep", [my[r] EXCEPT !.copy = user[Who(r)].shown])
  /\ UNCHANGED <<db, redis, now, walks, times>>

(* Fault: the key is set without a time to live. *)
KeepForever(r) ==
  /\ At(r, "keep")
  /\ profile' = IF ~connected THEN profile
                ELSE [profile EXCEPT ![Who(r)] =
                        [shown |-> my[r].copy, until |-> MaxTime + 1,
                         late |-> my[r].copy # user[Who(r)].shown]]
  /\ Finish(r, "ok")
  /\ UNCHANGED <<db, list, connected, now, walks, times>>

(* redis.set of what was read then. *)
KeepProfile(r) ==
  /\ At(r, "keep")
  /\ profile' = IF ~connected THEN profile
                ELSE [profile EXCEPT ![Who(r)] =
                        [shown |-> my[r].copy, until |-> now + ProfileTime,
                         late |-> my[r].copy # user[Who(r)].shown]]
  /\ Finish(r, "ok")
  /\ UNCHANGED <<db, list, connected, now, walks, times>>

-----------------------------------------------------------------------------
(* DELETE /user/deactivate. *)

(* findById *)
Deactivate(r) ==
  /\ Begins(r, "deactivate")
  /\ IF user[Who(r)] = NoUser \/ user[Who(r)].isDeactivated
     THEN Finish(r, "refused")
     ELSE Awaits(r, "hide", my[r])
  /\ UNCHANGED <<db, redis, now, walks, times>>

Hide(r) ==
  /\ At(r, "hide")
  /\ user' = [user EXCEPT ![Who(r)].isDeactivated = TRUE]
  /\ mixed' = mixed \union {s \in InProgress : asked[s].kind = "list" /\ ~asked[s].all}
  /\ relisted' = now
  /\ Awaits(r, "forget", my[r])
  /\ UNCHANGED <<counted, creator, redis, now, expected, seen, changed>>

(* redis.del; no list is forgotten. *)
Forget(r) ==
  /\ At(r, "forget")
  /\ profile' = IF connected THEN [profile EXCEPT ![Who(r)] = NoEntry] ELSE profile
  /\ Finish(r, "ok")
  /\ UNCHANGED <<db, list, connected, now, walks, times>>

-----------------------------------------------------------------------------
(* GET /users: findAllPaginatedWithCache. *)

Existing     == {a \in Rows : user[a] # NoUser}
Visible(all) == {a \in Existing : all \/ ~user[a].isDeactivated}

RowsOf(k)  == Slice(Visible(k.all), k.page, k.limit)
CountOf(k) == Cardinality(Visible(k.all))

KeyOf(q) == [page |-> ParsePage(q.page), limit |-> ParseLimit(q.limit), all |-> q.all]

(* The rows of a page and of those after it. *)
From(k) == {a \in Visible(k.all) : Place(a, Visible(k.all)) > Skipped(k.page, k.limit)}

(* RolesGuard has passed; parseListQuery. *)
StartList(r) ==
  /\ Begins(r, "list")
  /\ Awaits(r, "get", [my[r] EXCEPT !.key = KeyOf(asked[r])])
  /\ expected' = [expected EXCEPT ![r] = From(KeyOf(asked[r]))]
  /\ UNCHANGED <<db, redis, now, seen, mixed, times>>

(* The page is answered; the client asks for the next one, if there is one. *)
Answers(r, page, total) ==
  /\ seen' = [seen EXCEPT ![r] = @ \union page]
  /\ LET k == my[r].key
     IN  IF HasNext(k.page, k.limit, total)
         THEN Awaits(r, "get", [Unset EXCEPT !.key = [k EXCEPT !.page = @ + 1]])
         ELSE Finish(r, "ok")

(* redis.get *)
GetList(r) ==
  /\ At(r, "get")
  /\ IF connected /\ my[r].key \in DOMAIN list
     THEN /\ Answers(r, list[my[r].key].items, list[my[r].key].total)
          /\ mixed' = mixed \union {r}
     ELSE Awaits(r, "items", my[r]) /\ UNCHANGED <<seen, mixed>>
  /\ UNCHANGED <<db, redis, now, expected, times>>

(* getManyAndCount: the rows of the page first. *)
FindItems(r) ==
  /\ At(r, "items")
  /\ Awaits(r, "count", [my[r] EXCEPT !.items = RowsOf(my[r].key)])
  /\ UNCHANGED <<db, redis, now, walks, times>>

(* TypeORM knows the count if the page is the last one and not full.       *)
IsLast(n, k) == n < k.limit /\ (n > 0 \/ k.page = 1)

CountRows(r) ==
  /\ At(r, "count")
  /\ LET k == my[r].key
         n == Cardinality(my[r].items)
     IN  Awaits(r, "cache", [my[r] EXCEPT !.total =
           IF IsLast(n, k) THEN Skipped(k.page, k.limit) + n ELSE CountOf(k)])
  /\ UNCHANGED <<db, redis, now, walks, times>>

With(f, x, value) == [y \in DOMAIN f \union {x} |-> IF y = x THEN value ELSE f[y]]

(* redis.set *)
KeepList(r) ==
  /\ At(r, "cache")
  /\ LET k == my[r].key
     IN  list' = IF ~connected THEN list
                 ELSE With(list, k,
                        [items |-> my[r].items, total |-> my[r].total,
                         until |-> now + ListTime,
                         late |-> my[r].items # RowsOf(k) \/ my[r].total # CountOf(k)])
  /\ Answers(r, my[r].items, my[r].total)
  /\ UNCHANGED <<db, profile, connected, now, expected, mixed, times>>

-----------------------------------------------------------------------------
(* createBulkUsers. *)

StartBulk(r) ==
  /\ Begins(r, "bulk")
  /\ Awaits(r, "entry", [my[r] EXCEPT !.left = asked[r].entries])
  /\ UNCHANGED <<db, redis, now, walks, times>>

(* findByEmail for the next entry. *)
TakeEntry(r) ==
  /\ At(r, "entry")
  /\ \E a \in my[r].left :
       LET rest == my[r].left \ {a}
       IN  IF user[a] # NoUser \/ ~asked[r].isNew
           THEN Awaits(r, "entry", [my[r] EXCEPT !.left = rest])
           ELSE Awaits(r, "insert", [my[r] EXCEPT !.left = rest, !.entry = a])
  /\ UNCHANGED <<db, redis, now, walks, times>>

EndBulk(r) ==
  /\ At(r, "entry")
  /\ my[r].left = {}
  /\ Finish(r, "ok")
  /\ UNCHANGED <<db, redis, now, walks, times>>

Count(r, a) == counted' = [counted EXCEPT ![r] = @ \union {a}]

(* INSERT; the address is unique. *)
Create(r, a, admin) ==
  /\ user[a] = NoUser
  /\ user' = [user EXCEPT ![a] = NewUser(admin)]
  /\ creator' = [creator EXCEPT ![a] = @ \union {r}]
  /\ relisted' = now

(* Fault: what could not be inserted is counted as well. *)
InsertCountedFirst(r) ==
  /\ At(r, "insert")
  /\ asked[r].kind = "bulk"
  /\ Create(r, my[r].entry, FALSE) \/ UNCHANGED <<user, creator, relisted>>
  /\ Count(r, my[r].entry)
  /\ Awaits(r, "entry", [my[r] EXCEPT !.entry = NoUser])
  /\ UNCHANGED <<redis, now, walks, changed>>

(* The user is created and counted; or an error is caught, be it of the    *)
(* unique index or of a connection that breaks, with or without the row.   *)
Insert(r) ==
  /\ At(r, "insert")
  /\ asked[r].kind = "bulk"
  /\ \/ Create(r, my[r].entry, FALSE) /\ Count(r, my[r].entry)
     \/ Create(r, my[r].entry, FALSE) /\ UNCHANGED counted
     \/ UNCHANGED <<user, creator, relisted, counted>>
  /\ Awaits(r, "entry", [my[r] EXCEPT !.entry = NoUser])
  /\ UNCHANGED <<redis, now, walks, changed>>

-----------------------------------------------------------------------------
(* seedUsers, when a server starts: createUser unless there is an          *)
(* administrator; its errors are thrown on and the server does not start.  *)

(* countByRoles *)
StartSeed(r) ==
  /\ Begins(r, "seed")
  /\ IF \E a \in Existing : user[a].admin THEN Finish(r, "ok")
                                          ELSE Awaits(r, "check", my[r])
  /\ UNCHANGED <<db, redis, now, walks, times>>

(* findByEmail *)
CheckSeed(r) ==
  /\ At(r, "check")
  /\ IF user[Who(r)] # NoUser THEN Finish(r, "failed") ELSE Awaits(r, "insert", my[r])
  /\ UNCHANGED <<db, redis, now, walks, times>>

InsertAdmin(r) ==
  /\ At(r, "insert")
  /\ asked[r].kind = "seed"
  /\ \/ Create(r, Who(r), TRUE) /\ Count(r, Who(r)) /\ Finish(r, "ok")
     \/ Create(r, Who(r), TRUE) /\ UNCHANGED counted /\ Finish(r, "failed")
     \/ UNCHANGED <<user, creator, relisted, counted>> /\ Finish(r, "failed")
  /\ UNCHANGED <<redis, now, walks, changed>>

-----------------------------------------------------------------------------
(* A statement fails or the server dies: what was written stays. *)
Fails(r) ==
  /\ r \in InProgress
  /\ Finish(r, "failed")
  /\ UNCHANGED <<asked, db, redis, now, walks, times>>

(* Auth changes what a profile shows, by update; no cache is told. *)
Change(a) ==
  /\ user[a] # NoUser
  /\ user' = [user EXCEPT ![a].shown = ~@]
  /\ changed' = [changed EXCEPT ![a] = now]
  /\ UNCHANGED <<asked, stage, result, my, counted, creator, redis, now, walks, relisted>>

(* setEx: Redis drops a key when its time has come. *)
Expired(until, time) == until <= time

Tick ==
  /\ now < MaxTime
  /\ now' = now + 1
  /\ profile' = [a \in Rows |->
       IF profile[a] = NoEntry THEN NoEntry
       ELSE IF Expired(profile[a].until, now + 1) THEN NoEntry ELSE profile[a]]
  /\ list' = [k \in {x \in DOMAIN list : ~Expired(list[x].until, now + 1)} |-> list[k]]
  /\ UNCHANGED <<asked, stage, result, my, db, connected, walks, times>>

(* onModuleDestroy while requests are still served: client is null. *)
Disconnect ==
  /\ connected
  /\ connected' = FALSE
  /\ UNCHANGED <<asked, stage, result, my, db, profile, list, now, walks, times>>

Quiet == (\A r \in Requests : stage[r] = "done") /\ UNCHANGED vars

Profiles(r)    == GetProfile(r) \/ FindProfile(r) \/ KeepProfile(r)
Deactivates(r) == Deactivate(r) \/ Hide(r) \/ Forget(r)
Lists(r)       == StartList(r) \/ GetList(r) \/ FindItems(r) \/ CountRows(r) \/ KeepList(r)
Creates(r)     == StartBulk(r) \/ TakeEntry(r) \/ EndBulk(r) \/ Insert(r)
Seeds(r)       == StartSeed(r) \/ CheckSeed(r) \/ InsertAdmin(r)

Next ==
  \/ \E r \in Requests :
       Profiles(r) \/ Deactivates(r) \/ Lists(r) \/ Creates(r) \/ Seeds(r) \/ Fails(r)
  \/ \E a \in Changing : Change(a)
  \/ Tick
  \/ Disconnect
  \/ Quiet

Spec == Init /\ [][Next]_vars

-----------------------------------------------------------------------------
(* Properties. *)

(* "Get profile for current user with cache ... TTL 5 min" (user.service,  *)
(* line 42), and lists for 3: what Redis holds may differ from the table   *)
(* for less than the time to live after the table has changed, although    *)
(* verification, deactivation and creation leave keys behind; unless the   *)
(* table had changed between the read of a handler and its write to Redis. *)
CacheLagIsBounded ==
  /\ \A a \in Rows :
       profile[a] # NoEntry => \/ profile[a].late
                               \/ profile[a].shown = user[a].shown
                               \/ now < changed[a] + ProfileTime
  /\ \A k \in DOMAIN list :
       \/ list[k].late
       \/ list[k].items = RowsOf(k) /\ list[k].total = CountOf(k)
       \/ now < relisted + ListTime

(* A client that follows the next links to the end has seen every row that *)
(* was in the list, from its first page on, when it began, although users  *)
(* are created meanwhile; unless a page came from the cache or an account  *)
(* was hidden, which moves the rows behind it to pages already read.       *)
WalkSeesAll ==
  \A r \in Requests :
    asked[r].kind = "list" /\ result[r] = "ok" /\ r \notin mixed =>
      expected[r] \subseteq seen[r]

(* Bulk creations and seeds that run at the same time never count a user   *)
(* twice or one that they did not create: each that is counted has one     *)
(* creator.  (An error after the row was inserted leaves it uncounted.)    *)
CreationsAreCounted ==
  \A r \in Requests : \A a \in counted[r] : user[a] # NoUser /\ creator[a] = {r}
=============================================================================

------------------------- MODULE WalletLedgerProofs -------------------------
(***************************************************************************)
(* Theorems that relate balances to the sums of the ledger, for every      *)
(* value of the constants of Wallet.  The sums are folds over finite sets; *)
(* what the proofs need of them comes first, from the well-foundedness of  *)
(* the subsets of a finite set.  Then: balances and ledger move together   *)
(* but for one kind of commit; requests that run one at a time keep them   *)
(* equal; the ledger is priced at quoted rates; and a wallet whose credits *)
(* find the balances they read implements AtomicWallet.                    *)
(***************************************************************************)
EXTENDS WalletProofs, FiniteSetTheorems

-----------------------------------------------------------------------------
(* Sums over finite sets. *)

(* A set of subsets of a finite set that has the empty set, and every set  *)
(* all of whose one-element-smaller sets it has, has them all.             *)
LEMMA SubsetsByRemoval ==
  ASSUME NEW S, IsFiniteSet(S), NEW Good \in SUBSET SUBSET S, {} \in Good,
         \A T \in SUBSET S : T # {} /\ (\A x \in T : T \ {x} \in Good) => T \in Good
  PROVE  Good = SUBSET S
<1> DEFINE Bad == (SUBSET S) \ Good
<1> SUFFICES ASSUME Bad # {}
             PROVE  FALSE
  OBVIOUS
<1>1. PICK T \in Bad : \A U \in Bad : <<U, T>> \notin StrictSubsetOrdering(S)
  <2>1. Bad \subseteq FiniteSubsetsOf(S)
    BY FS_FiniteSubsetsOfFinite
  <2>2. IsWellFoundedOn(StrictSubsetOrdering(S), FiniteSubsetsOf(S))
    BY FS_StrictSubsetOrderingWellFounded
  <2> HIDE DEF Bad
  <2>3. \E T \in Bad : \A U \in Bad : ~(<<U, T>> \in StrictSubsetOrdering(S))
    BY <2>1, <2>2, WFMin
  <2>4. QED
    BY <2>3
<1>2. ASSUME NEW x \in T
      PROVE  T \ {x} \in Good
  <2>1. <<T \ {x}, T>> \in StrictSubsetOrdering(S)
    BY <1>2 DEF StrictSubsetOrdering
  <2>2. QED
    BY <1>1, <2>1
<1>3. QED
  BY <1>1, <1>2

LEMMA NatBySteps ==
  ASSUME NEW T \in SUBSET Nat, 0 \in T, \A n \in T : n + 1 \in T
  PROVE  T = Nat
<1> SUFFICES ASSUME Nat \ T # {}
             PROVE  FALSE
  OBVIOUS
<1>1. PICK m \in Nat \ T : \A n \in Nat \ T : <<n, m>> \notin OpToRel(<, Nat)
  <2>1. Nat \ T \subseteq Nat
    OBVIOUS
  <2>2. QED
    BY <2>1, NatLessThanWellFounded, WFMin
<1>2. \A n \in Nat \ T : ~(n < m)
  BY <1>1 DEF OpToRel
<1>3. m - 1 \in T
  BY <1>2
<1>4. QED
  BY <1>3

(* g is the sum of f over each of the sets of D, one chosen element at a   *)
(* time: the equation of MapThenSumSet.                                    *)
Pick(s) == CHOOSE x \in s : TRUE

SumOn(g, f, D) ==
  g = [s \in D |-> IF s = {} THEN 0 ELSE f[Pick(s)] + g[s \ {Pick(s)}]]

SumOf(f, S) == (CHOOSE g : SumOn(g, f, SUBSET S))[S]

LEMMA PickIn ==
  ASSUME NEW s, s # {}
  PROVE  Pick(s) \in s
  BY DEF Pick

(* The equation has a solution, built up by the size of the sets. *)
LEMMA SumExists ==
  ASSUME NEW S, IsFiniteSet(S), NEW f
  PROVE  \E g : SumOn(g, f, SUBSET S)
<1> DEFINE D(n) == {s \in SUBSET S : Cardinality(s) <= n}
           N == {n \in Nat : \E g : SumOn(g, f, D(n))}
<1>1. \A s \in SUBSET S : IsFiniteSet(s) /\ Cardinality(s) \in Nat
  BY FS_Subset, FS_CardinalityType
<1>2. 0 \in N
  <2> DEFINE g == [s \in D(0) |-> 0]
  <2>1. D(0) = {{}}
    BY <1>1, FS_EmptySet
  <2>2. SumOn(g, f, D(0))
    BY <2>1 DEF SumOn
  <2>3. QED
    BY <2>2
<1>3. ASSUME NEW n \in N
      PROVE  n + 1 \in N
  <2>1. PICK g : SumOn(g, f, D(n))
    OBVIOUS
  <2> DEFINE h == [s \in D(n + 1) |-> IF s = {} THEN 0
                                      ELSE f[Pick(s)] + g[s \ {Pick(s)}]]
  <2>2. \A s \in D(n) : s \in D(n + 1) /\ h[s] = g[s]
    <3>1. SUFFICES ASSUME NEW s \in D(n)
                   PROVE  s \in D(n + 1) /\ h[s] = g[s]
      OBVIOUS
    <3>2. s \in D(n + 1)
      BY <1>1
    <3>3. g[s] = IF s = {} THEN 0 ELSE f[Pick(s)] + g[s \ {Pick(s)}]
      <4> HIDE DEF D
      <4>1. QED
        BY <2>1 DEF SumOn
    <3>4. h[s] = IF s = {} THEN 0 ELSE f[Pick(s)] + g[s \ {Pick(s)}]
      <4> HIDE DEF D
      <4>1. QED
        BY <3>2
    <3>5. QED
      BY <3>2, <3>3, <3>4
  <2>3. \A s \in D(n + 1) : s # {} => s \ {Pick(s)} \in D(n)
    BY <1>1, PickIn, FS_RemoveElement
  <2>4. h = [s \in D(n + 1) |-> IF s = {} THEN 0 ELSE f[Pick(s)] + h[s \ {Pick(s)}]]
    <3> HIDE DEF D
    <3>1. \A s \in D(n + 1) : h[s] = IF s = {} THEN 0 ELSE f[Pick(s)] + h[s \ {Pick(s)}]
      BY <2>2, <2>3
    <3>2. h = [s \in D(n + 1) |-> h[s]]
      OBVIOUS
    <3> HIDE DEF h
    <3>3. QED
      BY <3>1, <3>2
  <2>5. SumOn(h, f, D(n + 1))
    BY <2>4 DEF SumOn
  <2> HIDE DEF D, h
  <2>6. n \in Nat /\ n + 1 \in Nat
    OBVIOUS
  <2>7. QED
    BY <2>5, <2>6
<1>4. N = Nat
  <2>1. N \in SUBSET Nat
    OBVIOUS
  <2> HIDE DEF N
  <2>2. QED
    BY <1>2, <1>3, <2>1, NatBySteps
<1>5. Cardinality(S) \in N /\ D(Cardinality(S)) = SUBSET S
  BY <1>1, <1>4, FS_Subset, FS_CardinalityType
<1>6. QED
  BY <1>5

(* Which element comes first makes no difference. *)
LEMMA SumSplits ==
  ASSUME NEW S, IsFiniteSet(S), NEW f \in [S -> Int], NEW g, SumOn(g, f, SUBSET S)
  PROVE  \A T \in SUBSET S : /\ g[T] \in Int
                             /\ \A x \in T : g[T] = f[x] + g[T \ {x}]
<1> DEFINE Typed == {T \in SUBSET S : g[T] \in Int}
           Good == {T \in SUBSET S : \A x \in T : g[T] = f[x] + g[T \ {x}]}
<1>1. \A T \in SUBSET S : g[T] = IF T = {} THEN 0 ELSE f[Pick(T)] + g[T \ {Pick(T)}]
  BY DEF SumOn
<1>0. \A T \in SUBSET S : g[T] \in Int
  <2>1. {} \in Typed
    <3>1. {} \in SUBSET S
      OBVIOUS
    <3> HIDE DEF Typed
    <3>2. g[{}] = 0
      BY <1>1, <3>1
    <3> USE DEF Typed
    <3>3. QED
      BY <3>1, <3>2
  <2>2. ASSUME NEW T \in SUBSET S, T # {}, \A x \in T : T \ {x} \in Typed
        PROVE  T \in Typed
    <3>1. Pick(T) \in T /\ g[T] = f[Pick(T)] + g[T \ {Pick(T)}]
      BY <1>1, <2>2, PickIn
    <3>2. f[Pick(T)] \in Int /\ g[T \ {Pick(T)}] \in Int
      BY <2>2, <3>1
    <3>3. QED
      BY <3>1, <3>2
  <2>3. Typed \in SUBSET SUBSET S
    OBVIOUS
  <2>4. Typed = SUBSET S
    <3> HIDE DEF Typed
    <3>1. QED
      BY <2>1, <2>2, <2>3, SubsetsByRemoval
  <2>5. QED
    BY <2>4
<1>2. {} \in Good
  OBVIOUS
<1>3. ASSUME NEW T \in SUBSET S, T # {}, \A x \in T : T \ {x} \in Good
      PROVE  T \in Good
  <2> DEFINE c == Pick(T)
  <2>1. c \in T /\ g[T] = f[c] + g[T \ {c}]
    BY <1>1, <1>3, PickIn
  <2> HIDE DEF c
  <2>2. \A x \in T : \A y \in T \ {x} : g[T \ {x}] = f[y] + g[(T \ {x}) \ {y}]
    BY <1>3
  <2>3. \A x \in T : f[x] \in Int
    OBVIOUS
  <2>5. ASSUME NEW x \in T, x # c
        PROVE  g[T] = f[x] + g[T \ {x}]
    <3> DEFINE U == (T \ {c}) \ {x}
    <3>1. (T \ {x}) \ {c} = U /\ x \in T \ {c} /\ c \in T \ {x}
      BY <2>1, <2>5
    <3>2. g[T \ {c}] = f[x] + g[U] /\ g[T \ {x}] = f[c] + g[U]
      BY <2>1, <2>2, <3>1
    <3>3. g[U] \in Int
      <4>1. U \subseteq S
        OBVIOUS
      <4>2. QED
        BY <1>0, <4>1
    <3> HIDE DEF U
    <3>4. QED
      BY <2>1, <2>3, <3>2, <3>3
  <2>6. QED
    BY <2>1, <2>5
<1>4. Good = SUBSET S
  <2>1. Good \in SUBSET SUBSET S
    OBVIOUS
  <2> HIDE DEF Good
  <2>2. QED
    BY <1>2, <1>3, <2>1, SubsetsByRemoval
<1>5. QED
  BY <1>0, <1>4

(* g tabulates the sums of f over the subsets of S. *)
Tabulates(g, f, S) ==
  /\ SumOn(g, f, SUBSET S)
  /\ SumOf(f, S) = g[S]
  /\ \A T \in SUBSET S : /\ g[T] \in Int
                         /\ \A x \in T : g[T] = f[x] + g[T \ {x}]

LEMMA SumOfSolves ==
  ASSUME NEW S, IsFiniteSet(S), NEW f \in [S -> Int]
  PROVE  \E g : Tabulates(g, f, S)
<1> DEFINE g == CHOOSE h : SumOn(h, f, SUBSET S)
<1>1. SumOn(g, f, SUBSET S)
  BY SumExists
<1>2. SumOf(f, S) = g[S]
  BY DEF SumOf
<1> HIDE DEF g
<1>3. \A T \in SUBSET S : /\ g[T] \in Int
                         /\ \A x \in T : g[T] = f[x] + g[T \ {x}]
  BY <1>1, SumSplits
<1>4. QED
  BY <1>1, <1>2, <1>3 DEF Tabulates

LEMMA SumOfEmpty ==
  ASSUME NEW f
  PROVE  SumOf(f, {}) = 0
<1>1. PICK g : SumOn(g, f, SUBSET {}) /\ SumOf(f, {}) = g[{}]
  <2>1. \E g : SumOn(g, f, SUBSET {})
    BY SumExists, FS_EmptySet
  <2>2. QED
    BY <2>1 DEF SumOf
<1>2. \A T \in SUBSET {} : g[T] = IF T = {} THEN 0 ELSE f[Pick(T)] + g[T \ {Pick(T)}]
  BY <1>1 DEF SumOn
<1>3. QED
  BY <1>1, <1>2

LEMMA SumOfInt ==
  ASSUME NEW S, IsFiniteSet(S), NEW f \in [S -> Int]
  PROVE  SumOf(f, S) \in Int
<1>1. PICK g : Tabulates(g, f, S)
  BY SumOfSolves
<1>2. S \in SUBSET S
  OBVIOUS
<1>3. QED
  BY <1>1, <1>2 DEF Tabulates

(* A sum grows by what f is at the element added, wherever the choice      *)
(* would have put that element.                                            *)
LEMMA SumOfAdd ==
  ASSUME NEW S, IsFiniteSet(S), NEW x, x \notin S,
         NEW f \in [S \union {x} -> Int], NEW e \in [S -> Int],
         \A y \in S : e[y] = f[y]
  PROVE  SumOf(f, S \union {x}) = f[x] + SumOf(e, S)
<1> DEFINE U == S \union {x}
<1>0. IsFiniteSet(U) /\ f \in [U -> Int]
  BY FS_AddElement
<1> HIDE DEF U
<1>1. PICK g : Tabulates(g, f, U)
  BY <1>0, SumOfSolves
<1>2. PICK h : Tabulates(h, e, S)
  BY SumOfSolves
<1> USE DEF U
<1> DEFINE Good == {T \in SUBSET S : g[T] = h[T]}
<1>3. {} \in Good
  <2>1. {} \in SUBSET S /\ {} \in SUBSET U
    OBVIOUS
  <2> HIDE DEF U, Good
  <2>2. g[{}] = 0 /\ h[{}] = 0
    BY <1>1, <1>2, <2>1 DEF Tabulates, SumOn
  <2>3. QED
    BY <2>1, <2>2 DEF Good
<1>4. ASSUME NEW T \in SUBSET S, T # {}, \A y \in T : T \ {y} \in Good
      PROVE  T \in Good
  <2>1. PICK y \in T : TRUE
    BY <1>4
  <2>2. T \in SUBSET U /\ T \ {y} \in Good /\ e[y] = f[y]
    BY <1>4
  <2>3. QED
    BY <1>1, <1>2, <2>1, <2>2 DEF Tabulates
<1>5. Good = SUBSET S
  <2>1. Good \in SUBSET SUBSET S
    OBVIOUS
  <2> HIDE DEF Good
  <2>2. QED
    BY <1>3, <1>4, <2>1, SubsetsByRemoval
<1>6. U \ {x} = S
  OBVIOUS
<1>7. QED
  <2>1. S \in SUBSET S /\ U \in SUBSET U /\ x \in U /\ g[S] = h[S]
    BY <1>5
  <2> HIDE DEF U
  <2>2. g[U] = f[x] + g[U \ {x}]
    BY <1>1, <2>1 DEF Tabulates
  <2>3. SumOf(f, U) = f[x] + h[S]
    BY <1>1, <1>6, <2>1, <2>2 DEF Tabulates
  <2>4. SumOf(f, U) = f[x] + SumOf(e, S)
    BY <1>2, <2>3 DEF Tabulates
  <2>5. QED
    BY <2>4 DEF U

-----------------------------------------------------------------------------
(* What the ledger adds up to. *)

(* The net flow of ledger entries is a sum in the sense above. *)
LEMMA FlowIsSum ==
  ASSUME NEW a, NEW S, NEW f, \A x \in S : f[x] = Inflow(x, a) - Outflow(x, a)
  PROVE  NetFlow(S, a) = SumOf(f, S)
<1> DEFINE Flow(x) == Inflow(x, a) - Outflow(x, a)
           Step(g) == [s \in SUBSET S |->
                         IF s = {} THEN 0
                         ELSE Flow(CHOOSE x \in s : TRUE) + g[s \ {CHOOSE x \in s : TRUE}]]
<1>1. NetFlow(S, a) = (CHOOSE g : g = Step(g))[S]
  BY DEF NetFlow, MapThenSumSet, MapThenFoldSet
<1>2. ASSUME NEW g
      PROVE  SumOn(g, f, SUBSET S) <=> g = Step(g)
  <2>1. ASSUME NEW s \in SUBSET S
        PROVE  (IF s = {} THEN 0 ELSE f[Pick(s)] + g[s \ {Pick(s)}])
                 = IF s = {} THEN 0 ELSE Flow(Pick(s)) + g[s \ {Pick(s)}]
    <3>1. CASE s # {}
      <4>1. f[Pick(s)] = Flow(Pick(s))
        BY <3>1, PickIn
      <4>2. QED
        BY <4>1
    <3>2. QED
      BY <3>1
  <2> HIDE DEF Flow
  <2>2. Step(g) = [s \in SUBSET S |-> IF s = {} THEN 0
                                     ELSE Flow(Pick(s)) + g[s \ {Pick(s)}]]
    BY DEF Pick
  <2> HIDE DEF Step
  <2>3. Step(g) = [s \in SUBSET S |-> IF s = {} THEN 0
                                     ELSE f[Pick(s)] + g[s \ {Pick(s)}]]
    BY <2>1, <2>2
  <2>4. QED
    BY <2>3 DEF SumOn
<1> HIDE DEF Step
<1>3. (CHOOSE g : g = Step(g)) = CHOOSE g : SumOn(g, f, SUBSET S)
  BY <1>2
<1>4. QED
  BY <1>1, <1>3 DEF SumOf

(* What one row adds to an account is an integer. *)
LEMMA FlowsInt ==
  ASSUME NEW x \in Row, NEW a
  PROVE  Inflow(x, a) - Outflow(x, a) \in Int
<1>1. x.credit \in Int /\ x.amount \in Int
  BY DEF Row
<1>2. Inflow(x, a) \in Int /\ Outflow(x, a) \in Int
  BY <1>1 DEF Inflow, Outflow
<1>3. QED
  BY <1>2

LEMMA NetFlowEmpty ==
  ASSUME NEW a
  PROVE  NetFlow({}, a) = 0
<1>1. NetFlow({}, a) = SumOf(<<>>, {})
  BY FlowIsSum
<1>2. QED
  BY <1>1, SumOfEmpty

LEMMA NetFlowInt ==
  ASSUME NEW S \in SUBSET Row, IsFiniteSet(S), NEW a
  PROVE  NetFlow(S, a) \in Int
<1> DEFINE f == [x \in S |-> Inflow(x, a) - Outflow(x, a)]
<1>1. f \in [S -> Int] /\ \A x \in S : f[x] = Inflow(x, a) - Outflow(x, a)
  BY FlowsInt
<1> HIDE DEF f
<1>2. NetFlow(S, a) = SumOf(f, S)
  BY <1>1, FlowIsSum
<1>3. QED
  BY <1>1, <1>2, SumOfInt

LEMMA NetFlowAdd ==
  ASSUME NEW S \in SUBSET Row, IsFiniteSet(S), NEW x \in Row \ S, NEW a
  PROVE  NetFlow(S \union {x}, a) = Inflow(x, a) - Outflow(x, a) + NetFlow(S, a)
<1> DEFINE e == [y \in S |-> Inflow(y, a) - Outflow(y, a)]
           f == [y \in S \union {x} |-> Inflow(y, a) - Outflow(y, a)]
<1>1. e \in [S -> Int] /\ \A y \in S : e[y] = Inflow(y, a) - Outflow(y, a)
  BY FlowsInt
<1>2. /\ f \in [S \union {x} -> Int]
      /\ \A y \in S \union {x} : f[y] = Inflow(y, a) - Outflow(y, a)
  BY FlowsInt
<1>3. \A y \in S : e[y] = f[y]
  OBVIOUS
<1>4. x \in S \union {x} /\ f[x] = Inflow(x, a) - Outflow(x, a)
  OBVIOUS
<1> HIDE DEF e, f
<1>5. NetFlow(S, a) = SumOf(e, S) /\ NetFlow(S \union {x}, a) = SumOf(f, S \union {x})
  BY <1>1, <1>2, FlowIsSum
<1>6. SumOf(f, S \union {x}) = f[x] + SumOf(e, S)
  BY <1>1, <1>2, <1>3, SumOfAdd
<1>7. QED
  BY <1>4, <1>5, <1>6
-----------------------------------------------------------------------------
(* What a request about to commit has written.  If it has written the row  *)
(* it credits, it holds its lock, and the row has the balance it read plus *)
(* the credit; it has locked nothing but the rows it debits and credits;   *)
(* an account without a row has no balance, so that inserting one reads    *)
(* like adding to zero.                                                    *)
CreditHeld(r) ==
  LET a == CreditAccount(req[r])
  IN  lock[a] = r => draft[a] = seen[r] + credit[r]

Credited == {"ledger", "commit"}

HeldInv ==
  /\ IsFiniteSet(ledger)
  /\ \A a \in Accounts \ rows : balance[a] = 0
  /\ \A r \in Requests : stage[r] = "insert" => seen[r] = 0
  /\ \A r \in Requests : stage[r] \in Credited => CreditHeld(r)
  /\ \A a \in Accounts, r \in Requests :
       lock[a] = r => \/ Debits(req[r]) /\ a = DebitAccount(req[r])
                      \/ stage[r] \in Credited /\ a = CreditAccount(req[r])

(* Request r alone may have changed what it remembers. *)
OthersKeep(r) ==
  \A q \in Requests \ {r} : seen'[q] = seen[q] /\ credit'[q] = credit[q]

LEMMA CreditAccountTyped ==
  ASSUME TypeInv, NEW r \in Requests, stage[r] \in Accepted
  PROVE  CreditAccount(req[r]) \in Accounts
  BY AccountsTyped, RequestTyped DEF TypeInv, StageInv

LEMMA FinishKeeps ==
  ASSUME TypeInv, NEW r \in Requests, NEW status, NEW tx, Finish(r, status, tx)
  PROVE  Moves(r, "done") /\ OthersKeep(r) /\ req' = req
  BY GotoMoves DEF Finish, OthersKeep, TypeInv, TypeOK

(* A step of r that writes nothing and takes it no further than a read. *)
LEMMA HeldMove ==
  ASSUME TypeInv, HeldInv, NEW r \in Requests, NEW s, Moves(r, s), OthersKeep(r),
         s \notin Credited, stage[r] \notin Credited,
         s = "insert" => seen'[r] = 0,
         UNCHANGED <<req, rows, balance, ledger, lock, draft>>
  PROVE  HeldInv'
<1>1. \A q \in Requests : stage'[q] = "insert" => seen'[q] = 0
  BY DEF HeldInv, Moves, OthersKeep
<1>2. ASSUME NEW q \in Requests, stage'[q] \in Credited
      PROVE  CreditHeld(q)'
  <2>1. q # r /\ stage[q] \in Credited
    BY <1>2 DEF Moves
  <2>2. seen'[q] = seen[q] /\ credit'[q] = credit[q] /\ CreditHeld(q)
    BY <2>1 DEF HeldInv, OthersKeep
  <2>3. QED
    BY <2>2 DEF CreditHeld
<1>3. ASSUME NEW a \in Accounts, NEW q \in Requests, lock[a] = q
      PROVE  \/ Debits(req[q]) /\ a = DebitAccount(req[q])
             \/ stage'[q] \in Credited /\ a = CreditAccount(req[q])
  BY <1>3 DEF HeldInv, Moves
<1>4. QED
  BY <1>1, <1>2, <1>3 DEF HeldInv

(* A transaction that ends gives up its own locks only. *)
LEMMA HeldRelease ==
  ASSUME TypeInv, HeldInv, NEW r \in Requests, NEW s, Moves(r, s), OthersKeep(r),
         s \notin Credited \union {"insert"}, ReleaseLocks(r), req' = req,
         IsFiniteSet(ledger'), \A a \in Accounts \ rows' : balance'[a] = 0
  PROVE  HeldInv'
<1>1. \A q \in Requests : stage'[q] = "insert" => seen'[q] = 0
  BY DEF HeldInv, Moves, OthersKeep
<1>2. ASSUME NEW q \in Requests, stage'[q] \in Credited
      PROVE  CreditHeld(q)'
  <2>1. q # r /\ stage[q] \in Credited
    BY <1>2 DEF Moves
  <2>2. seen'[q] = seen[q] /\ credit'[q] = credit[q] /\ CreditHeld(q)
    BY <2>1 DEF HeldInv, OthersKeep
  <2>3. CreditAccount(req[q]) \in Accounts
    BY <2>1, CreditAccountTyped DEF Credited, Accepted
  <2>4. QED
    BY <2>1, <2>2, <2>3, NoReqAssumption DEF CreditHeld, ReleaseLocks
<1>3. ASSUME NEW a \in Accounts, NEW q \in Requests, lock'[a] = q
      PROVE  \/ Debits(req[q]) /\ a = DebitAccount(req[q])
             \/ stage'[q] \in Credited /\ a = CreditAccount(req[q])
  <2>1. lock[a] = q /\ q # r
    BY <1>3, NoReqAssumption DEF ReleaseLocks
  <2>2. QED
    BY <2>1 DEF HeldInv, Moves
<1>4. QED
  BY <1>1, <1>2, <1>3 DEF HeldInv

LEMMA HeldRollback ==
  ASSUME TypeInv, HeldInv, NEW r \in Requests, NEW status, Rollback(r, status)
  PROVE  HeldInv'
<1>1. /\ Moves(r, "done") /\ OthersKeep(r) /\ req' = req /\ ReleaseLocks(r)
      /\ UNCHANGED <<rows, balance, ledger>>
  BY FinishKeeps DEF Rollback, committed
<1>2. IsFiniteSet(ledger') /\ \A a \in Accounts \ rows' : balance'[a] = 0
  BY <1>1 DEF HeldInv
<1>3. QED
  BY <1>1, <1>2, HeldRelease DEF Credited

(* Writing a row that is free does not disturb what others have written. *)
LEMMA HeldWrite ==
  ASSUME TypeInv, HeldInv, NEW r \in Requests, NEW s, Moves(r, s),
         NEW a \in Accounts, NEW n \in Int, WriteRow(r, a, n),
         UNCHANGED <<req, seen, credit, rows, balance, ledger>>, s # "insert",
         stage[r] \notin Credited,
         \/ s \notin Credited /\ Debits(req[r]) /\ a = DebitAccount(req[r])
         \/ s \in Credited /\ a = CreditAccount(req[r]) /\ n = seen[r] + credit[r]
  PROVE  HeldInv'
<1>1. /\ lock[a] \in {NoReq, r}
      /\ \A b \in Accounts : /\ lock'[b] = IF b = a THEN r ELSE lock[b]
                             /\ draft'[b] = IF b = a THEN n ELSE draft[b]
  BY DEF WriteRow, Free, TypeInv, TypeOK
<1>2. \A q \in Requests : stage'[q] = "insert" => seen'[q] = 0
  BY DEF HeldInv, Moves
<1>3. ASSUME NEW q \in Requests, stage'[q] \in Credited
      PROVE  CreditHeld(q)'
  <2>1. CASE q = r
    <3>1. a = CreditAccount(req[q]) /\ n = seen[q] + credit[q]
      BY <1>3, <2>1 DEF Moves
    <3>2. QED
      BY <1>1, <2>1, <3>1 DEF CreditHeld
  <2>2. CASE q # r
    <3>1. stage[q] \in Credited /\ CreditHeld(q)
      BY <1>3, <2>2 DEF HeldInv, Moves
    <3>2. CreditAccount(req[q]) \in Accounts
      BY <3>1, CreditAccountTyped DEF Credited, Accepted
    <3>3. QED
      BY <1>1, <2>2, <3>1, <3>2 DEF CreditHeld
  <2>3. QED
    BY <2>1, <2>2
<1>4. ASSUME NEW b \in Accounts, NEW q \in Requests, lock'[b] = q
      PROVE  \/ Debits(req[q]) /\ b = DebitAccount(req[q])
             \/ stage'[q] \in Credited /\ b = CreditAccount(req[q])
  <2>1. CASE b = a
    <3>1. q = r /\ stage'[r] = s
      BY <1>1, <1>4, <2>1 DEF Moves
    <3>2. QED
      BY <2>1, <3>1
  <2>2. CASE b # a
    BY <1>1, <1>4, <2>2 DEF HeldInv, Moves
  <2>3. QED
    BY <2>1, <2>2
<1>5. QED
  BY <1>2, <1>3, <1>4 DEF HeldInv

LEMMA LedgerRowsFinite ==
  ASSUME NEW r
  PROVE  IsFiniteSet(LedgerRows(r))
<1>1. \E x, y : LedgerRows(r) = {x} \/ LedgerRows(r) = {x, y}
  BY DEF LedgerRows
<1>2. PICK x, y : LedgerRows(r) = {x} \/ LedgerRows(r) = {x} \union {y}
  BY <1>1
<1>3. IsFiniteSet({x}) /\ IsFiniteSet({x} \union {y})
  BY FS_Singleton, FS_AddElement
<1>4. QED
  BY <1>2, <1>3

LEMMA HeldInit == Init => HeldInv
<1> SUFFICES ASSUME Init
             PROVE  HeldInv
  OBVIOUS
<1>1. IsFiniteSet(ledger)
  BY FS_EmptySet DEF Init
<1>2. QED
  BY <1>1, NoReqAssumption DEF Init, HeldInv, Credited

LEMMA HeldStep ==
  ASSUME TypeInv, HeldInv, [Next]_vars
  PROVE  HeldInv'
<1>1. ASSUME NEW r \in Requests, Arrive(r) \/ BeforeTransaction(r) \/ Reply(r)
      PROVE  HeldInv'
  <2>1. CASE Refuse(r) \/ Replay(r) \/ QuoteFails(r) \/ Reply(r)
    <3>1. /\ Moves(r, "done") /\ OthersKeep(r) /\ stage[r] \notin Credited
          /\ UNCHANGED <<req, rows, balance, ledger, lock, draft>>
      BY <2>1, FinishKeeps DEF Refuse, Replay, QuoteFails, Reply, committed, open, Credited
    <3>2. QED
      BY <3>1, HeldMove DEF Credited
  <2>2. CASE Arrive(r) \/ Proceed(r) \/ Quote(r)
    <3>1. /\ Moves(r, stage'[r]) /\ stage'[r] \notin Credited \union {"insert"}
          /\ stage[r] \notin Credited
          /\ UNCHANGED <<req, rows, balance, ledger, lock, draft>>
      BY <2>2, GotoMoves DEF Arrive, Proceed, Quote, committed, open, Credited
    <3>2. OthersKeep(r)
      BY <2>2 DEF Arrive, Proceed, Quote, local, OthersKeep, TypeInv, TypeOK
    <3>3. QED
      BY <3>1, <3>2, HeldMove
  <2>3. QED
    BY <1>1, <2>1, <2>2 DEF BeforeTransaction
<1>2. ASSUME NEW r \in Requests, GetBalances(r)
      PROVE  HeldInv'
  <2>1. CASE ListBalances(r) \/ CreateConflict(r)
    <3>1. /\ Moves(r, "done") /\ OthersKeep(r) /\ stage[r] \notin Credited
          /\ UNCHANGED <<req, rows, balance, ledger, lock, draft>>
      BY <2>1, FinishKeeps DEF ListBalances, CreateConflict, committed, open, Credited
    <3>2. QED
      BY <3>1, HeldMove DEF Credited
  <2>2. CASE NoBalances(r) \/ FindDefault(r)
    <3>1. /\ Moves(r, stage'[r]) /\ stage'[r] \notin Credited \union {"insert"}
          /\ stage[r] \notin Credited /\ req' = req
          /\ UNCHANGED <<rows, balance, ledger, lock, draft>>
      BY <2>2, GotoMoves DEF NoBalances, FindDefault, Finish, committed, open, Credited
    <3>2. OthersKeep(r)
      BY <2>2, FinishKeeps DEF NoBalances, FindDefault, local, OthersKeep
    <3>3. QED
      BY <3>1, <3>2, HeldMove
  <2>3. CASE CreateDefault(r)
    <3>1. /\ Moves(r, "done") /\ OthersKeep(r) /\ req' = req /\ stage[r] = "create"
          /\ UNCHANGED <<ledger, lock, draft>> /\ IsFiniteSet(ledger')
      BY <2>3, FinishKeeps DEF CreateDefault, open, HeldInv
    <3>2. \A a \in Accounts \ rows' : balance'[a] = 0
      BY <2>3 DEF CreateDefault, HeldInv, TypeInv, TypeOK
    <3>3. \A q \in Requests : stage'[q] = "insert" => seen'[q] = 0
      BY <3>1 DEF HeldInv, Moves, OthersKeep
    <3>4. ASSUME NEW q \in Requests, stage'[q] \in Credited
          PROVE  CreditHeld(q)'
      <4>1. q # r /\ stage[q] \in Credited
        BY <3>1, <3>4 DEF Moves, Credited
      <4>2. QED
        BY <3>1, <4>1 DEF HeldInv, OthersKeep, CreditHeld
    <3>5. \A a \in Accounts, q \in Requests :
            lock[a] = q => \/ Debits(req[q]) /\ a = DebitAccount(req[q])
                           \/ stage'[q] \in Credited /\ a = CreditAccount(req[q])
      BY <3>1 DEF HeldInv, Moves, Credited
    <3>6. QED
      BY <3>1, <3>2, <3>3, <3>4, <3>5 DEF HeldInv
  <2>4. QED
    BY <1>2, <2>1, <2>2, <2>3 DEF GetBalances
<1>3. ASSUME NEW r \in Requests, Debit(r)
      PROVE  HeldInv'
  <2> DEFINE a == DebitAccount(req[r])
             n == balance[a] - AmountStr(req[r])
  <2>1. WriteRow(r, a, n)
    BY <1>3 DEF Debit
  <2>2. a \in Accounts /\ n \in Int
    BY DebitAccountTyped, AmountStrInt, RequestTyped DEF TypeInv, TypeOK
  <2>3. /\ Moves(r, "read") /\ stage[r] = "debit" /\ Debits(req[r])
        /\ UNCHANGED <<req, seen, credit, rows, balance, ledger>>
    BY <1>3, GotoMoves DEF Debit, local, committed, TypeInv, StageInv
  <2> HIDE DEF a, n
  <2>4. a = DebitAccount(req[r])
    BY DEF a
  <2>5. QED
    BY <2>1, <2>2, <2>3, <2>4, HeldWrite DEF Credited
<1>4. ASSUME NEW r \in Requests, ReadCredited(r)
      PROVE  HeldInv'
  <2>1. CreditAccount(req[r]) \in Accounts
    BY <1>4, CreditAccountTyped DEF ReadCredited, Accepted
  <2>2. /\ Moves(r, stage'[r]) /\ stage[r] = "read" /\ stage'[r] \in {"compare", "insert"}
        /\ stage'[r] = "insert" => CreditAccount(req[r]) \notin rows
        /\ UNCHANGED <<req, rows, balance, ledger, lock, draft>>
    BY <1>4, GotoMoves DEF ReadCredited, committed, open
  <2>3. OthersKeep(r) /\ seen'[r] = balance[CreditAccount(req[r])]
    BY <1>4 DEF ReadCredited, OthersKeep, TypeInv, TypeOK
  <2>4. stage'[r] = "insert" => seen'[r] = 0
    BY <2>1, <2>2, <2>3 DEF HeldInv
  <2>5. QED
    BY <2>2, <2>3, <2>4, HeldMove DEF Credited
<1>5. ASSUME NEW r \in Requests, UpdateCredited(r) \/ InsertCredited(r)
      PROVE  HeldInv'
  <2> DEFINE a == CreditAccount(req[r])
             n == seen[r] + credit[r]
  <2>1. a \in Accounts
    BY <1>5, CreditAccountTyped DEF UpdateCredited, InsertCredited, Accepted
  <2>2. n \in Int
    BY DEF TypeInv, TypeOK
  <2>3. WriteRow(r, a, n)
    <3>1. CASE UpdateCredited(r)
      BY <3>1 DEF UpdateCredited
    <3>2. CASE InsertCredited(r)
      <4>1. seen[r] = 0 /\ credit[r] \in Int
        BY <3>2 DEF InsertCredited, HeldInv, TypeInv, TypeOK
      <4>2. n = credit[r]
        BY <4>1
      <4> HIDE DEF n
      <4>3. QED
        BY <3>2, <4>2 DEF InsertCredited
    <3>3. QED
      BY <1>5, <3>1, <3>2
  <2>4. /\ Moves(r, "ledger") /\ stage[r] \notin Credited
        /\ UNCHANGED <<req, seen, credit, rows, balance, ledger>>
    BY <1>5, GotoMoves DEF UpdateCredited, InsertCredited, local, committed, Credited
  <2>5. a = CreditAccount(req[r]) /\ n = seen[r] + credit[r] /\ "ledger" \in Credited
    BY DEF Credited
  <2> HIDE DEF a, n
  <2>6. QED
    BY <2>1, <2>2, <2>3, <2>4, <2>5, HeldWrite
<1>6. ASSUME NEW r \in Requests,
             \/ DebitRefused(r) \/ InsertConflict(r) \/ CreditOverflow(r)
             \/ LedgerConflict(r) \/ DeadlockVictim(r) \/ StatementFails(r)
             \/ CommitFails(r) /\ Rollback(r, "unknown")
      PROVE  HeldInv'
  BY <1>6, HeldRollback DEF DebitRefused, InsertConflict, CreditOverflow,
                            LedgerConflict, DeadlockVictim, StatementFails
<1>7. ASSUME NEW r \in Requests, InsertLedger(r)
      PROVE  HeldInv'
  <2>1. /\ Moves(r, "commit") /\ stage[r] = "ledger"
        /\ UNCHANGED <<req, seen, credit, rows, balance, ledger, lock, draft>>
    BY <1>7, GotoMoves DEF InsertLedger, local, committed
  <2>2. \A q \in Requests : stage'[q] \in Credited <=> stage[q] \in Credited
    BY <2>1 DEF Moves, Credited
  <2>3. \A q \in Requests : stage'[q] = "insert" => stage[q] = "insert"
    BY <2>1 DEF Moves
  <2>4. \A q \in Requests : CreditHeld(q)' <=> CreditHeld(q)
    BY <2>1 DEF CreditHeld
  <2>5. QED
    BY <2>1, <2>2, <2>3, <2>4 DEF HeldInv
<1>8. ASSUME NEW r \in Requests, Commit(r) \/ CommitFails(r), Publish(r)
      PROVE  HeldInv'
  <2>1. /\ Moves(r, stage'[r]) /\ stage'[r] \in {"reply", "done"}
        /\ OthersKeep(r) /\ req' = req
    <3>1. CASE Commit(r)
      BY <3>1, GotoMoves DEF Commit, local, OthersKeep
    <3>2. CASE CommitFails(r)
      <4>1. Finish(r, "unknown", NoReq)
        BY <3>2 DEF CommitFails
      <4>2. Moves(r, "done") /\ OthersKeep(r) /\ req' = req
        BY <4>1, FinishKeeps
      <4>3. stage'[r] = "done"
        BY <4>2 DEF Moves
      <4>4. QED
        BY <4>2, <4>3
    <3>3. QED
      BY <1>8, <3>1, <3>2
  <2>2. IsFiniteSet(ledger')
    BY <1>8, LedgerRowsFinite, FS_Union DEF Publish, HeldInv
  <2>3. (\A a \in Accounts \ rows' : balance'[a] = 0) /\ ReleaseLocks(r)
    BY <1>8 DEF Publish, HeldInv
  <2>4. QED
    BY <2>1, <2>2, <2>3, HeldRelease DEF Credited
<1>9. CASE Crash
  <2>1. \A q \in Requests : stage'[q] \notin Credited \union {"insert"}
    BY <1>9 DEF Crash, InProgress, Credited
  <2>2. UNCHANGED <<req, rows, balance, ledger>> /\ \A a \in Accounts : lock'[a] = NoReq
    BY <1>9 DEF Crash, committed
  <2>3. QED
    BY <2>1, <2>2, NoReqAssumption DEF HeldInv
<1>10. CASE UNCHANGED vars
  BY <1>10 DEF vars, local, committed, open, HeldInv, CreditHeld
<1>11. ASSUME NEW r \in Requests, CompareCredited(r)
       PROVE  HeldInv'
  <2>1. /\ Moves(r, stage'[r]) /\ stage[r] = "compare" /\ stage'[r] \in {"ledger", "update"}
        /\ UNCHANGED <<req, seen, credit, rows, balance, ledger, lock, draft>>
    BY <1>11, GotoMoves DEF CompareCredited, local, committed, open
  <2>2. \A q \in Requests : stage'[q] = "insert" => seen'[q] = 0
    BY <2>1 DEF HeldInv, Moves
  <2>3. lock[CreditAccount(req[r])] # r
    <3>1. WellFormed(req[r]) /\ req[r] \in Offered
      BY <2>1, RequestTyped DEF TypeInv, StageInv, Accepted
    <3>2. CreditAccount(req[r]) \in Accounts
      BY <2>1, CreditAccountTyped DEF Accepted
    <3>3. Debits(req[r]) => CreditAccount(req[r]) # DebitAccount(req[r])
      BY <3>1, AccountsDiffer
    <3>4. QED
      BY <2>1, <3>2, <3>3 DEF HeldInv, Credited
  <2>4. ASSUME NEW q \in Requests, stage'[q] \in Credited
        PROVE  CreditHeld(q)'
    <3>1. CASE q = r
      BY <2>1, <2>3, <3>1 DEF CreditHeld
    <3>2. CASE q # r
      BY <2>1, <2>4, <3>2 DEF HeldInv, Moves, CreditHeld
    <3>3. QED
      BY <3>1, <3>2
  <2>5. \A a \in Accounts, q \in Requests :
          lock[a] = q => \/ Debits(req[q]) /\ a = DebitAccount(req[q])
                         \/ stage'[q] \in Credited /\ a = CreditAccount(req[q])
    BY <2>1 DEF HeldInv, Moves, Credited
  <2>6. QED
    BY <2>1, <2>2, <2>4, <2>5 DEF HeldInv
<1>12. QED
  BY <1>1, <1>2, <1>3, <1>4, <1>5, <1>6, <1>7, <1>8, <1>9, <1>10, <1>11, CommitFailsCases
  DEF Next, Handle, Transaction, Quiet, Commit

LEMMA HeldInvariant == Spec => []HeldInv
  BY TypeInvariant, HeldInit, HeldStep, PTL DEF Spec
-----------------------------------------------------------------------------
(* What a commit adds to the ledger, account by account: its credit where  *)
(* it credits and its debit where it debits, in one row or in two.         *)
Start(a) == IF a \in DOMAIN Opening THEN Opening[a] ELSE 0

Gain(r, a) == IF a = CreditAccount(req[r]) THEN credit[r] ELSE 0
Loss(r, a) == IF Debits(req[r]) /\ a = DebitAccount(req[r]) THEN AmountStr(req[r]) ELSE 0

LEMMA CommitAddsToLedger ==
  ASSUME TypeInv, AnswerInv, HeldInv, NEW r \in Requests, stage[r] = "commit",
         NEW a \in Accounts
  PROVE  NetFlow(ledger \union LedgerRows(r), a)
           = Gain(r, a) - Loss(r, a) + NetFlow(ledger, a)
<1> DEFINE q == req[r]
<1>1. /\ q.kind \in Kinds \ {"balances"} /\ AmountStr(q) \in Int /\ credit[r] \in Int
      /\ WellFormed(q)
  BY RequestTyped, AmountStrInt DEF TypeInv, TypeOK, StageInv, Accepted
<1>2. /\ ledger \in SUBSET Row /\ IsFiniteSet(ledger) /\ NetFlow(ledger, a) \in Int
      /\ LedgerRows(r) \subseteq Row
  BY NetFlowInt, LedgerRowsTyped DEF TypeInv, TypeOK, HeldInv
<1>3. \A x \in LedgerRows(r) : x \notin ledger
  BY DEF LedgerRows, Entry, AnswerInv
<1>4. CASE q.kind = "p2p"
  <2> DEFINE sent == Entry(r, q.user, "transfer_out", q.from, q.key)
             received == Entry(r, q.peer, "transfer_in", q.from, NoKey)
  <2>1. LedgerRows(r) = {sent, received}
    BY <1>4 DEF LedgerRows
  <2>2. sent # received
    BY DEF Entry
  <2>3. /\ Inflow(sent, a) = 0
        /\ Outflow(sent, a) = Loss(r, a)
        /\ Inflow(received, a) = Gain(r, a)
        /\ Outflow(received, a) = 0
    BY <1>1, <1>4 DEF Entry, Inflow, Outflow, Gain, Loss, CreditAccount, DebitAccount, Debits
  <2> HIDE DEF sent, received, q
  <2>4. /\ sent \in Row \ ledger /\ received \in Row \ (ledger \union {sent})
        /\ ledger \union {sent} \in SUBSET Row /\ IsFiniteSet(ledger \union {sent})
    BY <1>2, <1>3, <2>1, <2>2, FS_AddElement
  <2>5. NetFlow(ledger \union {sent}, a) = 0 - Loss(r, a) + NetFlow(ledger, a)
    BY <1>2, <2>3, <2>4, NetFlowAdd
  <2>6. NetFlow((ledger \union {sent}) \union {received}, a)
          = Gain(r, a) - 0 + NetFlow(ledger \union {sent}, a)
    BY <2>3, <2>4, NetFlowAdd
  <2>7. NetFlow(ledger \union LedgerRows(r), a)
          = Gain(r, a) - 0 + NetFlow(ledger \union {sent}, a)
    <3>1. (ledger \union {sent}) \union {received} = ledger \union LedgerRows(r)
      BY <2>1
    <3>2. QED
      BY <2>6, <3>1
  <2>8. Gain(r, a) \in Int /\ Loss(r, a) \in Int
    BY <1>1 DEF Gain, Loss, q
  <2>9. QED
    BY <1>2, <2>5, <2>7, <2>8
<1>5. CASE q.kind # "p2p"
  <2> DEFINE entry == Entry(r, q.user, q.kind, q.to, q.key)
  <2>1. LedgerRows(r) = {entry}
    BY <1>5 DEF LedgerRows
  <2>2. Inflow(entry, a) = Gain(r, a) /\ Outflow(entry, a) = Loss(r, a)
    BY <1>1, <1>5 DEF Entry, Inflow, Outflow, Gain, Loss, CreditAccount, DebitAccount,
                      Debits, Kinds
  <2> HIDE DEF entry
  <2>3. entry \in Row \ ledger
    BY <1>2, <1>3, <2>1
  <2>4. QED
    BY <1>2, <2>1, <2>2, <2>3, NetFlowAdd
<1>6. QED
  BY <1>4, <1>5

LEMMA LedgerBalanceInt ==
  ASSUME TypeInv, HeldInv, NEW a
  PROVE  LedgerBalance(a) \in Int /\ Start(a) \in Int
<1>1. NetFlow(ledger, a) \in Int
  BY NetFlowInt DEF TypeInv, TypeOK, HeldInv
<1>2. Start(a) \in Int
  BY OpeningAssumption, MaxAssumption DEF Start
<1>3. QED
  BY <1>1, <1>2 DEF LedgerBalance, Start

(* The transaction of r is committed, whoever learns of it. *)
Commits(r) == stage[r] = "commit" /\ Publish(r)

(* A commit moves a balance as it moves the ledger, but for what has       *)
(* happened to a credited balance since it was read, or for the credit if  *)
(* save has left it out.                                                   *)
LEMMA CommitDrift ==
  ASSUME TypeInv, LockInv, AnswerInv, HeldInv, NEW r \in Requests, Commits(r),
         NEW a \in Accounts
  PROVE  Drift(a)' = IF a # CreditAccount(req[r]) THEN Drift(a)
                     ELSE IF lock[a] = r THEN seen[r] - LedgerBalance(a)
                     ELSE Drift(a) - credit[r]
<1>1. stage[r] = "commit" /\ ledger' = ledger \union LedgerRows(r)
  BY DEF Commits, Publish
<1>2. balance'[a] = IF lock[a] = r THEN draft[a] ELSE balance[a]
  BY DEF Commits, Publish
<1>3. /\ LedgerBalance(a) = Start(a) + NetFlow(ledger, a)
      /\ LedgerBalance(a)' = Start(a) + NetFlow(ledger', a)
  BY DEF LedgerBalance, Start
<1>4. NetFlow(ledger', a) = Gain(r, a) - Loss(r, a) + NetFlow(ledger, a)
  BY <1>1, CommitAddsToLedger
<1>5. /\ Start(a) \in Int /\ NetFlow(ledger, a) \in Int
      /\ credit[r] \in Int /\ seen[r] \in Int /\ balance[a] \in Int
      /\ AmountStr(req[r]) \in Int
  BY LedgerBalanceInt, NetFlowInt, AmountStrInt, RequestTyped DEF HeldInv, TypeInv, TypeOK
<1>6. WellFormed(req[r]) /\ req[r] \in Offered
  BY <1>1, RequestTyped DEF TypeInv, StageInv, Accepted
<1>7. CASE a = CreditAccount(req[r])
  <2>1. Gain(r, a) = credit[r] /\ Loss(r, a) = 0
    BY <1>6, <1>7, AccountsDiffer DEF Gain, Loss
  <2>2. Drift(a)' = balance'[a] - LedgerBalance(a)' /\ Drift(a) = balance[a] - LedgerBalance(a)
    BY DEF Drift
  <2>3. CASE lock[a] = r
    <3>1. draft[a] = seen[r] + credit[r]
      BY <1>1, <1>7, <2>3 DEF HeldInv, Credited, CreditHeld
    <3>2. QED
      BY <1>2, <1>3, <1>4, <1>5, <1>7, <2>1, <2>2, <2>3, <3>1
  <2>4. CASE lock[a] # r
    BY <1>2, <1>3, <1>4, <1>5, <1>7, <2>1, <2>2, <2>4
  <2>5. QED
    BY <2>3, <2>4
<1>8. CASE a # CreditAccount(req[r]) /\ Debits(req[r]) /\ a = DebitAccount(req[r])
  <2>1. lock[a] = r /\ draft[a] = balance[a] - AmountStr(req[r])
    BY <1>1, <1>8 DEF LockInv, Locking, DebitHeld
  <2>2. Gain(r, a) = 0 /\ Loss(r, a) = AmountStr(req[r])
    BY <1>8 DEF Gain, Loss
  <2>3. Drift(a)' = balance'[a] - LedgerBalance(a)' /\ Drift(a) = balance[a] - LedgerBalance(a)
    BY DEF Drift
  <2>4. QED
    BY <1>2, <1>3, <1>4, <1>5, <1>8, <2>1, <2>2, <2>3
<1>9. CASE a # CreditAccount(req[r]) /\ ~(Debits(req[r]) /\ a = DebitAccount(req[r]))
  <2>1. lock[a] # r
    BY <1>9 DEF HeldInv
  <2>2. Gain(r, a) = 0 /\ Loss(r, a) = 0
    BY <1>9 DEF Gain, Loss
  <2>3. Drift(a)' = balance'[a] - LedgerBalance(a)' /\ Drift(a) = balance[a] - LedgerBalance(a)
    BY DEF Drift
  <2>4. QED
    BY <1>2, <1>3, <1>4, <1>5, <1>9, <2>1, <2>2, <2>3
<1>10. QED
  BY <1>7, <1>8, <1>9

(* Steps other than commits leave the ledger alone, and change no balance: *)
(* creating the default row writes the zero that was read for it before.   *)
LEMMA OnlyCommitsMoveMoney ==
  ASSUME TypeInv, HeldInv, [Next]_vars, \A r \in Requests : ~Commits(r)
  PROVE  ledger' = ledger /\ balance' = balance
<1>1. ASSUME NEW r \in Requests, CreateDefault(r)
      PROVE  ledger' = ledger /\ balance' = balance
  <2> DEFINE a == <<req[r].user, NGN>>
  <2>1. a \in Accounts \ rows
    BY <1>1, RequestTyped, NGNAssumption DEF CreateDefault, TypeInv, Accounts
  <2>2. balance[a] = 0 /\ balance \in [Accounts -> Int]
    BY <2>1 DEF HeldInv, TypeInv, TypeOK
  <2>3. balance' = [balance EXCEPT ![a] = 0] /\ ledger' = ledger
    BY <1>1 DEF CreateDefault
  <2> HIDE DEF a
  <2>4. QED
    BY <2>1, <2>2, <2>3
<1>2. CASE \A r \in Requests : ~CreateDefault(r)
  BY <1>2
  DEF Next, Handle, BeforeTransaction, Transaction, GetBalances, Arrive, Refuse,
      Replay, Proceed, Quote, QuoteFails, Debit, DebitRefused, ReadCredited,
      CompareCredited, UpdateCredited, InsertCredited, InsertConflict, CreditOverflow,
      InsertLedger, LedgerConflict, Commits, Commit, CommitFails, Reply, DeadlockVictim,
      StatementFails, ListBalances, NoBalances, FindDefault, CreateConflict, Rollback,
      Crash, Quiet, vars, committed
<1>3. QED
  BY <1>1, <1>2

LEMMA CommitTakesEffect ==
  ASSUME TypeInv, AnswerInv, NEW r \in Requests, Commits(r)
  PROVE  TakesEffect(r)
<1>1. \A x \in ledger : x.tx # r
  BY DEF AnswerInv, Commits
<1>2. \E x \in LedgerRows(r) : x.tx = r
  BY OwnRow
<1>3. QED
  BY <1>1, <1>2 DEF TakesEffect, Commits, Publish

LEMMA DriftStep ==
  ASSUME TypeInv, LockInv, AnswerInv, HeldInv, [Next]_vars, NEW a \in Accounts
  PROVE  \/ Drift(a)' = Drift(a)
         \/ \E r \in Requests :
              /\ TakesEffect(r)
              /\ CreditAccount(req[r]) = a
              /\ Drift(a)' = IF lock[a] = r THEN seen[r] - LedgerBalance(a)
                                           ELSE Drift(a) - credit[r]
<1>1. CASE \E r \in Requests : Commits(r)
  BY <1>1, CommitDrift, CommitTakesEffect
<1>2. CASE \A r \in Requests : ~Commits(r)
  <2>1. ledger' = ledger /\ balance' = balance
    BY <1>2, OnlyCommitsMoveMoney
  <2>2. QED
    BY <2>1 DEF Drift, LedgerBalance
<1>3. QED
  BY <1>1, <1>2

(* Balances and ledger move together, except where a commit overwrites a   *)
(* balance that has changed since its request read it, or leaves out a     *)
(* credit that another one seemed to have made already.                    *)
THEOREM BalancesAndLedgerMoveTogether == Spec => BalancesFollowLedger
<1> DEFINE Follows ==
      \A a \in Accounts :
        \/ Drift(a)' = Drift(a)
        \/ \E r \in Requests :
             /\ TakesEffect(r)
             /\ CreditAccount(req[r]) = a
             /\ Drift(a)' = IF lock[a] = r THEN seen[r] - LedgerBalance(a)
                                          ELSE Drift(a) - credit[r]
<1>1. TypeInv /\ LockInv /\ AnswerInv /\ HeldInv /\ [Next]_vars => [Follows]_vars
  BY DriftStep
<1>2. QED
  BY <1>1, TypeInvariant, LockInvariant, AnswerInvariant, HeldInvariant, PTL
  DEF Spec, BalancesFollowLedger
-----------------------------------------------------------------------------
(* One request at a time, with crashes: what a request has read still      *)
(* holds when it writes, so that no account drifts, and a key found taken  *)
(* was taken by somebody else.                                             *)
Busy(r) == stage[r] \notin {"idle", "done"}

Alone == \A r, s \in Requests : Busy(r) /\ Busy(s) => r = s

PastLookup == {"quote", "debit", "read", "insert", "compare", "update"} \union Credited

StillTrue(r) ==
  /\ stage[r] \in {"insert", "compare", "update"} \union Credited =>
       seen[r] = balance[CreditAccount(req[r])]
  /\ stage[r] \in Credited =>
       lock[CreditAccount(req[r])] = r \/ credit[r] = 0
  /\ stage[r] = "insert" => CreditAccount(req[r]) \notin rows
  /\ stage[r] = "create" => <<req[r].user, NGN>> \notin rows
  /\ stage[r] \in PastLookup => ~Stored(req[r])

Explained(r) ==
  answer[r].status = "conflict" => KeyTaken(req[r].key) /\ ~Stored(req[r])

SerialInv ==
  /\ Alone
  /\ \A a \in Accounts : Drift(a) = 0
  /\ \A r \in Requests : StillTrue(r) /\ Explained(r)

LEMMA HandledIsBusy ==
  ASSUME NEW r \in Requests, Handle(r) \/ StatementFails(r) \/ CommitFails(r)
  PROVE  Busy(r)
<1>1. CASE DeadlockVictim(r)
  <2>1. WaitsFor(r) # {}
    BY <1>1 DEF DeadlockVictim
  <2>2. QED
    BY <2>1 DEF WaitsFor, Busy
<1>2. CASE ~DeadlockVictim(r)
  BY <1>2
  DEF Busy, Handle, BeforeTransaction, Transaction, GetBalances, Refuse, Replay,
      Proceed, Quote, QuoteFails, Debit, DebitRefused, ReadCredited, CompareCredited,
      UpdateCredited, InsertCredited, InsertConflict, CreditOverflow, InsertLedger,
      LedgerConflict, Commit, CommitFails, Reply, StatementFails, InTransaction,
      ListBalances, NoBalances, FindDefault, CreateDefault, CreateConflict
<1>3. QED
  BY <1>1, <1>2

(* With room for one, a request arrives only when all others are idle or done. *)
LEMMA ArrivesAlone ==
  ASSUME Concurrency = 1, Alone, NEW r \in Requests, Arrive(r)
  PROVE  \A s \in Requests : ~Busy(s)
<1> SUFFICES ASSUME NEW s \in Requests, Busy(s)
             PROVE  FALSE
  OBVIOUS
<1>1. InProgress = {s}
  BY DEF InProgress, Alone, Busy
<1>2. Cardinality(InProgress) = 1
  BY <1>1, FS_Singleton
<1>3. Cardinality(InProgress) < 1
  BY DEF Arrive
<1>4. QED
  BY <1>2, <1>3

(* After a step of r, the others are still at rest. *)
LEMMA OthersRest ==
  ASSUME Concurrency = 1, TypeInv, Alone, NEW r \in Requests,
         Arrive(r) \/ Handle(r) \/ StatementFails(r) \/ CommitFails(r)
  PROVE  \A s \in Requests \ {r} : ~Busy(s) /\ ~Busy(s)'
<1>1. \A s \in Requests \ {r} : ~Busy(s)
  BY HandledIsBusy, ArrivesAlone DEF Alone
<1>2. \A s \in Requests \ {r} : stage'[s] = stage[s]
  BY EachStepMovesOne DEF Moves
<1>3. QED
  BY <1>1, <1>2 DEF Busy

LEMMA RestIsTrue ==
  ASSUME NEW r \in Requests, ~Busy(r)
  PROVE  StillTrue(r)
  BY DEF Busy, StillTrue, PastLookup, Credited

(* Only commits and the creation of the default row write to the tables. *)
LEMMA OnlyTwoWrite ==
  ASSUME [Next]_vars, \A r \in Requests : ~Commits(r) /\ ~CreateDefault(r)
  PROVE  UNCHANGED committed
  BY DEF Next, Handle, BeforeTransaction, Transaction, GetBalances, Arrive, Refuse,
      Replay, Proceed, Quote, QuoteFails, Debit, DebitRefused, ReadCredited,
      CompareCredited, UpdateCredited, InsertCredited, InsertConflict, CreditOverflow,
      InsertLedger, LedgerConflict, Commits, Commit, CommitFails, Reply, DeadlockVictim,
      StatementFails, ListBalances, NoBalances, FindDefault, CreateConflict, Rollback,
      Crash, Quiet, vars

LEMMA RequestsStay ==
  ASSUME [Next]_vars
  PROVE  req' = req
  BY DEF Next, Handle, BeforeTransaction, Transaction, GetBalances, Arrive, Refuse,
         Replay, Proceed, Quote, QuoteFails, Debit, DebitRefused, ReadCredited,
         CompareCredited, UpdateCredited, InsertCredited, InsertConflict, CreditOverflow,
         InsertLedger, LedgerConflict, Commit, CommitFails, Reply, DeadlockVictim, StatementFails, ListBalances,
         NoBalances, FindDefault, CreateDefault, CreateConflict, Rollback, Crash, Quiet,
         Finish, vars

(* What the request that moves has read is still so after its step. *)
LEMMA StillTrueStep ==
  ASSUME TypeInv, NEW r \in Requests, StillTrue(r),
         Arrive(r) \/ Handle(r) \/ StatementFails(r) \/ CommitFails(r)
  PROVE  StillTrue(r)'
<1>1. CASE \/ Refuse(r) \/ Replay(r) \/ QuoteFails(r) \/ Commit(r) \/ Reply(r)
           \/ ListBalances(r) \/ CreateConflict(r) \/ CreateDefault(r) \/ DebitRefused(r)
           \/ InsertConflict(r) \/ CreditOverflow(r) \/ LedgerConflict(r)
           \/ DeadlockVictim(r) \/ StatementFails(r) \/ CommitFails(r) \/ Arrive(r)
           \/ NoBalances(r)
  <2>1. stage'[r] \in {"done", "reply", "lookup", "balances", "find"}
    BY <1>1, GotoMoves
    DEF Refuse, Replay, QuoteFails, Commit, Reply, ListBalances, CreateConflict,
        CreateDefault, DebitRefused, InsertConflict, CreditOverflow, LedgerConflict,
        DeadlockVictim, StatementFails, CommitFails, Rollback, Finish, Arrive, NoBalances
  <2>2. QED
    BY <2>1 DEF StillTrue, PastLookup, Credited
<1>2. CASE Proceed(r) \/ Quote(r) \/ Debit(r)
  <2>1. /\ stage'[r] \in {"quote", "debit", "read"} /\ ~Stored(req[r])
        /\ UNCHANGED <<req, record>>
    BY <1>2, GotoMoves DEF Proceed, Quote, Debit, StillTrue, PastLookup, committed
  <2>2. QED
    BY <2>1 DEF StillTrue, Stored, Credited
<1>3. CASE ReadCredited(r)
  <2>1. /\ stage'[r] = IF CreditAccount(req[r]) \in rows THEN "compare" ELSE "insert"
        /\ stage[r] = "read" /\ UNCHANGED <<req, rows, balance, record>>
        /\ seen'[r] = balance[CreditAccount(req[r])]
    BY <1>3, GotoMoves DEF ReadCredited, committed, TypeInv, TypeOK
  <2>2. QED
    BY <2>1 DEF StillTrue, Stored, PastLookup, Credited
<1>4. CASE UpdateCredited(r) \/ InsertCredited(r) \/ InsertLedger(r)
  <2>1. /\ stage[r] \in {"insert", "update", "ledger"} /\ stage'[r] \in Credited
        /\ UNCHANGED <<req, rows, balance, record, seen, credit>>
    BY <1>4, GotoMoves DEF UpdateCredited, InsertCredited, InsertLedger, local, committed,
                           Credited
  <2>2. CreditAccount(req[r]) \in Accounts
    BY <2>1, CreditAccountTyped DEF Accepted
  <2>3. \/ lock'[CreditAccount(req[r])] = r
        \/ stage[r] = "ledger" /\ lock' = lock
    BY <1>4, <2>2 DEF UpdateCredited, InsertCredited, InsertLedger, WriteRow, TypeInv, TypeOK
  <2>4. QED
    BY <2>1, <2>3 DEF StillTrue, Stored, PastLookup, Credited
<1>5. CASE FindDefault(r)
  <2>1. /\ stage'[r] \in {"done", "create"} /\ UNCHANGED <<req, rows>>
        /\ stage'[r] = "create" => <<req[r].user, NGN>> \notin rows
    BY <1>5, GotoMoves DEF FindDefault, Finish, committed
  <2>2. QED
    BY <2>1 DEF StillTrue, PastLookup, Credited
<1>6. CASE CompareCredited(r)
  <2>1. /\ stage[r] = "compare" /\ stage'[r] \in {"update", "ledger"}
        /\ stage'[r] = "ledger" => balance[CreditAccount(req[r])] = seen[r] + credit[r]
        /\ UNCHANGED <<req, rows, balance, record, seen, credit>>
    BY <1>6, GotoMoves DEF CompareCredited, local, committed
  <2>2. seen[r] = balance[CreditAccount(req[r])] /\ ~Stored(req[r])
    BY <2>1 DEF StillTrue, PastLookup
  <2>3. seen[r] \in Int /\ credit[r] \in Int
    BY DEF TypeInv, TypeOK
  <2>4. stage'[r] = "ledger" => credit[r] = 0
    BY <2>1, <2>2, <2>3
  <2>5. QED
    BY <2>1, <2>2, <2>4 DEF StillTrue, Stored, PastLookup, Credited
<1>7. QED
  BY <1>1, <1>2, <1>3, <1>4, <1>5, <1>6
  DEF Handle, BeforeTransaction, Transaction, GetBalances

(* Which answers tell of a conflict. *)
LEMMA NewConflicts ==
  ASSUME TypeInv, [Next]_vars, NEW r \in Requests,
         answer'[r].status = "conflict", answer[r].status # "conflict"
  PROVE  InsertConflict(r) \/ LedgerConflict(r) \/ CreateConflict(r)
<1>1. ~Crash /\ answer' # answer
  BY DEF Crash
<1>2. PICK q \in Requests : Arrive(q) \/ Handle(q) \/ StatementFails(q) \/ CommitFails(q)
  BY <1>1 DEF Next, Quiet, vars
<1>3. ASSUME NEW status, NEW tx, Finish(q, status, tx)
      PROVE  q = r /\ status = "conflict"
  BY <1>3 DEF Finish, TypeInv, TypeOK
<1>4. CASE \/ Refuse(q) \/ Replay(q) \/ QuoteFails(q) \/ Reply(q) \/ ListBalances(q)
           \/ CreateDefault(q) \/ FindDefault(q)
  <2>1. PICK status \in {"refused", "replayed", "applied", "listed"} :
            \E tx : Finish(q, status, tx)
    BY <1>1, <1>4 DEF Refuse, Replay, QuoteFails, Reply, ListBalances, CreateDefault,
                      FindDefault
  <2>2. QED
    BY <1>3, <2>1
<1>5. CASE \/ DebitRefused(q) \/ CreditOverflow(q) \/ DeadlockVictim(q) \/ StatementFails(q)
           \/ CommitFails(q)
  BY <1>3, <1>5 DEF DebitRefused, CreditOverflow, DeadlockVictim, StatementFails, Rollback,
                    CommitFails
<1>6. CASE InsertConflict(q) \/ LedgerConflict(q) \/ CreateConflict(q)
  <2>1. q = r
    BY <1>3, <1>6 DEF InsertConflict, LedgerConflict, CreateConflict, Rollback
  <2>2. QED
    BY <1>6, <2>1
<1>7. CASE \/ Arrive(q) \/ Proceed(q) \/ Quote(q) \/ Debit(q) \/ ReadCredited(q)
           \/ CompareCredited(q) \/ UpdateCredited(q) \/ InsertCredited(q)
           \/ InsertLedger(q) \/ Commit(q) \/ NoBalances(q)
  BY <1>1, <1>7 DEF Arrive, Proceed, Quote, Debit, ReadCredited, CompareCredited,
                    UpdateCredited, InsertCredited, InsertLedger, Commit, NoBalances
<1>8. QED
  BY <1>2, <1>4, <1>5, <1>6, <1>7
  DEF Handle, BeforeTransaction, Transaction, GetBalances

(* Once a key is taken, no user's stored response for it comes or goes. *)
LEMMA TakenKeyIsSettled ==
  ASSUME TypeInv, KeyInv, [Next]_vars, NEW k, KeyTaken(k)
  PROVE  /\ KeyTaken(k)'
         /\ \A u \in Users : k \in Keys => record'[u, k] = record[u, k]
<1>1. KeyTaken(k)'
  BY LedgerGrows DEF KeyTaken
<1>2. ASSUME NEW u \in Users, k \in Keys
      PROVE  record'[u, k] = record[u, k]
  <2>1. ASSUME NEW r \in Requests, Commits(r)
        PROVE  record'[u, k] = record[u, k]
    <3>1. req[r].key # k
      BY <1>2, <2>1 DEF KeyInv, Commits
    <3>2. QED
      BY <1>2, <2>1, <3>1 DEF Commits, Publish
  <2>2. CASE \A r \in Requests : ~Commits(r)
    <3>1. record' = record
      BY <2>2, OnlyTwoWrite DEF committed, CreateDefault
    <3>2. QED
      BY <3>1
  <2>3. QED
    BY <2>1, <2>2
<1>3. QED
  BY <1>1, <1>2

LEMMA ExplainedStep ==
  ASSUME TypeInv, KeyInv, [Next]_vars, NEW r \in Requests, StillTrue(r), Explained(r)
  PROVE  Explained(r)'
<1> SUFFICES ASSUME answer'[r].status = "conflict"
             PROVE  KeyTaken(req[r].key)' /\ ~Stored(req[r])'
  BY DEF Explained
<1>1. KeyTaken(req[r].key) /\ ~Stored(req[r])
  <2>1. CASE answer[r].status = "conflict"
    BY <2>1 DEF Explained
  <2>2. CASE answer[r].status # "conflict"
    <3>1. ~InsertConflict(r) /\ ~CreateConflict(r)
      BY DEF StillTrue, InsertConflict, CreateConflict
    <3>2. LedgerConflict(r)
      BY <2>2, <3>1, NewConflicts
    <3>3. QED
      BY <3>2 DEF LedgerConflict, StillTrue, PastLookup, Credited
  <2>3. QED
    BY <2>1, <2>2
<1>2. req' = req /\ req[r].user \in Users /\ req[r].key \in Keys
  BY <1>1, RequestsStay, RequestTyped DEF KeyTaken, TypeInv
<1>3. /\ KeyTaken(req[r].key)'
      /\ record'[req[r].user, req[r].key] = record[req[r].user, req[r].key]
  <2>1. PICK k \in Keys, u \in Users : k = req[r].key /\ u = req[r].user
    BY <1>2
  <2>2. KeyTaken(k)
    BY <1>1, <2>1
  <2>3. KeyTaken(k)' /\ record'[u, k] = record[u, k]
    BY <2>2, TakenKeyIsSettled
  <2>4. QED
    BY <1>2, <2>1, <2>3 DEF KeyTaken
<1>4. QED
  BY <1>1, <1>2, <1>3 DEF Stored

LEMMA SerialInit == Init => SerialInv
<1> SUFFICES ASSUME Init
             PROVE  SerialInv
  OBVIOUS
<1>1. ASSUME NEW a \in Accounts
      PROVE  Drift(a) = 0
  <2>1. NetFlow(ledger, a) = 0
    BY NetFlowEmpty DEF Init
  <2>2. balance[a] = Start(a) /\ Start(a) \in Int
    BY OpeningAssumption, MaxAssumption DEF Init, Start
  <2>3. QED
    BY <2>1, <2>2 DEF Drift, LedgerBalance, Start
<1>2. QED
  BY <1>1 DEF Init, SerialInv, Alone, Busy, StillTrue, Explained, PastLookup, Credited

LEMMA SerialStep ==
  ASSUME Concurrency = 1, TypeInv, KeyInv, LockInv, AnswerInv, HeldInv, SerialInv,
         [Next]_vars
  PROVE  SerialInv'
<1>1. \A r \in Requests : Explained(r)'
  BY ExplainedStep DEF SerialInv
<1>2. \A a \in Accounts : Drift(a)' = 0
  <2>1. ASSUME NEW r \in Requests, Commits(r), NEW a \in Accounts
        PROVE  Drift(a)' = 0
    <3>1. /\ seen[r] = balance[CreditAccount(req[r])]
          /\ lock[CreditAccount(req[r])] = r \/ credit[r] = 0
      BY <2>1 DEF Commits, SerialInv, StillTrue, Credited
    <3>2. Drift(a)' = IF a # CreditAccount(req[r]) THEN Drift(a)
                      ELSE IF lock[a] = r THEN seen[r] - LedgerBalance(a)
                      ELSE Drift(a) - credit[r]
      BY <2>1, CommitDrift
    <3>3. Drift(a) = 0
      BY DEF SerialInv
    <3>4. a = CreditAccount(req[r]) => seen[r] - LedgerBalance(a) = Drift(a)
      BY <3>1 DEF Drift
    <3>5. QED
      BY <3>1, <3>2, <3>3, <3>4
  <2>2. CASE \A r \in Requests : ~Commits(r)
    <3>1. ledger' = ledger /\ balance' = balance
      BY <2>2, OnlyCommitsMoveMoney
    <3>2. QED
      BY <3>1 DEF SerialInv, Drift, LedgerBalance
  <2>3. QED
    BY <2>1, <2>2
<1>3. Alone' /\ \A r \in Requests : StillTrue(r)'
  <2>1. ASSUME NEW r \in Requests,
               Arrive(r) \/ Handle(r) \/ StatementFails(r) \/ CommitFails(r)
        PROVE  Alone' /\ \A s \in Requests : StillTrue(s)'
    <3>1. \A s \in Requests \ {r} : ~Busy(s)'
      BY <2>1, OthersRest DEF SerialInv
    <3>2. Alone'
      BY <3>1 DEF Alone
    <3>3. StillTrue(r)'
      BY <2>1, StillTrueStep DEF SerialInv
    <3>4. ASSUME NEW s \in Requests \ {r}
          PROVE  StillTrue(s)'
      BY <3>1, <3>4 DEF Busy, StillTrue, PastLookup, Credited
    <3>5. QED
      BY <3>2, <3>3, <3>4
  <2>2. CASE Crash
    <3>1. \A r \in Requests : ~Busy(r)'
      BY <2>2 DEF Crash, InProgress, Busy
    <3>2. QED
      BY <3>1 DEF Alone, Busy, StillTrue, PastLookup, Credited
  <2>3. CASE UNCHANGED vars
    BY <2>3 DEF vars, local, committed, open, SerialInv, Alone, Busy, StillTrue, Stored
  <2>4. QED
    BY <2>1, <2>2, <2>3 DEF Next, Quiet
<1>4. QED
  BY <1>1, <1>2, <1>3 DEF SerialInv

LEMMA SerialInvariant == Concurrency = 1 => (Spec => []SerialInv)
<1> SUFFICES ASSUME Concurrency = 1
             PROVE  Spec => []SerialInv
  OBVIOUS
<1>1. TypeInv /\ KeyInv /\ LockInv /\ AnswerInv /\ HeldInv /\ SerialInv /\ [Next]_vars
        => SerialInv'
  BY SerialStep
<1>2. QED
  BY <1>1, SerialInit, TypeInvariant, KeyInvariant, LockInvariant, AnswerInvariant,
     HeldInvariant, PTL DEF Spec

(* Balances that drift from the ledger by nothing match it, and then what  *)
(* the ledger says is spent was there.                                     *)
NoDrift == \A a \in Accounts : Drift(a) = 0

LEMMA BooksMatch ==
  ASSUME TypeInv, HeldInv, NoDrift
  PROVE  LedgerMatchesBalances
<1> SUFFICES ASSUME NEW a \in Accounts
             PROVE  balance[a] = LedgerBalance(a)
  BY DEF LedgerMatchesBalances
<1>1. balance[a] \in Int /\ LedgerBalance(a) \in Int
  BY LedgerBalanceInt DEF TypeInv, TypeOK
<1>2. QED
  BY <1>1 DEF NoDrift, Drift

LEMMA NothingSpentTwice ==
  ASSUME MoneyInv, LedgerMatchesBalances
  PROVE  NoDoubleSpend
  BY MaxAssumption DEF MoneyInv, LedgerMatchesBalances, NoDoubleSpend

(* When requests run one at a time the balances are what the ledger says,  *)
(* crashes and failures included.                                          *)
THEOREM SerialBalancesMatch == Concurrency = 1 => (Spec => []LedgerMatchesBalances)
<1> SUFFICES ASSUME Concurrency = 1
             PROVE  Spec => []LedgerMatchesBalances
  OBVIOUS
<1>1. SerialInv => NoDrift
  BY DEF SerialInv, NoDrift
<1>2. QED
  BY <1>1, BooksMatch, TypeInvariant, HeldInvariant, SerialInvariant, PTL

(* ... so that nobody spends more than the account ever held.              *)
THEOREM SerialNoDoubleSpend == Concurrency = 1 => (Spec => []NoDoubleSpend)
  BY NothingSpentTwice, MoneyInvariant, SerialBalancesMatch, PTL

(* ... and a request whose key has a stored response gets that response.   *)
THEOREM SerialDuplicatesAreServed ==
  Concurrency = 1 => (Spec => []DuplicateGetsStoredResponse)
<1> SUFFICES ASSUME Concurrency = 1
             PROVE  Spec => []DuplicateGetsStoredResponse
  OBVIOUS
<1>1. SerialInv => DuplicateGetsStoredResponse
  BY KeyAssumption DEF SerialInv, Explained, Stored, DuplicateGetsStoredResponse
<1>2. QED
  BY <1>1, SerialInvariant, PTL
-----------------------------------------------------------------------------
(* Prices.  Amounts are rounded twice, the debit from the body and the     *)
(* credit from the body times the rate; each is off by half a unit at most. *)
LEMMA RoundBounds ==
  ASSUME NEW n \in Nat, NEW d \in Nat \ {0}
  PROVE  /\ Round(n, d) \in Nat
         /\ (2 * d) * Round(n, d) <= 2 * n + d
         /\ 2 * n + d < (2 * d) * Round(n, d) + 2 * d
<1> DEFINE m == 2 * n + d
           e == 2 * d
<1>1. m \in Nat /\ e \in Nat /\ e > 0
  OBVIOUS
<1>2. Round(n, d) = m \div e
  BY DEF Round
<1> HIDE DEF m, e
<1>3. m \div e \in Nat /\ e * (m \div e) <= m /\ m < e * (m \div e) + e
  BY <1>1
<1>4. QED
  BY <1>2, <1>3 DEF m, e

LEMMA LessWithoutFactor ==
  ASSUME NEW c \in Nat \ {0}, NEW x \in Int, NEW y \in Int, c * x < c * y
  PROVE  x < y
OBVIOUS

LEMMA ProductNat ==
  ASSUME NEW x \in Nat, NEW y \in Nat
  PROVE  x * y \in Nat
<1>1. CASE x = 0 \/ y = 0
  BY <1>1
<1>2. CASE x # 0 /\ y # 0
  BY <1>2, ProductPositive
<1>3. QED
  BY <1>1, <1>2

(* An inequality between fine amounts survives a factor.                  *)
LEMMA ScaledLess ==
  ASSUME NEW x \in Int, NEW y \in Int, NEW z \in Int, NEW n \in Nat \ {0}
  PROVE  /\ 2 * x < 2 * y + z => 2 * (x * n) < 2 * (y * n) + z * n
         /\ 2 * x <= 2 * y + z => 2 * (x * n) <= 2 * (y * n) + z * n
<1>1. x * n \in Int /\ y * n \in Int /\ z * n \in Int
  OBVIOUS
<1>2. (2 * y + z - 2 * x) * n = 2 * (y * n) + z * n - 2 * (x * n)
  OBVIOUS
<1>3. ASSUME NEW k \in Nat PROVE k * n \in Nat /\ (k # 0 => k * n > 0)
  <2>1. CASE k = 0
    BY <2>1
  <2>2. CASE k # 0
    BY <2>2, ProductPositive
  <2>3. QED
    BY <2>1, <2>2
<1>4. 2 * x <= 2 * y + z => 2 * y + z - 2 * x \in Nat
  OBVIOUS
<1>5. 2 * x < 2 * y + z => 2 * y + z - 2 * x # 0
  OBVIOUS
<1>6. QED
  BY <1>1, <1>2, <1>3, <1>4, <1>5

(* The same product grouped in two ways.                                   *)
LEMMA Regrouped ==
  ASSUME NEW F \in Nat, NEW a \in Nat, NEW b \in Nat
  PROVE  (F * a) * b = F * (b * a) /\ F * (a * b) = (F * a) * b
OBVIOUS

(* Two amounts rounded to the nearest minor unit, of which the second is   *)
(* the first at the rate n/d, are within half a unit of each other on each *)
(* side of the rate.                                                       *)
LEMMA RoundedAtRate ==
  ASSUME NEW A \in Nat, NEW C \in Nat, NEW m \in Nat, NEW F \in Nat \ {0},
         NEW n \in Nat \ {0}, NEW d \in Nat \ {0},
         (2 * F) * A <= 2 * m + F, 2 * m + F < (2 * F) * A + 2 * F,
         (2 * (F * d)) * C <= 2 * (m * n) + F * d,
         2 * (m * n) + F * d < (2 * (F * d)) * C + 2 * (F * d)
  PROVE  /\ 2 * (d * C - n * A) < n + d
         /\ 2 * (n * A - d * C) < n + d
<1>1. /\ F * A \in Nat /\ F * d \in Nat /\ F * n \in Nat /\ m * n \in Nat
      /\ n * A \in Nat /\ d * C \in Nat
  BY ProductNat
<1>2. F * (n * A) \in Nat /\ F * (d * C) \in Nat
  BY <1>1, ProductNat
<1>3. (2 * F) * A = 2 * (F * A) /\ (2 * (F * d)) * C = 2 * ((F * d) * C)
  BY <1>1
<1>4. (F * A) * n = F * (n * A) /\ (F * d) * C = F * (d * C)
  BY Regrouped
<1>5. 2 * m < 2 * (F * A) + F /\ 2 * (F * A) <= 2 * m + F
  BY <1>1, <1>3
<1>6. /\ 2 * (m * n) < 2 * (F * (n * A)) + F * n
      /\ 2 * (F * (n * A)) <= 2 * (m * n) + F * n
  BY <1>1, <1>4, <1>5, ScaledLess
<1>7. /\ 2 * (F * (d * C)) <= 2 * (m * n) + F * d
      /\ 2 * (m * n) < 2 * (F * (d * C)) + F * d
  BY <1>1, <1>2, <1>3, <1>4
<1>8. /\ 2 * (F * (d * C)) - 2 * (F * (n * A)) < F * n + F * d
      /\ 2 * (F * (n * A)) - 2 * (F * (d * C)) < F * n + F * d
  BY <1>1, <1>2, <1>6, <1>7
<1>9. /\ F * (2 * (d * C - n * A)) = 2 * (F * (d * C)) - 2 * (F * (n * A))
      /\ F * (2 * (n * A - d * C)) = 2 * (F * (n * A)) - 2 * (F * (d * C))
      /\ F * (n + d) = F * n + F * d
  <2> DEFINE nA == n * A
             dC == d * C
  <2>1. nA \in Int /\ dC \in Int
    BY <1>1
  <2> HIDE DEF nA, dC
  <2>2. /\ F * (2 * (dC - nA)) = 2 * (F * dC) - 2 * (F * nA)
        /\ F * (2 * (nA - dC)) = 2 * (F * nA) - 2 * (F * dC)
        /\ F * (n + d) = F * n + F * d
    BY <2>1
  <2>3. QED
    BY <2>2 DEF nA, dC
<1>10. /\ F * (2 * (d * C - n * A)) < F * (n + d)
       /\ F * (2 * (n * A - d * C)) < F * (n + d)
  BY <1>8, <1>9
<1>11. 2 * (d * C - n * A) \in Int /\ 2 * (n * A - d * C) \in Int /\ n + d \in Int
  BY <1>1
<1>12. QED
  BY <1>10, <1>11, LessWithoutFactor

(* What is credited is what is debited, at the rate, within half a unit of *)
(* each of the two currencies.                                             *)
LEMMA AmountsAtRate ==
  ASSUME NEW q \in Offered, NEW rate \in (Nat \ {0}) \X (Nat \ {0})
  PROVE  /\ 2 * (rate[2] * TargetAmount(q, rate) - rate[1] * AmountStr(q)) < rate[1] + rate[2]
         /\ 2 * (rate[1] * AmountStr(q) - rate[2] * TargetAmount(q, rate)) < rate[1] + rate[2]
<1>1. q.amount \in Nat
  BY OfferedAssumption DEF Request
<1>2. rate[1] \in Nat \ {0} /\ rate[2] \in Nat \ {0} /\ Fine \in Nat \ {0}
  BY FineAssumption
<1>3. q.amount * rate[1] \in Nat /\ Fine * rate[2] \in Nat \ {0}
  BY <1>1, <1>2, ProductPositive
<1>4. /\ AmountStr(q) \in Nat
      /\ (2 * Fine) * AmountStr(q) <= 2 * q.amount + Fine
      /\ 2 * q.amount + Fine < (2 * Fine) * AmountStr(q) + 2 * Fine
  BY <1>1, <1>2, RoundBounds DEF AmountStr
<1>5. /\ TargetAmount(q, rate) \in Nat
      /\ (2 * (Fine * rate[2])) * TargetAmount(q, rate)
           <= 2 * (q.amount * rate[1]) + Fine * rate[2]
      /\ 2 * (q.amount * rate[1]) + Fine * rate[2]
           < (2 * (Fine * rate[2])) * TargetAmount(q, rate) + 2 * (Fine * rate[2])
  BY <1>3, RoundBounds DEF TargetAmount
<1>6. QED
  BY <1>1, <1>2, <1>4, <1>5, RoundedAtRate

(* A transaction runs with the credit its price lookup gave it: the target *)
(* amount at one of the rates of its pair, or the amount itself.           *)
Priced(r) ==
  IF NeedsQuote(req[r])
  THEN \E rate \in Rates[req[r].from, req[r].to] :
         credit[r] = TargetAmount(req[r], rate)
  ELSE credit[r] = AmountStr(req[r])

PriceInv ==
  /\ \A r \in Requests : InTransaction(r) => Priced(r)
  /\ LedgerIsPriced

(* A step of a request leaves what the others remember. *)
LEMMA EachStepKeepsOthers ==
  ASSUME TypeInv, NEW r \in Requests,
         Arrive(r) \/ Handle(r) \/ StatementFails(r) \/ CommitFails(r)
  PROVE  OthersKeep(r)
<1>1. CASE \/ Refuse(r) \/ Replay(r) \/ QuoteFails(r) \/ Reply(r) \/ ListBalances(r)
           \/ CreateConflict(r) \/ CreateDefault(r) \/ DebitRefused(r) \/ InsertConflict(r)
           \/ CreditOverflow(r) \/ LedgerConflict(r) \/ DeadlockVictim(r) \/ StatementFails(r)
           \/ CommitFails(r)
  BY <1>1, FinishKeeps
  DEF Refuse, Replay, QuoteFails, Reply, ListBalances, CreateConflict, CreateDefault,
      DebitRefused, InsertConflict, CreditOverflow, LedgerConflict, DeadlockVictim,
      StatementFails, CommitFails, Rollback
<1>2. CASE \/ Arrive(r) \/ Proceed(r) \/ Quote(r) \/ Debit(r) \/ ReadCredited(r)
           \/ CompareCredited(r) \/ UpdateCredited(r) \/ InsertCredited(r) \/ InsertLedger(r) \/ Commit(r)
           \/ NoBalances(r)
  BY <1>2
  DEF Arrive, Proceed, Quote, Debit, ReadCredited, CompareCredited, UpdateCredited,
      InsertCredited, InsertLedger, Commit, NoBalances, local, OthersKeep, TypeInv, TypeOK
<1>3. CASE FindDefault(r)
  BY <1>3, FinishKeeps DEF FindDefault, local, OthersKeep
<1>4. QED
  BY <1>1, <1>2, <1>3 DEF Handle, BeforeTransaction, Transaction, GetBalances

(* Whoever is inside a transaction after its own step has its price.       *)
LEMMA PricedStep ==
  ASSUME TypeInv, NEW r \in Requests, InTransaction(r) => Priced(r),
         Arrive(r) \/ Handle(r) \/ StatementFails(r) \/ CommitFails(r),
         InTransaction(r)'
  PROVE  Priced(r)'
<1>1. req' = req
  BY RequestsStay DEF Next
<1>2. CASE Proceed(r)
  <2>1. ~NeedsQuote(req[r]) /\ credit'[r] = AmountStr(req[r])
    BY <1>2, GotoMoves DEF Proceed, InTransaction, TypeInv, TypeOK
  <2>2. QED
    BY <1>1, <2>1 DEF Priced
<1>3. CASE Quote(r)
  <2>1. PICK rate \in Rates[req[r].from, req[r].to] :
          credit' = [credit EXCEPT ![r] = TargetAmount(req[r], rate)]
    BY <1>3 DEF Quote
  <2>2. credit'[r] = TargetAmount(req[r], rate)
    BY <2>1 DEF TypeInv, TypeOK
  <2>3. NeedsQuote(req[r])
    BY <1>3 DEF Quote, TypeInv, StageInv
  <2>4. QED
    BY <1>1, <2>2, <2>3 DEF Priced
<1>4. CASE \/ Debit(r) \/ ReadCredited(r) \/ CompareCredited(r)
           \/ UpdateCredited(r) \/ InsertCredited(r) \/ InsertLedger(r)
  <2>1. credit' = credit /\ InTransaction(r)
    BY <1>4 DEF Debit, ReadCredited, CompareCredited, UpdateCredited, InsertCredited,
                InsertLedger, local, InTransaction
  <2>2. QED
    BY <1>1, <2>1 DEF Priced
<1>5. CASE \/ Arrive(r) \/ Refuse(r) \/ Replay(r) \/ QuoteFails(r) \/ Commit(r) \/ Reply(r)
           \/ ListBalances(r) \/ NoBalances(r) \/ FindDefault(r) \/ CreateDefault(r)
           \/ CreateConflict(r) \/ DebitRefused(r) \/ InsertConflict(r) \/ CreditOverflow(r)
           \/ LedgerConflict(r) \/ DeadlockVictim(r) \/ StatementFails(r) \/ CommitFails(r)
  <2>1. stage'[r] \in {"done", "reply", "lookup", "balances", "find", "create"}
    BY <1>5, GotoMoves
    DEF Arrive, Refuse, Replay, QuoteFails, Commit, Reply, ListBalances, NoBalances,
        FindDefault, CreateDefault, CreateConflict, DebitRefused, InsertConflict,
        CreditOverflow, LedgerConflict, DeadlockVictim, StatementFails, CommitFails,
        Rollback, Finish
  <2>2. QED
    BY <2>1 DEF InTransaction
<1>6. QED
  BY <1>2, <1>3, <1>4, <1>5 DEF Handle, BeforeTransaction, Transaction, GetBalances

(* The rows a commit adds are at the price of its request.                 *)
LEMMA CommitIsPriced ==
  ASSUME TypeInv, NEW r \in Requests, Priced(r), LedgerIsPriced, Commits(r)
  PROVE  LedgerIsPriced'
<1> DEFINE q == req[r]
           Exchanges == {"conversion", "trade", "transfer"}
<1>1. ledger' = ledger \union LedgerRows(r)
  BY DEF Commits, Publish
<1>2. q \in Offered /\ q.kind \in Kinds /\ q.from \in Currencies /\ q.to \in Currencies
  BY RequestTyped DEF TypeInv
<1>3. ASSUME NEW x \in LedgerRows(r)
      PROVE  /\ x.type \in Exchanges <=> NeedsQuote(q)
             /\ x.amount = AmountStr(q) /\ x.credit = credit[r]
             /\ NeedsQuote(q) => x.from = q.from /\ x.to = q.to
  BY <1>2 DEF LedgerRows, Entry, NeedsQuote, Kinds
<1>4. ASSUME NEW x \in LedgerRows(r), x.type \in Exchanges
      PROVE  \E rate \in Rates[x.from, x.to] :
               /\ 2 * (rate[2] * x.credit - rate[1] * x.amount) < rate[1] + rate[2]
               /\ 2 * (rate[1] * x.amount - rate[2] * x.credit) < rate[1] + rate[2]
  <2>1. PICK rate \in Rates[q.from, q.to] : credit[r] = TargetAmount(q, rate)
    BY <1>3, <1>4 DEF Priced
  <2>2. rate \in (Nat \ {0}) \X (Nat \ {0})
    BY <1>2, RateAssumption
  <2>3. /\ 2 * (rate[2] * credit[r] - rate[1] * AmountStr(q)) < rate[1] + rate[2]
        /\ 2 * (rate[1] * AmountStr(q) - rate[2] * credit[r]) < rate[1] + rate[2]
    BY <1>2, <2>1, <2>2, AmountsAtRate
  <2>4. QED
    BY <1>3, <1>4, <2>3
<1>5. ASSUME NEW x \in LedgerRows(r), x.type \notin Exchanges
      PROVE  x.credit = x.amount
  BY <1>3, <1>5 DEF Priced
<1>6. QED
  BY <1>1, <1>4, <1>5 DEF LedgerIsPriced

LEMMA PriceInit == Init => PriceInv
  BY DEF Init, PriceInv, InTransaction, LedgerIsPriced

LEMMA PriceStep ==
  ASSUME TypeInv, PriceInv, [Next]_vars
  PROVE  PriceInv'
<1>1. ASSUME NEW r \in Requests,
             Arrive(r) \/ Handle(r) \/ StatementFails(r) \/ CommitFails(r)
      PROVE  PriceInv'
  <2>1. Moves(r, stage'[r]) /\ OthersKeep(r) /\ req' = req
    BY <1>1, EachStepMovesOne, EachStepKeepsOthers, RequestsStay
  <2>2. ASSUME NEW q \in Requests \ {r}, InTransaction(q)'
        PROVE  Priced(q)'
    <3>1. stage'[q] = stage[q] /\ credit'[q] = credit[q]
      BY <2>1 DEF Moves, OthersKeep
    <3>2. Priced(q)
      BY <2>2, <3>1 DEF PriceInv, InTransaction
    <3>3. QED
      BY <2>1, <3>1, <3>2 DEF Priced
  <2>3. InTransaction(r)' => Priced(r)'
    BY <1>1, PricedStep DEF PriceInv
  <2>4. LedgerIsPriced'
    <3>1. CASE Commits(r)
      BY <3>1, CommitIsPriced DEF PriceInv, Commits, InTransaction
    <3>2. CASE ~Commits(r)
      <4>1. ledger' = ledger
        BY <1>1, <3>2
        DEF Handle, BeforeTransaction, Transaction, GetBalances, Arrive, Refuse, Replay,
            Proceed, Quote, QuoteFails, Debit, DebitRefused, ReadCredited,
            CompareCredited, UpdateCredited, InsertCredited, InsertConflict,
            CreditOverflow, InsertLedger, LedgerConflict, Commits, Commit, CommitFails,
            Reply, DeadlockVictim, StatementFails, ListBalances, NoBalances, FindDefault,
            CreateDefault, CreateConflict, Rollback, committed
      <4>2. QED
        BY <4>1 DEF PriceInv, LedgerIsPriced
    <3>3. QED
      BY <3>1, <3>2
  <2>5. QED
    BY <2>2, <2>3, <2>4 DEF PriceInv
<1>2. CASE Crash
  BY <1>2 DEF Crash, PriceInv, InTransaction, InProgress, LedgerIsPriced, committed
<1>3. CASE Quiet \/ UNCHANGED vars
  BY <1>3 DEF Quiet, PriceInv, InTransaction, LedgerIsPriced, Priced, vars, local, committed
<1>4. QED
  BY <1>1, <1>2, <1>3 DEF Next

LEMMA PriceInvariant == Spec => []PriceInv
  BY PriceInit, PriceStep, TypeInvariant, PTL DEF Spec

(* Every committed exchange is at a quoted rate of its pair, both amounts  *)
(* rounded once; what is funded or sent is credited as it was debited.     *)
THEOREM LedgerKeepsPrices == Spec => []LedgerIsPriced
<1>1. PriceInv => LedgerIsPriced
  BY DEF PriceInv
<1>2. QED
  BY <1>1, PriceInvariant, PTL
-----------------------------------------------------------------------------
(* One at a time, the wallet is an AtomicWallet: a commit executes its     *)
(* request, no other step changes a balance or the ledger.                 *)

(* The definitions of AtomicWallet's requests are those of the wallet's.   *)
LEMMA SameRequests ==
  ASSUME NEW q \in Offered
  PROVE  /\ Atomic!WellFormed(q) <=> WellFormed(q)
         /\ Atomic!CreditAccount(q) = CreditAccount(q)
         /\ Atomic!Debits(q) <=> Debits(q)
         /\ Atomic!DebitAccount(q) = DebitAccount(q)
         /\ Atomic!AmountStr(q) = AmountStr(q)
         /\ Atomic!NeedsQuote(q) <=> NeedsQuote(q)
         /\ Atomic!Accounts = Accounts
  BY DEF Atomic!WellFormed, WellFormed, Atomic!CreditAccount, CreditAccount, Atomic!Debits,
         Debits, Atomic!DebitAccount, DebitAccount, Atomic!AmountStr, AmountStr,
         Atomic!NeedsQuote, NeedsQuote, Atomic!Accounts, Accounts, Atomic!Round, Round

LEMMA PricedIsWorth ==
  ASSUME TypeInv, NEW r \in Requests, Priced(r)
  PROVE  credit[r] \in Atomic!Worth(req[r])
<1>1. req[r] \in Offered
  BY RequestTyped DEF TypeInv
<1>2. \A q, rate : Atomic!TargetAmount(q, rate) = TargetAmount(q, rate)
  BY DEF Atomic!TargetAmount, TargetAmount, Atomic!Round, Round
<1>3. QED
  BY <1>1, <1>2, SameRequests DEF Priced, Atomic!Worth

LEMMA CommitExecutes ==
  ASSUME TypeInv, LockInv, AnswerInv, HeldInv, PriceInv, NoDrift, NoDrift',
         BalanceInRange', NEW r \in Requests, Commits(r), req' = req
  PROVE  Atomic!Execute(r)
<1> DEFINE q == req[r]
<1>1. /\ stage[r] = "commit" /\ ledger' = ledger \union LedgerRows(r) /\ req' = req
      /\ balance' = [a \in Accounts |-> IF lock[a] = r THEN draft[a] ELSE balance[a]]
  BY DEF Commits, Publish
<1>2. q \in Offered /\ WellFormed(q)
  BY <1>1, RequestTyped DEF TypeInv, StageInv, Accepted
<1>3. r \notin {x.tx : x \in ledger}
  BY <1>1 DEF AnswerInv
<1>4. {x.tx : x \in ledger'} = {x.tx : x \in ledger} \union {r}
  <2>1. (\A x \in LedgerRows(r) : x.tx = r) /\ (\E x \in LedgerRows(r) : TRUE)
    BY OwnRow
  <2> DEFINE new == LedgerRows(r)
  <2>2. (\A x \in new : x.tx = r) /\ (\E x \in new : TRUE) /\ ledger' = ledger \union new
    BY <1>1, <2>1
  <2> HIDE DEF new
  <2>3. QED
    BY <2>2
<1>5. credit[r] \in Atomic!Worth(q)
  BY <1>1, PricedIsWorth DEF PriceInv, InTransaction
<1>6. ASSUME NEW a \in Accounts
      PROVE  balance'[a] = Gain(r, a) - Loss(r, a) + balance[a]
  <2>1. NetFlow(ledger', a) = Gain(r, a) - Loss(r, a) + NetFlow(ledger, a)
    BY <1>1, CommitAddsToLedger
  <2>2. Drift(a) = 0 /\ Drift(a)' = 0
    BY DEF NoDrift
  <2>3. /\ LedgerBalance(a) = Start(a) + NetFlow(ledger, a)
        /\ LedgerBalance(a)' = Start(a) + NetFlow(ledger', a)
    BY DEF LedgerBalance, Start
  <2>4. balance[a] \in Int /\ NetFlow(ledger, a) \in Int /\ Start(a) \in Int
    BY NetFlowInt, OpeningAssumption, MaxAssumption DEF Start, TypeInv, TypeOK, HeldInv
  <2>5. balance'[a] \in Int
    BY DEF BalanceInRange
  <2>6. Gain(r, a) \in Int /\ Loss(r, a) \in Int
    BY <1>2, AmountStrInt DEF Gain, Loss, TypeInv, TypeOK
  <2>7. balance[a] = Start(a) + NetFlow(ledger, a)
    BY <2>2, <2>3, <2>4 DEF Drift
  <2>8. balance'[a] = Start(a) + (Gain(r, a) - Loss(r, a) + NetFlow(ledger, a))
    BY <2>1, <2>2, <2>3, <2>4, <2>5, <2>6 DEF Drift
  <2>9. QED
    BY <2>4, <2>6, <2>7, <2>8
<1>7. \A a \in Accounts :
        /\ Gain(r, a) = IF a = Atomic!CreditAccount(q) THEN credit[r] ELSE 0
        /\ Loss(r, a) = Atomic!Leaves(q, a)
  BY <1>2, SameRequests DEF Gain, Loss, Atomic!Leaves
<1>8. balance' = [a \in Accounts |-> (IF a = Atomic!CreditAccount(q) THEN credit[r] ELSE 0)
                                       - Atomic!Leaves(q, a) + balance[a]]
  BY <1>1, <1>6, <1>7
<1>9. \A a \in Accounts : balance'[a] \in 0..MaxBalance
  BY DEF BalanceInRange
<1> HIDE DEF q
<1>10. Atomic!WellFormed(q) /\ Atomic!Accounts = Accounts
  BY <1>2, SameRequests
<1>11. QED
  BY <1>1, <1>3, <1>4, <1>5, <1>8, <1>9, <1>10 DEF Atomic!Execute, q

LEMMA AtomicInit == Init => Atomic!Init
  BY DEF Init, Atomic!Init, Atomic!Accounts, Accounts

LEMMA AtomicStep ==
  ASSUME TypeInv, LockInv, AnswerInv, HeldInv, PriceInv, NoDrift, NoDrift',
         BalanceInRange', [Next]_vars
  PROVE  [Atomic!Next]_Atomic!vars
<1>1. CASE \E r \in Requests : Commits(r)
  BY <1>1, CommitExecutes, RequestsStay DEF Atomic!Next
<1>2. CASE \A r \in Requests : ~Commits(r)
  BY <1>2, OnlyCommitsMoveMoney, RequestsStay DEF Atomic!vars
<1>3. QED
  BY <1>1, <1>2

(* When requests run one at a time each of them takes effect at once or    *)
(* not at all, whatever fails and whenever the server dies.                *)
THEOREM SerialWalletIsAtomic == Concurrency = 1 => (Spec => RequestsAreAtomic)
<1> SUFFICES ASSUME Concurrency = 1
             PROVE  Spec => RequestsAreAtomic
  OBVIOUS
<1>1. SerialInv => NoDrift
  BY DEF SerialInv, NoDrift
<1>2. QED
  BY <1>1, AtomicInit, AtomicStep, TypeInvariant, LockInvariant, AnswerInvariant,
     HeldInvariant, PriceInvariant, SerialInvariant, BalancesStayInRange, PTL
  DEF Spec, RequestsAreAtomic, Atomic!Spec

-----------------------------------------------------------------------------
(* What is missing when requests overlap is one thing only: that a credit  *)
(* still finds the balance it has read, both when save compares it and     *)
(* when the transaction commits, as it would if createOrGetBalance locked  *)
(* the row as debitBalance does.  Then what is written replaces what was   *)
(* read, and nothing is left out but a credit that rounds to zero.         *)
CreditIsFresh ==
  \A r \in Requests :
    TakesEffect(r) => IF lock[CreditAccount(req[r])] = r
                      THEN seen[r] = balance[CreditAccount(req[r])]
                      ELSE credit[r] = 0

LEMMA NoDriftInit == Init => NoDrift
<1> SUFFICES ASSUME Init, NEW a \in Accounts
             PROVE  Drift(a) = 0
  BY DEF NoDrift
<1>1. ledger = {} /\ balance[a] = Start(a)
  BY DEF Init, Start
<1>2. LedgerBalance(a) = Start(a) + NetFlow(ledger, a)
  BY DEF LedgerBalance, Start
<1>3. NetFlow(ledger, a) = 0 /\ Start(a) \in Int
  BY <1>1, NetFlowEmpty, OpeningAssumption, MaxAssumption DEF Start
<1>4. QED
  BY <1>1, <1>2, <1>3 DEF Drift

LEMMA NoDriftStep ==
  ASSUME TypeInv, LockInv, AnswerInv, HeldInv, NoDrift, [Next]_vars, [CreditIsFresh]_vars
  PROVE  NoDrift'
<1> SUFFICES ASSUME NEW a \in Accounts
             PROVE  Drift(a)' = 0
  BY DEF NoDrift
<1>1. Drift(a) = 0
  BY DEF NoDrift
<1>2. CASE Drift(a)' = Drift(a)
  BY <1>1, <1>2
<1>3. ASSUME NEW r \in Requests, TakesEffect(r), CreditAccount(req[r]) = a,
             Drift(a)' = IF lock[a] = r THEN seen[r] - LedgerBalance(a)
                                        ELSE Drift(a) - credit[r]
      PROVE  Drift(a)' = 0
  <2>1. CreditIsFresh
    BY <1>3 DEF TakesEffect, vars, committed
  <2>2. IF lock[a] = r THEN seen[r] = balance[a] ELSE credit[r] = 0
    BY <1>3, <2>1 DEF CreditIsFresh
  <2>3. CASE lock[a] = r
    BY <1>1, <1>3, <2>2, <2>3 DEF Drift
  <2>4. CASE lock[a] # r
    BY <1>1, <1>3, <2>2, <2>4
  <2>5. QED
    BY <2>3, <2>4
<1>4. QED
  BY <1>2, <1>3, DriftStep

(* With credits that are fresh the wallet keeps its books and is atomic,   *)
(* however many requests run at a time.                                    *)
THEOREM FreshCreditsSuffice ==
  Spec /\ [][CreditIsFresh]_vars =>
    []LedgerMatchesBalances /\ []NoDoubleSpend /\ RequestsAreAtomic
<1>1. Spec /\ [][CreditIsFresh]_vars => []NoDrift
  BY NoDriftInit, NoDriftStep, TypeInvariant, LockInvariant, AnswerInvariant,
     HeldInvariant, PTL DEF Spec
<1>2. QED
  BY <1>1, BooksMatch, NothingSpentTwice, AtomicInit, AtomicStep, TypeInvariant, MoneyInvariant,
     LockInvariant, AnswerInvariant, HeldInvariant, PriceInvariant,
     BalancesStayInRange, PTL
  DEF Spec, RequestsAreAtomic, Atomic!Spec
=============================================================================

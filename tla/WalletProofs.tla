---------------------------- MODULE WalletProofs ----------------------------
(***************************************************************************)
(* Proofs about Wallet, for any number of goroutines, any accounts given   *)
(* to them, and a rng that may make the same key again and again.          *)
(***************************************************************************)
EXTENDS Wallet, TLAPS

\* A call looks and inserts inside the lock, and answers when it is done.
LockInv ==
    /\ DOMAIN result = Callers
    /\ result = [c \in Callers |-> result[c]]
    /\ \A c \in Callers :
        /\ pc[c] \in {"look", "insert"} => lock = c
        /\ pc[c] # "done" => result[c] = <<>>

\* A call inserts an account, whose address is free.
InsertInv ==
    \A c \in Callers : pc[c] = "insert" =>
        arg[c] # Nothing /\ op[c] # "unlock" /\ Key(arg[c]) \notin DOMAIN accounts

\* The account AddNewAccount makes is its own, and nobody else's before it returns.
OwnInv ==
    \A c \in Callers :
        /\ pc[c] \in {"idle", "generate"} => arg[c] = Nothing
        /\ pc[c] = "generate" => op[c] = "new"
        /\ op[c] = "new" => arg[c] \in Made(c) \cup {Nothing}
        /\ op[c] = "new" /\ pc[c] \in {"lock", "look", "insert"} => arg[c] \in Made(c)
        /\ pc[c] # "done" => c \notin DOMAIN accounts
        /\ pc[c] # "done" => \A d \in Callers \ {c} : arg[d] # Nothing => Key(arg[d]) # c

IInv == TypeOK /\ LockInv /\ InsertInv /\ OwnInv /\ NewAccountNeverOrphaned

\* What an account is: it has an address, which is a call's only if the call made it.
LEMMA MadeAccounts ==
    /\ \A c \in Callers : \A a \in Made(c) : a \in Accounts /\ a # Nothing /\ Key(a) = c
    /\ \A a \in Given : a \in Accounts /\ a # Nothing /\ Key(a) \notin Callers
    /\ Nothing \notin Accounts
BY WalletAssumption DEF Made, Accounts, Key

\* Whatever account is passed on is given or comes from a call that is done.
LEMMA KnownAccounts ==
    ASSUME IInv, NEW a \in Known
    PROVE  /\ a \in Accounts /\ a # Nothing
           /\ \A c \in Callers : Key(a) = c => pc[c] = "done"
BY MadeAccounts DEF IInv, OwnInv, Known

\* No call has begun: the inductive invariant holds initially.
LEMMA InitIInv == Init => IInv
BY WalletAssumption
   DEF Init, IInv, TypeOK, PCs, LockInv, InsertInv, OwnInv, NewAccountNeverOrphaned

\* A call that begins, or ends before it has begun, leaves the map as it is.
LEMMA BeginKeepsIInv ==
    ASSUME IInv, NEW c \in Callers,
           AddAccount(c) \/ AddNewAccount(c) \/ Unlock(c) \/ UnlockWrongType(c)
    PROVE  IInv'
<1> USE WalletAssumption, MadeAccounts
    DEF IInv, TypeOK, PCs, LockInv, InsertInv, OwnInv, NewAccountNeverOrphaned, Call, End
<1>1. CASE AddAccount(c) \/ Unlock(c)
  <2>1. PICK a \in Known \cup {Nothing} : arg' = [arg EXCEPT ![c] = a]
    BY <1>1 DEF AddAccount, Unlock
  <2>2. a # Nothing => /\ a \in Accounts
                       /\ \A d \in Callers : Key(a) = d => pc[d] = "done"
    BY <2>1, KnownAccounts
  <2>3. pc[c] = "idle" /\ pc' = [pc EXCEPT ![c] = "lock"] /\ UNCHANGED <<accounts, lock, result>>
    BY <1>1 DEF AddAccount, Unlock
  <2>4. op' = [op EXCEPT ![c] = "add"] \/ op' = [op EXCEPT ![c] = "unlock"]
    BY <1>1 DEF AddAccount, Unlock
  <2>5. TypeOK' /\ LockInv'
    BY <2>1, <2>2, <2>3, <2>4
  <2>6. InsertInv' /\ NewAccountNeverOrphaned'
    BY <2>1, <2>2, <2>3, <2>4
  <2>7. OwnInv'
    BY <2>1, <2>2, <2>3, <2>4
  <2> QED
    BY <2>5, <2>6, <2>7
<1>2. CASE AddNewAccount(c)
  BY <1>2 DEF AddNewAccount
<1>3. CASE UnlockWrongType(c)
  BY <1>3 DEF UnlockWrongType
<1> QED
  BY <1>1, <1>2, <1>3

\* A step of a call keeps the inductive invariant.
LEMMA StepKeepsIInv ==
    ASSUME IInv, NEW c \in Callers, Step(c)
    PROVE  IInv'
<1> USE WalletAssumption, MadeAccounts
    DEF IInv, TypeOK, PCs, LockInv, InsertInv, OwnInv, NewAccountNeverOrphaned, End
<1>1. CASE Generated(c)
  BY <1>1 DEF Generated
<1>2. CASE GenerateFails(c)
  <2>1. arg[c] = Nothing /\ pc[c] = "generate" /\ pc' = [pc EXCEPT ![c] = "done"]
    BY <1>2 DEF GenerateFails
  <2>2. TypeOK' /\ LockInv' /\ InsertInv'
    BY <1>2, <2>1 DEF GenerateFails
  <2>3. OwnInv'
    BY <1>2, <2>1 DEF GenerateFails
  <2>4. NewAccountNeverOrphaned'
    BY <1>2, <2>1 DEF GenerateFails
  <2> QED
    BY <2>2, <2>3, <2>4
<1>3. CASE Lock(c)
  BY <1>3 DEF Lock
<1>4. CASE Panic(c)
  BY <1>4 DEF Panic
<1>5. CASE Look(c)
  BY <1>5 DEF Look
<1>6. CASE Insert(c)
  <2>1. /\ accounts' = [k \in DOMAIN accounts \cup {Key(arg[c])} |->
                           IF k = Key(arg[c]) THEN arg[c] ELSE accounts[k]]
        /\ pc[c] = "insert" /\ lock = c /\ arg[c] \in Accounts
        /\ Key(arg[c]) \notin DOMAIN accounts
    BY <1>6 DEF Insert
  <2>2. TypeOK' /\ LockInv'
    BY <1>6, <2>1 DEF Insert
  <2>3. InsertInv'
    BY <1>6, <2>1 DEF Insert
  <2>4. OwnInv'
    BY <1>6, <2>1 DEF Insert
  <2>5. NewAccountNeverOrphaned'
    BY <1>6, <2>1 DEF Insert
  <2> QED
    BY <2>2, <2>3, <2>4, <2>5
<1>7. CASE LookUp(c)
  BY <1>7 DEF LookUp
<1> QED
  BY <1>1, <1>2, <1>3, <1>4, <1>5, <1>6, <1>7 DEF Step

\* So does any step of the system.
LEMMA NextKeepsIInv == IInv /\ [Next]_vars => IInv'
<1>1. ASSUME IInv, UNCHANGED vars PROVE IInv'
  BY <1>1 DEF vars, IInv, TypeOK, LockInv, InsertInv, OwnInv, NewAccountNeverOrphaned
<1> QED
  BY <1>1, BeginKeepsIInv, StepKeepsIInv DEF Next

\* The inductive invariant holds in every reachable state.
THEOREM Inductive == Spec => []IInv
<1> QED
  BY InitIInv, NextKeepsIInv, PTL DEF Spec

\* Type correctness: every account is stored under its own address.
THEOREM TypeCorrect == Spec => []TypeOK
<1>1. IInv => TypeOK
  BY DEF IInv
<1> QED
  BY Inductive, <1>1, PTL

\* An account AddNewAccount has handed out is in the wallet, for ever.
THEOREM NeverOrphaned == Spec => []NewAccountNeverOrphaned
<1>1. IInv => NewAccountNeverOrphaned
  BY DEF IInv
<1> QED
  BY Inductive, <1>1, PTL

-----------------------------------------------------------------------------
\* The store of AccountRegistry is the range of the map: an address is free in one if
\* and only if it is in the other.
LEMMA StoreIsMap ==
    ASSUME TypeOK
    PROVE  /\ \A k \in DOMAIN accounts : Registry!At(k) = {accounts[k]}
           /\ \A k : k \notin DOMAIN accounts => Registry!At(k) = {}
BY DEF TypeOK, Key, Registry!At

\* The wallet is empty, and so is the store.
LEMMA InitImplements == Init => Registry!Init
BY DEF Init, Registry!Init

\* Every step of a call is one of the registry, or none.
LEMMA StepImplements ==
    ASSUME IInv, NEW c \in Callers, Step(c)
    PROVE  Registry!Next \/ UNCHANGED Registry!vars
<1> USE DEF Registry!Next, Registry!vars, Registry!Answer, IInv, End
<1>0. pc[c] # "done" /\ result[c] = <<>>
  BY DEF Step, Generated, GenerateFails, Lock, Panic, Look, Insert, LookUp, LockInv
<1>1. CASE Generated(c) \/ Lock(c)
  BY <1>1 DEF Generated, Lock
<1>2. CASE GenerateFails(c) \/ Panic(c)
  BY <1>0, <1>2 DEF GenerateFails, Panic, Registry!Fail
<1>3. CASE Look(c)
  <2>1. CASE Key(arg[c]) \in DOMAIN accounts
    <3>1. Registry!At(arg[c].sol) # {} /\ arg[c] \in Accounts
      BY <1>3, <2>1, StoreIsMap DEF Look, Key, TypeOK
    <3>2. Registry!Refuse(c, arg[c])
      BY <1>0, <1>3, <2>1, <3>1 DEF Look, Registry!Refuse
    <3> QED
      BY <3>1, <3>2
  <2>2. CASE Key(arg[c]) \notin DOMAIN accounts
    BY <1>3, <2>2 DEF Look
  <2> QED
    BY <2>1, <2>2
<1>4. CASE Insert(c)
  <2>0. arg[c] \in Accounts
    BY <1>4 DEF Insert, InsertInv, TypeOK
  <2>1. /\ Key(arg[c]) \notin DOMAIN accounts
        /\ accounts' = [k \in DOMAIN accounts \cup {Key(arg[c])} |->
                           IF k = Key(arg[c]) THEN arg[c] ELSE accounts[k]]
    BY <1>4 DEF Insert, InsertInv
  <2>2. Registry!At(arg[c].sol) = {}
    BY <2>1, StoreIsMap DEF Key
  <2>3. {accounts'[k] : k \in DOMAIN accounts'}
            = {accounts[k] : k \in DOMAIN accounts} \cup {arg[c]}
    BY <2>1
  <2>4. PICK a \in Accounts : a = arg[c]
    BY <2>0
  <2>5. Registry!Keep(c, a)
    BY <1>0, <1>4, <2>2, <2>3, <2>4 DEF Insert, Registry!Keep
  <2> QED
    BY <2>5
<1>5. CASE LookUp(c)
  <2> DEFINE k == Key(arg[c])
  <2>1. arg[c] \in Accounts /\ k \in Registry!Address
    BY <1>5 DEF LookUp, TypeOK, Key, Registry!Address
  <2>2. CASE k \in DOMAIN accounts
    <3>1. Registry!Find(c, k, accounts[k])
      BY <1>0, <1>5, <2>2, StoreIsMap DEF LookUp, Registry!Find
    <3> QED
      BY <2>1, <2>2, <3>1
  <2>3. CASE k \notin DOMAIN accounts
    <3>1. Registry!Miss(c, k)
      BY <1>0, <1>5, <2>3, StoreIsMap DEF LookUp, Registry!Miss
    <3> QED
      BY <2>1, <3>1
  <2> QED
    BY <2>2, <2>3
<1> QED
  BY <1>1, <1>2, <1>3, <1>4, <1>5 DEF Step

\* So is every step of the system.
LEMMA NextImplements ==
    IInv /\ [Next]_vars => [Registry!Next]_Registry!vars
<1> SUFFICES ASSUME IInv, [Next]_vars PROVE Registry!Next \/ UNCHANGED Registry!vars
  OBVIOUS
<1>1. ASSUME NEW c \in Callers, AddAccount(c) \/ AddNewAccount(c) \/ Unlock(c)
      PROVE  UNCHANGED Registry!vars
  BY <1>1 DEF AddAccount, AddNewAccount, Unlock, Call, Registry!vars
<1>2. ASSUME NEW c \in Callers, UnlockWrongType(c)
      PROVE  Registry!Next
  <2>1. pc[c] = "idle" /\ UNCHANGED accounts /\ result' = [result EXCEPT ![c] = <<"failed">>]
    BY <1>2 DEF UnlockWrongType, End
  <2>2. Registry!Fail(c)
    BY <2>1 DEF IInv, LockInv, Registry!Fail, Registry!Answer
  <2> QED
    BY <2>2 DEF Registry!Next
<1>3. CASE UNCHANGED vars
  BY <1>3 DEF vars, Registry!vars
<1> QED
  BY <1>1, <1>2, <1>3, StepImplements DEF Next

\* EphemeralWallet implements AccountRegistry: it is linearizable, and insert-once.
THEOREM Implements == Spec => RegistrySpec
<1> QED
  BY Inductive, InitImplements, NextImplements, PTL DEF Spec, RegistrySpec, Registry!Spec

=============================================================================

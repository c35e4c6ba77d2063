------------------------------- MODULE Wallet -------------------------------
(***************************************************************************)
(* EphemeralWallet (package wallet): goroutines that call AddAccount,      *)
(* AddNewAccount and Unlock on one map behind one mutex.                   *)
(*                                                                         *)
(* An account stands for itself and for the participant it belongs to: a   *)
(* record [sol, pub, cc].  A goroutine makes one call.  The account that   *)
(* AddNewAccount makes for call c has the Solana address c, for crypto/rand*)
(* does not make an address twice; its key comes from the caller's         *)
(* math/rand, which makes any key, also one that it has made before.       *)
(***************************************************************************)
EXTENDS Naturals, FiniteSets

CONSTANTS
    Callers,    \* the calls
    Given,      \* accounts that are not made by AddNewAccount
    PubKeys,    \* the keys of a rng
    NoCc,       \* CCAddr of an account made by AddNewAccount
    Nothing,    \* a nil pointer, or none yet
    NoCaller    \* nobody holds the lock

ASSUME WalletAssumption ==
    /\ \A a \in Given : a.sol \notin Callers
    /\ Nothing \notin Given /\ NoCaller \notin Callers
    /\ \A c \in Callers, k \in PubKeys : Nothing # [sol |-> c, pub |-> k, cc |-> NoCc]

VARIABLES
    pc,        \* where each call is
    op,        \* which call it is: "add", "new" or "unlock"
    arg,       \* its account, or participant
    accounts,  \* EphemeralWallet.accounts, from strings to accounts
    lock,      \* the call that holds EphemeralWallet.lock
    result     \* what it returned; <<>>: nothing yet

vars == <<pc, op, arg, accounts, lock, result>>

Made(c)  == {[sol |-> c, pub |-> k, cc |-> NoCc] : k \in PubKeys}
Accounts == Given \cup UNION {Made(c) : c \in Callers}

\* "generate": in NewRandomAccount; "lock": at lock.Lock(); the rest is inside.
PCs == {"idle", "generate", "lock", "look", "insert", "done"}

Key_PublicKey(part) == part.pub  \* mutant: the string is that of the public key

\* Participant.String
Key(part) == part.sol

TypeOK ==
    /\ pc \in [Callers -> PCs]
    /\ op \in [Callers -> {"add", "new", "unlock"}]
    /\ arg \in [Callers -> Accounts \cup {Nothing}]
    /\ \A k \in DOMAIN accounts : accounts[k] \in Accounts /\ Key(accounts[k]) = k
    /\ lock \in Callers \cup {NoCaller}

Init ==
    /\ pc = [c \in Callers |-> "idle"]
    /\ op = [c \in Callers |-> "add"]
    /\ arg = [c \in Callers |-> Nothing]
    /\ accounts = [k \in {} |-> Nothing]
    /\ lock = NoCaller
    /\ result = [c \in Callers |-> <<>>]

-----------------------------------------------------------------------------
\* Accounts that are about: those given, and those AddNewAccount has returned,
\* also together with an error.
Known == Given \cup {arg[c] : c \in {d \in Callers : op[d] = "new" /\ pc[d] = "done"
                                                    /\ arg[d] # Nothing}}

Call(c, kind, label) ==
    /\ pc[c] = "idle"
    /\ pc' = [pc EXCEPT ![c] = label]
    /\ op' = [op EXCEPT ![c] = kind]
    /\ UNCHANGED <<accounts, lock, result>>

End_NotDeferred(c, r) ==  \* mutant: no deferred Unlock, so that a panic keeps the lock
    /\ pc' = [pc EXCEPT ![c] = "done"]
    /\ result' = [result EXCEPT ![c] = r]
    /\ lock' = IF lock = c /\ r # <<"failed">> THEN NoCaller ELSE lock

\* Every way out runs the deferred Unlock.
End(c, r) ==
    /\ pc' = [pc EXCEPT ![c] = "done"]
    /\ result' = [result EXCEPT ![c] = r]
    /\ lock' = IF lock = c THEN NoCaller ELSE lock

\* AddAccount and Unlock take what they are given, and may be given nil.
AddAccount(c) ==
    /\ Call(c, "add", "lock")
    /\ \E a \in Known \cup {Nothing} : arg' = [arg EXCEPT ![c] = a]

Unlock(c) ==
    /\ Call(c, "unlock", "lock")
    /\ \E a \in Known \cup {Nothing} : arg' = [arg EXCEPT ![c] = a]

\* Unlock of an address of another type is refused before the lock.
UnlockWrongType(c) ==
    /\ pc[c] = "idle"
    /\ op' = [op EXCEPT ![c] = "unlock"]
    /\ End(c, <<"failed">>)
    /\ UNCHANGED <<arg, accounts>>

AddNewAccount(c) == Call(c, "new", "generate") /\ UNCHANGED arg

\* NewRandomAccount, outside the lock.
Generated(c) ==
    /\ pc[c] = "generate"
    /\ \E a \in Made(c) : arg' = [arg EXCEPT ![c] = a]
    /\ pc' = [pc EXCEPT ![c] = "lock"]
    /\ UNCHANGED <<op, accounts, lock, result>>

\* crypto/rand fails, or math/rand panics in a data race: it is not made for
\* goroutines that share it.
GenerateFails(c) ==
    /\ pc[c] = "generate"
    /\ End(c, <<"failed">>)
    /\ UNCHANGED <<op, arg, accounts>>

Lock(c) ==
    /\ pc[c] = "lock" /\ lock = NoCaller
    /\ pc' = [pc EXCEPT ![c] = "look"]
    /\ lock' = c
    /\ UNCHANGED <<op, arg, accounts, result>>

\* A nil pointer is dereferenced, for its address.
Panic(c) ==
    /\ pc[c] = "look" /\ arg[c] = Nothing
    /\ End(c, <<"failed">>)
    /\ UNCHANGED <<op, arg, accounts>>

Look_Overwrites(c) ==  \* mutant: an account that exists is replaced
    /\ pc[c] = "look" /\ op[c] # "unlock" /\ arg[c] # Nothing
    /\ pc' = [pc EXCEPT ![c] = "insert"] /\ UNCHANGED <<lock, result>>
    /\ UNCHANGED <<op, arg, accounts>>

\* AddAccount looks the address up.
Look(c) ==
    /\ pc[c] = "look" /\ op[c] # "unlock" /\ arg[c] # Nothing
    /\ IF Key(arg[c]) \in DOMAIN accounts
       THEN End(c, <<"refused", arg[c]>>)
       ELSE pc' = [pc EXCEPT ![c] = "insert"] /\ UNCHANGED <<lock, result>>
    /\ UNCHANGED <<op, arg, accounts>>

Insert_FullString(c) ==  \* mutant: the key it stores has the public key in it, as String says
    /\ pc[c] = "insert"
    /\ accounts' = [k \in DOMAIN accounts \cup {<<arg[c].sol, arg[c].pub>>} |->
                       IF k = <<arg[c].sol, arg[c].pub>> THEN arg[c] ELSE accounts[k]]
    /\ End(c, <<"kept", arg[c]>>)
    /\ UNCHANGED <<op, arg>>

Insert(c) ==
    /\ pc[c] = "insert"
    /\ accounts' = [k \in DOMAIN accounts \cup {Key(arg[c])} |->
                       IF k = Key(arg[c]) THEN arg[c] ELSE accounts[k]]
    /\ End(c, <<"kept", arg[c]>>)
    /\ UNCHANGED <<op, arg>>

\* Unlock looks the address up.
LookUp(c) ==
    /\ pc[c] = "look" /\ op[c] = "unlock" /\ arg[c] # Nothing
    /\ IF Key(arg[c]) \in DOMAIN accounts
       THEN End(c, <<"found", Key(arg[c]), accounts[Key(arg[c])]>>)
       ELSE End(c, <<"missed", Key(arg[c])>>)
    /\ UNCHANGED <<op, arg, accounts>>

Step(c) ==
    \/ Generated(c) \/ GenerateFails(c)
    \/ Lock(c) \/ Panic(c) \/ Look(c) \/ Insert(c) \/ LookUp(c)

Next == \E c \in Callers :
    AddAccount(c) \/ AddNewAccount(c) \/ Unlock(c) \/ UnlockWrongType(c) \/ Step(c)

Spec == Init /\ [][Next]_vars

\* Goroutines run, and a sync.Mutex starves nobody.
FairSpec == Spec /\ \A c \in Callers : WF_vars(Step(c))

-----------------------------------------------------------------------------
\* AddNewAccount returns the account even if AddAccount refuses it.  It never does:
\* what AddNewAccount has handed out can be unlocked, by its participant, for ever,
\* also when two accounts have the same key or another goroutine adds accounts.
NewAccountNeverOrphaned ==
    \A c \in Callers : op[c] = "new" /\ pc[c] = "done" /\ arg[c] # Nothing =>
        Key(arg[c]) \in DOMAIN accounts /\ accounts[Key(arg[c])] = arg[c]

\* Every call returns, also after one that was given nil panicked inside the lock.
CallsReturn == \A c \in Callers : pc[c] # "idle" ~> pc[c] = "done"

Registry == INSTANCE AccountRegistry WITH
    Caller  <- Callers,
    Account <- Accounts,
    store   <- {accounts[k] : k \in DOMAIN accounts},
    answer  <- result

\* Each call takes effect at one moment, in a store that keeps the first account of an
\* address: no goroutine inserts on a lookup that another one has overtaken.
RegistrySpec == Registry!Spec

=============================================================================
